SPECIFICATION FairSpec
CONSTANTS
  h1 = h1
  h2 = h2
  a1 = a1
  a2 = a2
  k1 = k1
  Handlers <- TwoHandlers
  AccountIds <- TwoAccounts
  Selectors <- OneSelector
  MaxAmount = 2
  NoEvent = NoEvent
  Nobody = Nobody
INVARIANTS
  BalanceIsOwn
  HandlersAreUpToDate
  CloseJoinsAll
PROPERTIES
  HeardInOrder
  ApplicationCloseEnds
CHECK_DEADLOCK FALSE
