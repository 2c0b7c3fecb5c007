SPECIFICATION FairSpec
CONSTANTS
  c1 = c1
  c2 = c2
  x1 = x1
  s1 = s1
  s2 = s2
  w1 = w1
  Connectors <- TwoConnects
  Disconnectors <- OneDisconnect
  Selectors <- OneSelect
  Waiters <- OneWaiter
  Configured = "TEST"
  Nobody = Nobody
INVARIANTS
  NoLostWakeup
  NoDuplicateTransport
  ReadyMeansUsable
CHECK_DEADLOCK FALSE
PROPERTIES
  EveryCallReturns
