SPECIFICATION FairSpec
CONSTANTS
  o1 = o1
  o2 = o2
  t1 = t1
  Orders <- TwoOrders
  Tasks <- OneTask
  Terminal <- WinOnly
INVARIANTS
  OutcomesAreTrue
PROPERTIES
  FollowsLife
  KnownDetailKept
  EveryWaitReturns
