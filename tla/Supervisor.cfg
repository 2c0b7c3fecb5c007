SPECIFICATION FairSpec
CONSTANTS
  s1 = s1
  s2 = s2
  s3 = s3
  d1 = d1
  d2 = d2
  Consumers <- ThreeConsumers
  Core <- OneCore
  Dests <- TwoDests
  Budget = 1
  NoId = NoId
INVARIANTS
  ReadyMeansRestored
  GivesUpAfterBudget
  QuietAfterStop
CHECK_DEADLOCK FALSE
PROPERTIES
  StopReturns
  ReconnectResolves
  SeenByOwner
