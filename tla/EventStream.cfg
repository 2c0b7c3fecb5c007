SPECIFICATION FairSpec
CONSTANTS
  c1 = c1
  c2 = c2
  k1 = k1
  Consumers <- TwoConsumers
  Closers <- OneCloser
  Capacity = 2
  MaxItem = 4
CHECK_DEADLOCK FALSE
INVARIANTS
  TypeOK
  NewestKept
  StopMeansComplete
  UnregisteredWhenLeft
PROPERTIES
  InOrder
  EveryConsumerEnds
