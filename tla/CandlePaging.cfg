SPECIFICATION FairPagingSpec
CONSTANTS
  Frame = 2
  Horizon = 8
INVARIANTS
  RangeIsComplete
PROPERTIES
  PagingEnds
CHECK_DEADLOCK FALSE
