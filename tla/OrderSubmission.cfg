SPECIFICATION FairSpec
CONSTANTS
  c1 = c1
  c2 = c2
  r1 = r1
  Calls <- TwoCalls
  RawSenders <- OneRaw
  AllowReal = FALSE
  NoOne = NoOne
INVARIANTS
  NoCrossing
  AtMostOneUncorrelated
  NoUnauthorisedReal
PROPERTIES
  EveryPlaceReturns
