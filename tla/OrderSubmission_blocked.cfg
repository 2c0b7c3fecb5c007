SPECIFICATION Spec
CONSTANTS
  c1 = c1
  c2 = c2
  r1 = r1
  Calls <- TwoCalls
  RawSenders <- NoRaw
  AllowReal = FALSE
  NoOne = NoOne
INVARIANTS
  BlockedMeansUnanswered
