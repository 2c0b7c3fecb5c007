SPECIFICATION Spec
CONSTANTS
  s1 = s1
  s2 = s2
  m1 = m1
  m2 = m2
  Streams <- TwoStreams
  Markets <- TwoMarkets
  Envs = {"TEST", "REAL"}
  Lives = 3
  Nothing = Nothing
SYMMETRY StreamSymmetry
INVARIANTS
  ReferencesAreHeld
  OpenStreamsAreFed
  ItemsAreOwn
CHECK_DEADLOCK FALSE
