SPECIFICATION Spec
CONSTANTS
  Headers <- SmallHeaders
  Bodies <- SmallBodies
  Garbage <- SmallGarbage
  MaxItems = 2
\* A connection ends.
CHECK_DEADLOCK FALSE
INVARIANTS
  RoundTrip
