SPECIFICATION Spec
CONSTANTS
  c1 = c1
  c2 = c2
  x1 = x1
  s1 = s1
  s2 = s2
  w1 = w1
  Connectors <- TwoConnects
  Disconnectors <- OneDisconnect
  Selectors <- None
  Waiters <- None
  Configured = "TEST"
  Nobody = Nobody
INVARIANTS
  ConnectedHasSupervisor
CHECK_DEADLOCK FALSE
