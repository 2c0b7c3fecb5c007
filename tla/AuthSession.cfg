SPECIFICATION Spec
CONSTANTS
  r1 = r1
  r2 = r2
  c1 = c1
  l1 = l1
  Requests <- TwoRequests
  Connects <- OneConnect
  Logouts <- OneLogout
  MaxToken = 3
  MaxStops = 1
SYMMETRY RequestSymmetry
CHECK_DEADLOCK FALSE
INVARIANTS
  TypeOK
  SessionIsRestorable
  RefusedOnlyIfRevoked
PROPERTIES
  SavedSurvives
  LoggedOutStaysOut
