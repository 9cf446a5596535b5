CONSTANTS
  Calls = {c1, c2, c3}
  MaxToken = 4
SPECIFICATION Spec
INVARIANTS OneLiveToken LogoutEndsFamily SessionSurvives
PROPERTY ImplementsSessions
SYMMETRY Symmetry
CHECK_DEADLOCK FALSE
