CONSTANTS
  Users = {u1, u2, u3}
  Target = u1
  Roles = {r1, r2}
  Calls = {c1, c2, c3}
  MaxRoom = 3
SPECIFICATION Spec
INVARIANTS OnePrivateRoom LeftBehindWasCreatedBetween RefusedForARoom UndisturbedRolesAreAsked TokenHasRoles
SYMMETRY Symmetry
CHECK_DEADLOCK FALSE
