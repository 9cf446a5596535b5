CONSTANTS
  a = a
  b = b
  c = c
  d = d
  RoleIds <- MCRoleIds
  Defaults <- MCDefaults
  Requests = {q1, q2}
SPECIFICATION OrderSpec
INVARIANTS PlacesAreDense UncontestedListShown
PROPERTY ImplementsList
SYMMETRY Symmetry
CHECK_DEADLOCK FALSE
