SPECIFICATION Spec
CONSTANTS
  Users = {u1, u2}
  Whinnies = {w1, w2, w3}
  Calls = {c1, c2, c3}
  None = None
SYMMETRY Symmetry
INVARIANTS RepostsAreChecked GraphAgrees
CHECK_DEADLOCK FALSE
