CONSTANTS
  Users = {u1, u2}
  Emails = {e1, e2}
  Profiles = {p1}
  ProviderOf <- OneProvider
  Calls = {c1, c2}
  MaxToken = 2
  None = None
SPECIFICATION Spec
INVARIANTS SpentStaysSpent WholeOrError LinkedToOwner ConfirmedWasMailed
SYMMETRY Symmetry
CHECK_DEADLOCK FALSE
