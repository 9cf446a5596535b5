CONSTANTS
  Requests = {r1}
  Renewals = {u1, u2}
  Ttl = 1
  SweepPeriod = 2
  Latency = 1
  MaxStamp = 3
  MaxTime = 4
SPECIFICATION Spec
INVARIANTS RevokedStampsAreSwept UndisturbedRenewalEvicts OnlyRevokedRejected
SYMMETRY Symmetry
CHECK_DEADLOCK FALSE
