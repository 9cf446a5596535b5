CONSTANTS
  Sockets = {s1, s2}
  Users = {u1, u2}
  NoUser = NoUser
  SocketOffset = 1
  CronPeriod = 1
  Lives = {1}
  MaxTime = 1
SPECIFICATION Spec
INVARIANTS ConnectedAreListed LeftEntriesExplained 
SYMMETRY Symmetry
CHECK_DEADLOCK FALSE
