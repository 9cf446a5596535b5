CONSTANTS
  Sockets = {s1}
  Users = {u1}
  NoUser = NoUser
  SocketOffset = 1
  CronPeriod = 1
  Lives = {2, 3}
  MaxTime = 4
SPECIFICATION Spec
INVARIANT AskedInTime
CHECK_DEADLOCK FALSE
