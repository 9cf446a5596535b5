CONSTANTS
  Users = {u1,u2,u3}
  NoUser = NoUser
  Calls = {c1, c2}
  MaxVersion = 3
  MaxMessage = 2
  MaxWrite = 3
SPECIFICATION Spec
INVARIANTS UndisturbedChangeShown ActivityIsNewest
PROPERTIES RemovedStaysRemoved MessagesByMembers
SYMMETRY Symmetry
CHECK_DEADLOCK FALSE
