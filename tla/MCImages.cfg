CONSTANTS
  Paths = {png, jpg}
  Jobs = {j1, j2, j3}
  Getters = {g1}
  None = None
  CacheTime = 1
  Latency = 1
  MaxTime = 3
  MaxCrash = 1
SPECIFICATION ImageSpec
INVARIANTS RowNamesFile LinkIsFresh
PROPERTY ImplementsQueue
SYMMETRY Symmetry
CHECK_DEADLOCK FALSE
