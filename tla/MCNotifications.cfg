CONSTANTS
  MaxJob = 3
  Workers = 2
  MaxRow = 2
  MaxCrash = 1
SPECIFICATION FairSpec
INVARIANTS SeenHasMoment CreatedOnce SettledRowShown
PROPERTIES StatusNotUndone FirstMomentKept JobsEnd ImplementsQueue
CHECK_DEADLOCK FALSE
