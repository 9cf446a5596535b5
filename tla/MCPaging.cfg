CONSTANTS
  Start = 2
  MaxRow = 3
  Take = 1
  MaxMove = 2
SPECIFICATION PagingSpec
INVARIANTS NothingTwice NothingMissed
CHECK_DEADLOCK FALSE
