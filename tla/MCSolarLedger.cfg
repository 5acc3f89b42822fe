CONSTANTS
  Backlog = 3
  Wrap = 7
  MaxError = 1
  LastFigure = 2
  LastDay = 8
  MaxSweeps = 2
SPECIFICATION Spec
INVARIANTS
  RowsAreDays
PROPERTIES
  RowKeepsItsDay
  WholeSweepIsHeld
CHECK_DEADLOCK FALSE
