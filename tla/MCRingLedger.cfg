CONSTANTS
  RingSize = 9
  FrameSize = 3
  MinOverlap = 3
  TailLength = 9
  MaxRows = 11
  KeptRows = 10
  Twins = {4}
  LastRecord = 12
  MaxReads = 3
SPECIFICATION RingSpec
INVARIANTS
  RowsAreTheRing
PROPERTIES
  ReadIsHeld
CHECK_DEADLOCK FALSE
