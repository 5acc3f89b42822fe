CONSTANTS
  Transports = {"watch", "scan", "bridge"}
  Window = 4
  Budget = 2
  FirstRearm = 1
  RearmCeiling = 3
  MaxHappenings = 3
SPECIFICATION Spec
INVARIANTS
  WatchIsRightful
  SleepsOnlyWithReason
PROPERTIES
  AutomaticKeepsBudget
  WatchComesBack
CHECK_DEADLOCK FALSE
