SPECIFICATION ArchiveSpec
CONSTANTS
  Tabs = {t1, t2}
  MaxSession = 2
  MaxTime = 5
  HourSpan = 2
  ChunkSize = 2
  Capacities = {2, 3}
  MaxSessions = 1
  MaxHours = 3
  Retention = 4
  StaleAfter = 2
  Legacies = {"fresh", "cut", "littered"}
  MaxHappenings = 2
SYMMETRY Symmetry
VIEW Reachable
INVARIANT
  TotalsAreTheRows
PROPERTIES
  SummariesOutliveRaw
  AllowanceIsKept
CHECK_DEADLOCK FALSE
