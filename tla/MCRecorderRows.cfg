SPECIFICATION RetrySpec
CONSTANTS
  Tabs = {t1}
  Sessions = {s1}
  NoTab = NoTab
  NoSession = NoSession
  Capacity = 2
  MinSamples = 2
  MaxWarnings = 1
  MaxAttempts = 2
  Happenings = {"ending", "latching", "passing", "aborted", "closing", "leaving", "pruning"}
  MaxRows = 3
  MaxMail = 1
  MaxMishaps = 2
INVARIANTS TypeOK RowsAccounted
PROPERTIES StoredRowsStand CountedRowsReachTheArchive
