SPECIFICATION RetrySpec
CONSTANTS
  Tabs = {t1, t2}
  Sessions = {s1, s2}
  NoTab = NoTab
  NoSession = NoSession
  Capacity = 1
  MinSamples = 1
  MaxWarnings = 0
  MaxAttempts = 2
  Happenings = {"waiting", "ending", "silence"}
  MaxRows = 1
  MaxMail = 1
  MaxMishaps = 0
INVARIANTS
  IdleTabHoldsNoLease
  StandingSessionHoldsLease
PROPERTIES
  OneTabRecordsAtATime
  WaitingTabTakesOver
