SPECIFICATION Spec
CONSTANTS
  Tabs = {t1}
  Sessions = {s1, s2}
  NoTab = NoTab
  NoSession = NoSession
  Capacity = 2
  MinSamples = 2
  MaxWarnings = 0
  MaxAttempts = 2
  Happenings = {"ending", "hiding", "holding", "naming", "leaving", "deleting", "throwing", "swapping", "locks", "pruning"}
  MaxRows = 2
  MaxMail = 0
  MaxMishaps = 1
SYMMETRY Interchange
VIEW Reachable
INVARIANT ClosedSessionIsWhole
PROPERTY OpenRowsAreFinished
