SPECIFICATION Spec
CONSTANTS
  Stores = {local, imported}
  Imported = {imported}
  Ids = {s1, s2}
  Windows = {w}
  Keys = {k1}
  NoStore = NoStore
  NoId = NoId
  NoWindow = NoWindow
  NoKey = NoKey
  MaxAsks = 4
INVARIANTS
  ScreenIsWhatWasAsked
  ViewingIsTold
PROPERTIES
  FileIsOfTheSessionAsked
  ReadingEnds
CHECK_DEADLOCK FALSE
