CONSTANTS
  NoPack = NoPack
  Packs = {a, b}
  MaxHappenings = 5
SPECIFICATION Spec
INVARIANTS
  LinkIsAccountedFor
  SleepsOnlyWithReason
PROPERTIES
  LinkEndsOnlyFromOutside
  DisconnectSticks
  NeverGivesUp
CONSTRAINT
  NotOvertaken
CHECK_DEADLOCK FALSE
