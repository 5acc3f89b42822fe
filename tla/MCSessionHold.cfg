CONSTANTS
  NoPack = NoPack
  Packs = {a, b}
  MaxHappenings = 6
SPECIFICATION Spec
INVARIANTS
  GuardOrWindow
  WaitingSessionIsOnePacks
PROPERTIES
  DisconnectEndsTheGap
  SilentSessionEnds
CHECK_DEADLOCK FALSE
