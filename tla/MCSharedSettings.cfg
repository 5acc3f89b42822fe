CONSTANTS
  Devices = {boat, home}
  Keys = {key}
  Plain = {dark, light}
  MaxEdits = 3
  MaxRevisions = 3
SYMMETRY DevicePlainSymmetry
SPECIFICATION Spec
INVARIANTS
  OptedOutLeavesTheKey
PROPERTIES
  EditsSurvive
  ReplacesOnlyTheKnown
CHECK_DEADLOCK FALSE
