CONSTANTS
  Devices = {boat, home}
  Copies = 1
  MaxVersion = 2
  Settings = {theme}
  Slots = {1, 2, 3}
SYMMETRY DeviceSymmetry
SPECIFICATION Spec
INVARIANTS
  FolderMakesSense
PROPERTIES
  ImplementsCatalogue
CHECK_DEADLOCK FALSE
