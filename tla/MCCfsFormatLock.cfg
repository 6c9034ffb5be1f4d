SPECIFICATION Spec
CONSTANTS
  Drives = {1}
  SectorSlots = 2
  TableSlots = 3
  MaxTexts = 2
  MaxFailures = 1
INVARIANT FormatIsProtected
