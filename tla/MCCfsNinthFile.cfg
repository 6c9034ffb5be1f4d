SPECIFICATION Spec
CONSTANTS
  Drives = {1}
  SectorSlots = 2
  TableSlots = 3
  MaxTexts = 3
  MaxFailures = 0
INVARIANT SavedFileIsListed
