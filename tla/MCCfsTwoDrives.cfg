SPECIFICATION Spec
CONSTANTS
  Drives = {0, 1}
  SectorSlots = 1
  TableSlots = 2
  MaxTexts = 2
  MaxFailures = 0
VIEW FreshReads
PROPERTIES ImplementsFileStore
