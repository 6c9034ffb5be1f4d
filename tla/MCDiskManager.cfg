SPECIFICATION DmSpec
CONSTANTS
  Drives = {0, 1}
  SectorSlots = 2
  TableSlots = 3
  MaxTexts = 1
  MaxFailures = 0
  Tabs = {0, 1}
  StackEntries <- MCStackEntries
  MaxClicks = 6
INVARIANTS DmTypeOK OpenViewHasDrive RootRowsAreOnDisk
PROPERTIES SaveStaysInSlot ImplementsCfsDirectory
CHECK_DEADLOCK FALSE
