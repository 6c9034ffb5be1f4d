SPECIFICATION DesktopSpec
CONSTANTS
  RingSize = 3
  BufferSize = 3
  Sizes = {1, 2}
  Octets = {192}
  Machines <- MCMachines
  Drives = {0, 1}
  DirSlots = 3
  ShellSlots = 2
  CopySectors = 2
  FirstDisks <- MCFirstDisks
  MaxTexts = 1
  MaxFailures = 1
  MaxClicks = 6
  Apps = {"notepad", "disk"}
  FirstOrder <- MCFirstOrder
  HotApps = {"notepad"}
  Notepad = "notepad"
  PollLimit = 2
  Cooldown = 1
  QueueSize = 2
  Users <- MCUsers
  UsbMachines <- MCUsbMachines
  MaxRows = 3
  MaxUsbFaults = 1
  MaxUsbClicks = 3
  WinScore = 2
  Widths = {101, 130}
INVARIANTS
  DesktopTypeOK
  ReceivedIsSeenInOrder DoneMeansOnWire FirstLapInStep
  RowsAreOnDisk
  WholePackets NoPhantomClick ShiftTracks
  StickAnswersAlone OneWinner
PROPERTIES WireInOrder ReceptionGoesOn EntriesStay SavedTextsStay FramesGoOn
  SticksStay
CHECK_DEADLOCK FALSE
