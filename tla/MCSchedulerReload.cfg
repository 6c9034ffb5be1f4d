\* The desktop, the test task, and two programs opened from a .BIN file.
CONSTANTS
  MaxTasks = 4
  WorkMod = 1
  MaxSleep = 0
  MaxLaunches = 2
SPECIFICATION SafeSpec
INVARIANTS AppCodeIntact
