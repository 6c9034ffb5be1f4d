\* Three tasks: the desktop, the test task created at boot, and one more.
CONSTANTS
  MaxTasks = 3
  WorkMod = 2
  MaxSleep = 2
  MaxLaunches = 2
SPECIFICATION Spec
INVARIANTS TypeOK SavedContextsSound StackOfCurrentTask NeverDeaf CallerTestStillHolds FirstAppIntact
PROPERTIES ImplementsRoundRobin EveryTaskRuns SleepEnds YieldReturns
