SPECIFICATION FairSpec
CONSTANTS
  Cap = 2
  jiffies_per_slice = 1
  WordSize = 100
  UserContexts <- MCUserContexts
  Garbage <- MCGarbage
  MaxTasks = 4
INVARIANTS
  SchedInv
  OneOwner
  OwnSpace
PROPERTIES
  NoOvertaking
  ImplementsThreads
  EveryTaskRuns
\* The kernel really stops: it halts or panics on request.
CHECK_DEADLOCK FALSE
