SPECIFICATION FairSpec
CONSTANTS
  WorkersArg = 2
  QueueSizeArg = 2
  Jobs = {j1, j2, j3, j4}
  Stoppers = {s1, s2}
  NoJob = NoJob
INVARIANTS
  FirstInFirstOut
  StopDrainsInFlight
  PoolInv
PROPERTIES
  ImplementsExecutor
  AcceptedJobRuns
  BlockedSubmitReturns
  StopTerminates
CHECK_DEADLOCK FALSE
