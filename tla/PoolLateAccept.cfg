SPECIFICATION Spec
CONSTANTS
  WorkersArg = 2
  QueueSizeArg = 2
  Jobs = {j1}
  Stoppers = {s1}
  NoJob = NoJob
PROPERTY
  StoppedRefuses
CHECK_DEADLOCK FALSE
