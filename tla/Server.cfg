SPECIFICATION FairServerSpec
CONSTANTS
  WorkersArg = 1
  QueueSizeArg = 1
  Jobs = {j1, j2, j3, j4}
  Stoppers = {Main}
  NoJob = NoJob
  HttpJobs = {j1, j2}
  Configured = {"mongo", "redis", "mqtt"}
  Main = Main
INVARIANTS
  JobsFindTheStoreOpen
  ExitLosesOnlyQueued
PROPERTIES
  ShutdownCompletes
  RequestsAreAnswered
CHECK_DEADLOCK FALSE
