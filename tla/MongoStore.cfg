SPECIFICATION FewSamplesSpec
CONSTANTS
  DeviceIDs = {d1}
  Times = {1, 2, 3}
  Calls = {c1, c2, c3}
  Reading <- SomeReadings
  Windows <- SomeWindows
  MaxHistory = 1
  CallsMayFail = TRUE
SYMMETRY MongoSymmetry
INVARIANTS
  CapRestored
  LoneTrimsKeepNewest
  OnlyOvertakenPointsRemain
  NewestPointsLast
  StatsMatchSeries
CHECK_DEADLOCK FALSE
