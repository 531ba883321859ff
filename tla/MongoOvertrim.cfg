SPECIFICATION Spec
CONSTANTS
  DeviceIDs = {d1}
  Times = {1, 2}
  Calls = {c1, c2, c3}
  Reading <- NoReadings
  Windows = {}
  MaxHistory = 2
  CallsMayFail = FALSE
INVARIANT TrimRemovesOnlyExcess
CHECK_DEADLOCK FALSE
