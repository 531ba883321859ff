SPECIFICATION TwoSamplesSpec
CONSTANTS
  DeviceIDs = {d1}
  Descs = {x}
  Times = {1, 2}
  Tags = {a, b}
  Rules = {1, 2, 3}
  RuleList <- DefaultRules
  Payloads <- DefaultPayloads
  Caps = {1, 2}
  NoDevice = NoDevice
  OfflineAfterArg = 1
  MaxTime = 4
  CacheEnabled = TRUE
  CacheMayFail = TRUE
  NoEntry = NoEntry
INVARIANTS
  NoOrphanTelemetry
  SeriesIsNewestArrivals
  UnknownUntilSeen
  EventsAreBacked
  BreachesAreAlerted
PROPERTIES
  SilentDevicesEndOffline
  CacheHeals
