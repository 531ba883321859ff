SPECIFICATION FairSpec
CONSTANTS
  DeviceIDs = {d1}
  Descs = {x}
  Times = {1, 2}
  Tags = {a, b}
  Rules = {}
  RuleList <- NoRules
  Payloads <- NoMetrics
  Caps = {1}
  NoDevice = NoDevice
  OfflineAfterArg = 1
  MaxTime = 4
  CacheEnabled = TRUE
  CacheMayFail = TRUE
  NoEntry = NoEntry
PROPERTY OfflineOnlyWhenSilent
