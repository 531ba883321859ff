SPECIFICATION StreamSpec
CONSTANTS
  BufferSizeArg = 1
  Publishers = {p1, p2}
  Handlers = {h1, h2}
  MaxEvents = 2
  NoWriter = NoWriter
INVARIANTS
  SendsOnlyToOpenChannels
  PerPublisherOrder
  NoSilentLoss
PROPERTIES
  BroadcastReturns
  SubscribeReturns
  DisconnectReleases
CHECK_DEADLOCK FALSE
