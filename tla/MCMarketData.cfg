\* Four ticks of two times through a channel of one, for two consumers, with a
\* feed that may fail at every call.
CONSTANTS
  Streams = {"Market", "Strategy"}
  Publishers = {"gateway", "gaps"}
  StreamOf <- Stream
  Subscribers = {"watch", "desk"}
  Listens <- Polled
  Ids <- EventIds
  Payloads <- Contents
  Capacity = 1
  MinorTicks = 1
  SevereTicks = 2
  MaxAttempts = 0
  MinSamples = 1
  MaxTicks = 4
  MaxTime = 2
SPECIFICATION FairMarketSpec
INVARIANTS
  QuietAfterShutdown
PROPERTIES
  InOrder
  HaltsOnLoss
  ShutdownReturns
CHECK_DEADLOCK FALSE
