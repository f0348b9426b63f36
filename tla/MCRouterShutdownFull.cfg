SPECIFICATION FairSpec
CONSTANTS
  MaxRequests = 0
  MaxEvents = 0
  MaxLossy = 0
  MaxFrames = 1
  MaxTraffic = 3
  CommandCapacity = 1
  MessageCapacity = 1
  EventCapacity = 1
  MaxPending = 1
  ByteLimit = 1
  MayHang = FALSE
CHECK_DEADLOCK FALSE
PROPERTIES
  ShutdownEndsChild
