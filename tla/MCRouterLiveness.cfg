SPECIFICATION FairSpec
CONSTANTS
  MaxRequests = 1
  MaxEvents = 1
  MaxLossy = 0
  MaxFrames = 1
  MaxTraffic = 3
  CommandCapacity = 1
  MessageCapacity = 1
  EventCapacity = 1
  MaxPending = 1
  ByteLimit = 1
  MayHang = TRUE
CHECK_DEADLOCK FALSE
PROPERTIES
  NobodyWaitsForEver
