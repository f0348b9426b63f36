SPECIFICATION Spec
CONSTANTS
  MaxRequests = 2
  MaxEvents = 3
  MaxLossy = 2
  MaxFrames = 0
  MaxTraffic = 3
  CommandCapacity = 1
  MessageCapacity = 1
  EventCapacity = 1
  MaxPending = 1
  ByteLimit = 1
  MayHang = TRUE
CHECK_DEADLOCK FALSE
INVARIANTS
  TypeOK
  NoOrphanedCall
  NoLeaseLeak
  EndIsOrderly
  EventsAreFaithful
PROPERTIES
  ImplementsContract
