SPECIFICATION FairSpec
CONSTANTS
  MaxMessages = 2
  CommandCapacity = 1
  EventCapacity = 2
  MaxPieces = 2
  MaxTurns = 2
  MaxBuffered = 1
  MaxExtras = 1
INVARIANTS
  TypeOK
  UiAgrees
  BannerIsLive
PROPERTIES
  
  WaitsEnd
