SPECIFICATION FairSpec
CONSTANTS
  MaxTerminalTabs = 1
  CommandCapacity = 1
  EventCapacity = 1
  QueueCapacity = 1
  OutCapacity = 1
  DrainLimit = 1
  MaxOpens = 2
  MaxStarts = 2
  MaxExtras = 3
INVARIANTS
  TypeOK
  InputInOrder
  ShownIsReal
PROPERTIES
  WaitsEnd
