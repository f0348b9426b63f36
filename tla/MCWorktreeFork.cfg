SPECIFICATION FairSpec
CONSTANTS
  MaxPendingForks = 3
  CommandCapacity = 1
  EventCapacity = 1
  MaxForks = 4
  MaxExtras = 1
INVARIANTS
  TypeOK
  ForkIsReal
PROPERTIES
  ForksEnd
  ImplementsHandoff
