SPECIFICATION Spec
CONSTANTS
  CommandCapacity = 2
  EventCapacity = 3
  UiByteLimit = 1
  BatchLimit = 2
  ConnectEffects = 1
  MaxDelay = 3
  MaxFailures = 1
  MaxDeaths = 1
  MaxNoise = 1
  MaxUser = 1
  MaxLogins = 1
  MaxExtras = 1
INVARIANTS
  TypeOK
  TimerOnlyWhileDown
  StatusIsReal
PROPERTIES
  BackoffFollowsFailures
  RecoverySettles
