SPECIFICATION Spec
CONSTANTS
  MaxInterrupted = 1
  MaxStale = 1
  MaxWindows = 2
  MaxTurns = 2
  MaxCalls = 2
  MaxExtras = 2
INVARIANTS
  TypeOK
  
  TouchesAreHonoured
  EscIsWatched
