SPECIFICATION BudgetSpec
CONSTANTS
  Threads = {t1, t2, t3}
  Limit = 2
  MaxBytes = 3
INVARIANTS
  AccountIsExact
PROPERTIES
  RefusedOnlyWhenFull
  NoLostWakeUp
