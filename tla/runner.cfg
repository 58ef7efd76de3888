CONSTANTS
  CpuLimit = 500
  RealLimit = 1500
  Tick = 250
  MaxTime = 2000
  Faults = {"fork", "pthread_create", "wait4", "setup"}
SPECIFICATION Spec
INVARIANTS
  TypeOK
  ComparedIsClean
  TimeLimitJustified
PROPERTIES
  Returns
CHECK_DEADLOCK FALSE
