CONSTANTS
  CpuLimit = 1500
  RealLimit = 4500
  Tick = 500
  MaxTime = 6000
  Faults = {}
SPECIFICATION Spec
INVARIANTS
  TimeLimitJustified
CHECK_DEADLOCK FALSE
