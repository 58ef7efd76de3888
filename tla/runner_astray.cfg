CONSTANTS
  CpuLimit = 1000
  RealLimit = 3000
  Tick = 500
  MaxTime = 4500
  Faults = {}
SPECIFICATION Spec
INVARIANTS
  KillerBoundToChild
CHECK_DEADLOCK FALSE
