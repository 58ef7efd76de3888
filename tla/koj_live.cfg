CONSTANTS
  Requests = {r1, r2}
  Users = {u1}
  Owner <- OneOwner
  Contest = {r2}
  Editors = {}
  Assigned = {}
  InitialPriority = 3
  Judgers = {j1, j2}
  Prefetch = 2
  Unsupported = {r2}
  Outcomes = {"AC", "WA"}
  MaxFaults = 1
SPECIFICATION FairSpec
INVARIANTS
  TypeOK
  NoSilentLoss
PROPERTIES
  AppliedOnce
  EventuallySettled
CHECK_DEADLOCK FALSE
