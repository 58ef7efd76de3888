CONSTANTS
  Requests = {r1, r2}
  Users = {u1}
  Owner <- OneOwner
  Contest = {r2}
  Editors = {u1}
  Assigned = {156}
  InitialPriority = 100
  Judgers = {j1}
  Prefetch = 1
  Unsupported = {}
  Outcomes = {"WA"}
  MaxFaults = 1
SPECIFICATION LedgerSpec
INVARIANTS
  LedgerTypeOK
  PriorityBounded
  SerialUsersExact
  NoSilentLoss
  AnsweredBeforeGone
  VerdictProvenance
PROPERTIES
  ImplementsService
CHECK_DEADLOCK FALSE
