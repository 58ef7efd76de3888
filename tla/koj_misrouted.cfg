CONSTANTS
  Requests = {r1, r2}
  Users = {u1}
  Owner <- OneOwner
  Contest = {r2}
  Editors = {}
  Assigned = {}
  InitialPriority = 95
  Judgers = {j1}
  Prefetch = 2
  Unsupported = {}
  Outcomes = {"AC", "WA"}
  MaxFaults = 0
SPECIFICATION Spec
INVARIANTS
  AnswerOnTheWay
CHECK_DEADLOCK FALSE
