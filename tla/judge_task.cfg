CONSTANTS
  Entries = {t1, t2, t3, readme}
  Tests = {t1, t2, t3}
  Usages = {0, 7}
  Broken = {t1, t2}
SPECIFICATION Spec
INVARIANTS
  TypeOK
  AcceptedPassesAll
  VerdictOfFirstFailure
  TimeIsPeak
CHECK_DEADLOCK FALSE
