CONSTANTS
  Requests = {r1, r2, r3, r4}
  Judgers = {j1}
  Prefetch = 3
  Unsupported = {r1, r2, r3}
  Outcomes = {"AC"}
  MaxFaults = 2
SPECIFICATION ServiceSpec
PROPERTIES
  WedgedForGood
  AnsweredUnlessWedged
CHECK_DEADLOCK FALSE
