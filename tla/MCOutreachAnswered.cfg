CONSTANTS
  c1 = c1
  Conversations = {c1}
  Served = {c1}
  Sweepers = {s1, s2}
  Limit = 2
  Plus = TRUE
  MaxClock = 2
  MaxReports = 0
  MaxCrashes = 0
  MaxOps = 1
SPECIFICATION Spec
PROPERTIES SilentAfterAnswer
CHECK_DEADLOCK FALSE
