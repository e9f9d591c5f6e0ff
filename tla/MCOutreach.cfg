CONSTANTS
  c1 = c1
  Conversations = {c1}
  Served = {c1}
  Sweepers = {s1, s2}
  Limit = 2
  Plus = TRUE
  MaxClock = 2
  MaxReports = 1
  MaxCrashes = 1
  MaxOps = 1
SYMMETRY Symmetry
SPECIFICATION Spec
INVARIANTS TypeOK OutcomeWasTold SkippedStaysUntold
PROPERTIES OutcomeStays
CHECK_DEADLOCK FALSE
