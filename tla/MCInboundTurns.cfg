CONSTANTS
  Texts = {1, 2, 3}
  Buttons = {}
  Window = 2
  MaxTime = 5
  MaxFaults = 1
  MaxDuplicates = 1
  MaxOthers = 1
  MaxLate = 0
SPECIFICATION FairSpec
INVARIANTS QueuedHasDriver AnswersHaveDriver TurnsExact
PROPERTY EventsSettle
CHECK_DEADLOCK FALSE
