CONSTANTS
  Texts = {2, 3}
  Buttons = {1}
  Window = 2
  MaxTime = 6
  MaxFaults = 0
  MaxDuplicates = 0
  MaxOthers = 0
  MaxLate = 0
SPECIFICATION Spec
INVARIANT MergedIsAnswered
CHECK_DEADLOCK FALSE
