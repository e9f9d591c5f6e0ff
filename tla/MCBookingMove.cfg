CONSTANTS
  Appointments = {1, 2, 3}
  Calls = {}
  Employees = {1}
  Places <- MCPlaces
  Origin = 0
  Nowhere = 9
  Place <- MCPlace
  Travel <- MCTravel
  Dur <- MCDur
  Before = 0
  After = 0
  Open = 0
  Close = 7
  Interval = 2
  Blocks = {}
  MaxOpen = 1
  MaxEdits = 0
SPECIFICATION Spec
INVARIANT MoveStands
CHECK_DEADLOCK FALSE
