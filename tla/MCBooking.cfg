CONSTANTS
  Appointments = {1, 2, 3, 4}
  Calls = {4}
  Employees = {1}
  Places <- MCPlaces
  Origin = 0
  Nowhere = 9
  Place <- MCPlace
  Travel <- MCTravel
  Dur <- MCDur
  Before = 0
  After = 0
  Open = 0
  Close = 7
  Interval = 2
  Blocks = {}
  MaxOpen = 2
  MaxEdits = 1
SPECIFICATION Spec
INVARIANTS ReservedDisjoint SerialTravel ConfirmStands
CHECK_DEADLOCK FALSE
