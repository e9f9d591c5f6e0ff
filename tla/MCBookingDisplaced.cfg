CONSTANTS
  Appointments = {1, 2, 3, 4}
  Calls = {}
  Employees = {1, 2}
  Places <- MCPlaces
  Origin = 0
  Nowhere = 9
  Place <- MCPlaceNear
  Travel <- MCTravel
  Dur <- MCDurLong
  Before = 0
  After = 0
  Open = 0
  Close = 9
  Interval = 2
  Blocks = {}
  MaxOpen = 1
  MaxEdits = 1
SPECIFICATION Spec
INVARIANT FewestDisplaced
CHECK_DEADLOCK FALSE
