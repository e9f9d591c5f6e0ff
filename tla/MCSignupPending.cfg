CONSTANTS
  Requests = {r1, r2}
  Nobody = Nobody
  Browser = Browser
  MaxAttempts = 2
  MaxRows = 2
  MaxEvents = 1
  MaxCrashes = 1
SPECIFICATION Spec
CHECK_DEADLOCK FALSE
INVARIANT PendingIsLegacy
