CONSTANTS
  Requests = {r1, r2, r3}
  NoRequest = none
  Allowed = {"pix"}
  MaxAnnounced = 0
  MaxCrashes = 0
SPECIFICATION Spec
CHECK_DEADLOCK FALSE
INVARIANTS NeverSubmittedAgain
