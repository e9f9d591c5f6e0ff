CONSTANTS
  Requests = {r1, r2}
  NoRequest = none
  Allowed = {"credit_card"}
  MaxAnnounced = 1
  MaxCrashes = 0
SPECIFICATION Spec
CHECK_DEADLOCK FALSE
INVARIANTS CanceledAccessIsPaid
