CONSTANTS
  Requests = {r1, r2}
  NoRequest = none
  Allowed = {"credit_card", "pix", "pix_automatic"}
  MaxAnnounced = 1
  MaxCrashes = 1
SPECIFICATION Spec
CHECK_DEADLOCK FALSE
INVARIANTS SubmittedOnce ChargesStopFirst RefundedIsReal AccessUntilRefund RequestedHasWorker
