CONSTANTS
  answer = answer
  c1 = c1
  NoMsg = NoMsg
  Messages = {answer}
  Conversations = {c1}
  Workers = {w1}
  Conv <- MCConv
  Follow <- MCFollow
  Lead <- MCLead
  Manual = {}
  HandoffNotice = {}
  OptionalMsgs = {}
  Reactions = {}
  Retryable = {answer}
  MaxAttempt = 1
  Quota = 9
  Reported = {"sent", "delivered", "read", "failed"}
  MaxCrashes = 0
  MaxOps = 0
SPECIFICATION Spec
INVARIANT DeliveredIsNotRetried
CHECK_DEADLOCK FALSE
