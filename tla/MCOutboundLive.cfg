CONSTANTS
  answer = answer
  c1 = c1
  NoMsg = NoMsg
  Messages = {answer}
  Conversations = {c1}
  Workers = {w1, w2}
  Conv <- MCConv
  Follow <- MCFollow
  Lead <- MCLead
  Manual = {}
  HandoffNotice = {}
  OptionalMsgs = {}
  Reactions = {}
  Retryable = {answer}
  MaxAttempt = 1
  Quota = 9
  Reported = {"sent", "failed"}
  MaxCrashes = 1
  MaxOps = 1
SPECIFICATION FairSpec
PROPERTY FirstsSettle
CHECK_DEADLOCK FALSE
