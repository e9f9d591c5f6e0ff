CONSTANTS
  answer = answer
  typed = typed
  notice = notice
  c1 = c1
  c2 = c2
  NoMsg = NoMsg
  Messages = {answer, typed, notice}
  Conversations = {c1, c2}
  Workers = {w1, w2}
  Conv <- MCConv
  Follow <- MCFollow
  Lead <- MCLead
  Manual = {typed}
  HandoffNotice = {notice}
  OptionalMsgs = {}
  Reactions = {}
  Retryable = {answer}
  MaxAttempt = 0
  Quota = 9
  Reported = {}
  MaxCrashes = 0
  MaxOps = 1
SYMMETRY Symmetry
SPECIFICATION Spec
INVARIANT NothingAfterOff
CHECK_DEADLOCK FALSE
