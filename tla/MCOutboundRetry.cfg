CONSTANTS
  image = image
  text = text
  c1 = c1
  NoMsg = NoMsg
  Messages = {image, text}
  Conversations = {c1}
  Workers = {w1, w2}
  Conv <- MCConv
  Follow <- MCFollow
  Lead <- MCLead
  Manual = {}
  HandoffNotice = {}
  OptionalMsgs = {image}
  Reactions = {}
  Retryable = {image, text}
  MaxAttempt = 1
  Quota = 9
  Reported = {"sent", "delivered", "failed"}
  MaxCrashes = 1
  MaxOps = 0
SYMMETRY Symmetry
SPECIFICATION Spec
INVARIANTS SendBudget OneSenderPerConversation SequenceOrder RetryHasDriver
PROPERTIES ImplementsOutbox
CHECK_DEADLOCK FALSE
