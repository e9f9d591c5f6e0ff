SPECIFICATION Spec
CONSTANTS
    N = 2
    Choices <- Cards
    MaxHandlers <- OneAtATime
    MaxFaults = 1
PROPERTY ChargedAfterReconciling
CHECK_DEADLOCK FALSE
