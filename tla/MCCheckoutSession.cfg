SPECIFICATION Spec
CONSTANTS
    N = 2
    Choices <- Session
    MaxHandlers <- OneEach
    MaxFaults = 1
INVARIANT SessionIsServed
CHECK_DEADLOCK FALSE
