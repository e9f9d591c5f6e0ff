SPECIFICATION Spec
CONSTANTS
    N = 2
    Choices <- Pairs
    MaxHandlers <- Handlers
    MaxFaults = 1
INVARIANTS TypeOK OneSubscription AccessIsPaid ChargedOnce PaidIsServed OneOpenPix
CHECK_DEADLOCK FALSE
