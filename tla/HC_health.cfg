SPECIFICATION HealthSpec
CONSTANTS
    Interval = 12
    Window = 3
    Step = 1
    Lead = 1
    Backoff = 24
    MaxDelay = 3
    Horizon = 38
INVARIANTS
    HealthTypeOK
    BoundariesAdvance
    BackoffKept
    NoBoundarySkipped
PROPERTY HealthExplained
CHECK_DEADLOCK FALSE
