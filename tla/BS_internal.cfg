SPECIFICATION Spec
CONSTANTS
    Interval = 36
    Window = 9
    Step = 3
    Lead = 1
    Backoff = 72
    MaxDelay = 10
    Horizon = 150
INVARIANT InternalErrorWaits
CHECK_DEADLOCK FALSE
