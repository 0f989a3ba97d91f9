SPECIFICATION FairAppSpec
CONSTANTS
    BurstAttempts = 4
    MaxBursts = 4
INVARIANTS
    AppTypeOK
    OneTab
    UsedTabOpen
    NoTabAfterStop
    ClosedAfterUse
PROPERTY ShutdownEnds
CHECK_DEADLOCK FALSE
