SPECIFICATION Spec
CONSTANTS
    s1 = s1
    Showtime = {s1}
    StartHour <- MCStartHour
    LastDate = 3
    MaxAttempts = 2
    MaxChanges = 2
INVARIANTS
    TypeOK
    SnapshotFaithful
PROPERTY AskedWithReason
