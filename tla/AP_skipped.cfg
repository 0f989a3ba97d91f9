SPECIFICATION Spec
CONSTANTS
    t1 = t1
    t2 = t2
    b1 = b1
    b2 = b2
    s1 = s1
    s2 = s2
    Targets = {t1}
    Branches = {b1}
    Showtimes = {s1}
    TargetOf <- AllOfT1
    BranchOf <- AllAtB1
    FilmDay <- SameDay
    Preparers = {}
    BurstAttempts = 1
    LostAnswers = FALSE
    MaxGeneration = 4
    MaxCrashes = 0
    MaxDbErrors = 0
PROPERTY SkippedNeverSent
