SPECIFICATION FairSpec
CONSTANTS
    t1 = t1
    t2 = t2
    b1 = b1
    b2 = b2
    s1 = s1
    s2 = s2
    Targets = {t1, t2}
    Branches = {b1, b2}
    Showtimes = {s1, s2}
    TargetOf <- OneEach
    BranchOf <- Apart
    FilmDay <- SameDay
    Preparers = {}
    BurstAttempts = 1
    LostAnswers = FALSE
    MaxGeneration = 2
    MaxCrashes = 0
    MaxDbErrors = 0
INVARIANTS
    PanelCurrent
PROPERTIES
    PendingSettles
    UnavailableSwitchedOff
