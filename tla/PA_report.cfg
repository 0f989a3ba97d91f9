SPECIFICATION FairSpec
CONSTANTS
    MaxRefusals = 2
    MaxLost = 2
    MaxDbErrors = 2
    MaxCrashes = 2
INVARIANTS
    TypeOK
    RepeatExplained
    ToldMeansTold
PROPERTIES
    RecoveryFollowsFailure
    OutageToldInTheEnd
