SPECIFICATION Spec
CONSTANTS
    MaxFaults = 2
    MaxDeletions = 1
    MaxId = 10
INVARIANTS
    TypeOK
    NoTwins
    InstalledConsistent
    MembersStayIn
PROPERTY HiddenWithAWayIn
