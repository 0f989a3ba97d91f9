SPECIFICATION Spec
CONSTANTS
    User = {u1, u2}
    Handler = {h1, h2}
    Cooldown = 2
    MaxTime = 6
INVARIANTS
    TypeOK
PROPERTIES
    GrantsSpaced
    RefusalsDeserved
CHECK_DEADLOCK FALSE
