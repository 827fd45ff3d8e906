CONSTANTS
    Users = {u1}
    Families = {f1, f2}
    Tokens = {t1, t2, t3}
    NoToken = NoToken
    access_ttl = 1
    refresh_ttl = 1
    MAX_FAMILY_LIFETIME = 2
    SWEEP_INTERVAL = 1
    MAX_RECORDS = 3
    TicksPerSec = 2
    MaxTime = 4
    SecretFile = {TRUE}
    MaxRestarts = 1
    MaxJump = 0
    MaxStepBack = 0
    MaxClockSets = 0
SPECIFICATION FaultSpec
SYMMETRY Symmetry
INVARIANT RevocationHolds
CHECK_DEADLOCK FALSE
