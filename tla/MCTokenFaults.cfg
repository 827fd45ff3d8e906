CONSTANTS
    Users = {u1}
    Families = {f1, f2}
    Tokens = {t1, t2}
    NoToken = NoToken
    access_ttl = 1
    refresh_ttl = 2
    MAX_FAMILY_LIFETIME = 2
    SWEEP_INTERVAL = 1
    MAX_RECORDS = 2
    TicksPerSec = 2
    MaxTime = 4
    SecretFile = {TRUE, FALSE}
    MaxRestarts = 1
    MaxJump = 2
    MaxStepBack = 0
    MaxClockSets = 1
SPECIFICATION FaultSpec
SYMMETRY Symmetry
INVARIANTS RestartRevivesNothing TokensSurviveRestarts
CHECK_DEADLOCK FALSE
