CONSTANTS
    Users = {u1}
    NoToken = NoToken
    access_ttl = 1
    refresh_ttl = 1
    MAX_FAMILY_LIFETIME = 2
    SWEEP_INTERVAL = 1
    TicksPerSec = 2
    MaxTime = 3
    Families = {f1, f2}
    Tokens = {t1, t2, t3}
    MAX_RECORDS = 2
SPECIFICATION Spec
SYMMETRY Symmetry
PROPERTY ReuseAlwaysRevokes
CHECK_DEADLOCK FALSE
