CONSTANTS
    Users = {u1}
    Families = {f1, f2}
    Tokens = {t1, t2, t3, t4}
    NoToken = NoToken
    access_ttl = 1
    refresh_ttl = 1
    MAX_FAMILY_LIFETIME = 2
    SWEEP_INTERVAL = 1
    MAX_RECORDS = 3
    TicksPerSec = 2
    MaxTime = 5
SPECIFICATION Spec
SYMMETRY Symmetry
INVARIANTS TypeOK StoreBounded OneLivePerFamily RevocationHolds SingleUse LoginLifetime
PROPERTIES OnlyItsLoginEndsIt ReuseDetected ImplementsSessions
CHECK_DEADLOCK FALSE
