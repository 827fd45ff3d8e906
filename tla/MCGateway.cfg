CONSTANTS
    alice = alice
    bob = bob
    secret = secret
    Users <- MCUsers
    Families = {f1}
    Tokens = {t1, t2}
    NoToken = NoToken
    access_ttl = 1
    refresh_ttl = 1
    MAX_FAMILY_LIFETIME = 1
    SWEEP_INTERVAL = 1
    MAX_RECORDS = 2
    TicksPerSec = 1
    MaxTime = 3
    Credentials <- MCCredentials
    BadLine = BadLine
    NoFile = NoFile
    FixedAuthorizations = {}
    HasAuthFile = TRUE
    TargetLines = {"private:22", "public:80"}
    Addr <- MCAddr
    FixedTargetLines = {"public:80"}
    HasTargetFile = FALSE
    MaxWrites = 1
    Anonymous = Anonymous
    MaxTunnels = 1
SPECIFICATION GatewaySpec
SYMMETRY Symmetry
PROPERTIES TunnelsAreEntitled OnlyListedUsersGetTokens RefusalIsFinal
CHECK_DEADLOCK FALSE
