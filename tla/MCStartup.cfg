CONSTANTS
    NotGiven = NotGiven
    Loopback = {"loopback"}
    ValidTargets = {"a"}
    Options <- MCOptions
    Conns = {c1, c2, c3}
    Stalled = {c2}
SPECIFICATION StartSpec
INVARIANTS NeverPanics AllListenersOrNone TlsPortIsNeverPlain
PROPERTIES CommandLineWins StalledClientBlocksNobody
CHECK_DEADLOCK FALSE
