CONSTANTS
    idle_timeout = 2
    ClientMessages = 2
    Datagrams = 2
    Capacity = 1
    Oversize = FALSE
SPECIFICATION Spec
PROPERTY IdleSessionsEnd
CHECK_DEADLOCK FALSE
