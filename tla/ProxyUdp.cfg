CONSTANTS
    idle_timeout = 2
    ClientMessages = 2
    Datagrams = 2
    Capacity = 1
    Oversize = TRUE
SPECIFICATION ReadingClientSpec
INVARIANTS OneForOne
PROPERTIES OnlyIdleSessionsTimeOut IdleSessionsEnd
CHECK_DEADLOCK FALSE
