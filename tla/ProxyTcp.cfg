CONSTANTS
    ClientBytes = 5
    UpstreamBytes = 2
    MaxMessage = 3
    buffer_size = 2
    Capacity = 2
    MaxPings = 1
    Echo = {TRUE, FALSE}
    Failures = TRUE
SPECIFICATION Spec
INVARIANTS EndComesLast
PROPERTIES PipeToUpstream PipeToClient CloseEndsTunnel
CHECK_DEADLOCK FALSE
