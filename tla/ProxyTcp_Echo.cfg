CONSTANTS
    ClientBytes = 8
    UpstreamBytes = 0
    MaxMessage = 2
    buffer_size = 2
    Capacity = 1
    MaxPings = 0
    Echo = {TRUE}
    Failures = FALSE
SPECIFICATION Spec
PROPERTY BytesFlowBothWays
CHECK_DEADLOCK FALSE
