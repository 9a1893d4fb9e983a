SPECIFICATION Spec
CONSTANTS
    MaxConns = 1
    MaxPoints = 2
    Streams <- MCServiceStreams
    MayStall = TRUE
    InCapacity = 1
    MaxBytes = 1
    BytesOf <- MCBytesOf
    WithStop = {FALSE, TRUE}
PROPERTIES
    LeavesDeadClient
    RunCompletes
    HandshakeEnds
    StopEndsThreads
CHECK_DEADLOCK FALSE
