SPECIFICATION SafeSpec
CONSTANTS
    MaxConns = 2
    MaxPoints = 0
    Streams <- MCClientsStreams
    MayStall = FALSE
    InCapacity = 1
    MaxBytes = 2
    BytesOf <- MCBytesOf
    WithStop = {FALSE}
INVARIANTS
    TypeOK
    NoCrossTalk
    NoGap
PROPERTIES
    OwnCommands
    NothingAfterTorn
    FollowsProtocol
CHECK_DEADLOCK FALSE
