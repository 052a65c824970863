\* A server with two clients.
SPECIFICATION FairSpec
CONSTANTS
    Endpoints = {e1, e2}
    NoEndpoint = NoEndpoint
    Messages <- SmallMessages
    MaxSends = 2
    ReceiveChunkSize = 4
    LengthBytes = 2
    ByteBase = 2
INVARIANTS TypeOK CompleteIsNoticed
PROPERTIES OnlyReturnsLose EveryMessageIsReceived
CHECK_DEADLOCK FALSE
