SPECIFICATION FairSpec
CONSTANTS
    Clients = {c1, c2}
    c1 = c1
    Files = {f1}
    NoFile = NoFile
    Missing = Missing
    IdModulus = 2
    SocketBuffer = 2
    ChunkSize = 1
    Header = Header
    Noise = Noise
    Piece <- FilePieces
    InitialFiles <- DiskFiles
    Source <- OwnFile
    MaxCommands = 2
INVARIANTS IdsAreAccounted StopsSoon
PROPERTIES TransfersAreWhole CommandsEnd
CHECK_DEADLOCK FALSE
