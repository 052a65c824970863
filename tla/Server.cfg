\* Two clients, one of which may get the descriptor of the other.
SPECIFICATION Spec
CONSTANTS
    Clients = {c1, c2}
    NoClient = NoClient
    Callers = {k1, k2}
    MaxFd = 2
    MaxSends = 2
SYMMETRY Symmetry
INVARIANTS TypeOK ResultTellsTruth ResultsMeetCalls DescriptorsAreKept
CHECK_DEADLOCK FALSE
