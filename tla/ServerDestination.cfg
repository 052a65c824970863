\* A client leaves, another one comes, and a message is sent to the first.
SPECIFICATION Spec
CONSTANTS
    Clients = {c1, c2}
    NoClient = NoClient
    Callers = {k1}
    MaxFd = 1
    MaxSends = 1
SYMMETRY Symmetry
INVARIANT SentToDestination
CHECK_DEADLOCK FALSE
