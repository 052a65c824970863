\* A member disconnects, reconnects and multicasts; another one listens.
SPECIFICATION Spec
CONSTANTS
    Participants = {p1, p2}
    Members = {p1, p2}
    Active = {p1}
    Tasks = {t1, t2, t3}
    Requests = {"disconnect", "reconnect", "multicast"}
    Quitters = {}
    NoFd = NoFd
    IdModulus = 6
    Threshold = 4
    MaxTime = 2
SYMMETRY Symmetry
INVARIANT MissedMessagesAreSent
CHECK_DEADLOCK FALSE
