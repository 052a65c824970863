\* Two requests of any kind at once, two members of which one may quit without
\* a word, and a newcomer.
SPECIFICATION FairSpec
CONSTANTS
    Participants = {p1, p2, p3}
    Members = {p1, p2}
    Active = {p1, p3}
    Tasks = {t1, t2}
    Requests = {"register", "deregister", "disconnect", "reconnect", "multicast"}
    Quitters = {p1}
    NoFd = NoFd
    IdModulus = 6
    Threshold = 1
    MaxTime = 2
INVARIANTS TypeOK ManagerAgrees ConnectedHasMessenger EveryMessageOnce
PROPERTY RequestsEnd
CHECK_DEADLOCK FALSE
