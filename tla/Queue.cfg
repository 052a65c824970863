\* A queue of two places; two elements tell the order of the pops.
SPECIFICATION FairSpec
CONSTANTS
    Producers = {p1, p2}
    Consumers = {c1, c2, c3}
    Elements = {e1, e2}
    NoElement = NoElement
    MaxLength = 2
    MaxPushes = 2
INVARIANTS TypeOK NotificationsSuffice
PROPERTIES ImplementsBuffer SleepersWake
