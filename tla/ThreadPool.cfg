\* A pool of one thread, two tasks and two callers: the dispatcher sleeps for a
\* free slot, and two callers may wait at once.
SPECIFICATION FairSpec
CONSTANTS
    Tasks = {t1, t2}
    Callers = {c1, c2}
    NoTask = NoTask
    MaxPoolSize = 1
    UintModulus = 8
INVARIANTS IndInv HandlesAreSafe NoThreadOutlivesPool CompletionsAreAnnounced
PROPERTIES StatusIsFinal CancelTakesEffect DestructorReturns AddedTaskStarts
