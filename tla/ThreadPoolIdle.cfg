\* One caller and a pool without a limit: WaitForCompletion() on an idle pool.
SPECIFICATION FairSpec
CONSTANTS
    Tasks = {t1}
    Callers = {c1}
    NoTask = NoTask
    MaxPoolSize = 0
    UintModulus = 8
PROPERTIES IdleWaitReturns
