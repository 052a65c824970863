\* Four threads, two files, one operation each.
SPECIFICATION FairSpec
CONSTANTS
    x1 = x1
    x2 = x2
    x3 = x3
    x4 = x4
    f1 = f1
    f2 = f2
    Threads = {x1, x2, x3, x4}
    Files = {f1, f2}
    Values = {v1}
    Absent = Absent
    Dir = Dir
    Partial = Partial
    MaxOps = 1
    Requests <- MCRequests
INVARIANTS LocksAreExclusive WriteLockIsFree SleepersHaveAWaker
PROPERTIES ImplementsAtomicFiles OperationsEnd
CHECK_DEADLOCK FALSE
