SPECIFICATION FairSpec
CONSTANTS
    Files = {f1, f2, f3, f4}
    Callers = 1
    Workers = {w1, w2}
    MaxQueue = 3
    MaxRetries = 1
CHECK_DEADLOCK FALSE
INVARIANTS
    DrainedIsComplete
    OnlyLateFilesAreStranded
PROPERTIES
    CloseEnds
