SPECIFICATION FairSpec
CONSTANTS
    Samples = {s1, s2}
    ChunkSize = 2
    MaxWorkers = 2
    PoolSize = 2
    Recovery = TRUE
    MaxRetries = 2
    MaxAttempts = 2
    MaxStrikes = 3
    FreshJournal = TRUE
    Faults = {"submit", "enqueue", "bookkeeping", "checkpoint"}
    Signals = {"cancel"}
INVARIANTS
    EverySampleAccounted
PROPERTIES
    SuccessIsNotRerun
    CachedSuccessSurvives
    StepEnds
    CancelEnds
CHECK_DEADLOCK FALSE
