SPECIFICATION Spec
CONSTANTS
    Samples = {s1, s2, s3}
    ChunkSize = 2
    MaxWorkers = 1
    PoolSize = 1
    Recovery = FALSE
    MaxRetries = 0
    MaxAttempts = 2
    MaxStrikes = 3
    FreshJournal = TRUE
    Faults = {"submit", "journal", "bookkeeping", "checkpoint", "report"}
    Signals = {"cancel", "pause"}
SYMMETRY SampleSymmetry
PROPERTY
    NoJobAfterSweep
CHECK_DEADLOCK FALSE
