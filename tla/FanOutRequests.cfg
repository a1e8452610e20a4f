SPECIFICATION Spec
CONSTANTS
    Samples = {s1, s2, s3}
    ChunkSize = 2
    MaxWorkers = 2
    PoolSize = 2
    Recovery = FALSE
    MaxRetries = 0
    MaxAttempts = 2
    MaxStrikes = 2
    FreshJournal = TRUE
    Faults = {"submit", "bookkeeping", "checkpoint", "report"}
    Signals = {"pause", "quota"}
SYMMETRY SampleSymmetry
INVARIANTS
    NoThreadLeftBehind
    JournalAgrees
    AbortPropagates
PROPERTY
    ThirdStrikeAborts
CHECK_DEADLOCK FALSE
