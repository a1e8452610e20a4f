SPECIFICATION FairSpec
CONSTANTS
    Handles = {h1, h2}
    MaxRetries = 1
    Fallback = {"aws", "google"}
    Timeout = 1
    Threshold = 1
CHECK_DEADLOCK FALSE
INVARIANTS
    NoJobIsForgotten
    SweepKills
    OneJobRuns
PROPERTIES
    ResultEnds
