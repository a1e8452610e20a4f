SPECIFICATION Spec
CONSTANTS
    Runs = {r1, r2}
    Samples = {s1, s2}
    ArraySizes = {{s1, s2}}
    MaxCampaigns = 2
    MaxSubmits = 2
    MaxRestarts = 1
    MaxAttempts = 2
SYMMETRY Symmetry
CHECK_DEADLOCK FALSE
INVARIANTS
    OneCampaignPerCommand
    ResultsAreFinal
    NotifiedOncePerArray
