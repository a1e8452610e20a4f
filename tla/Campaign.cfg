\* One launch of every mode, every fault, and cancels, signals, crashes and the REST
\* pause by id at every point.
SPECIFICATION Spec
CONSTANTS
    Samples = {s1, s2}
    Target = s1
    MaxRuns = 1
    MaxGenerations = 2
    Modes = {"full", "dry", "single"}
    Widths = {"sequential", "concurrent"}
    Detach = {TRUE, FALSE}
    Faults = {"init", "step", "checkpoint", "write", "teardown"}
    Requests = {"cancel", "signal", "crash", "park"}
    Hurried = FALSE
INVARIANTS CancelIsHonoured OutcomeIsTold SuccessIsComplete
\* A run that has ended stays ended.
CHECK_DEADLOCK FALSE
