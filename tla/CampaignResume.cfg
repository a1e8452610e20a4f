\* A run and its successor in the same directory, with pause, unpause and resume.
SPECIFICATION FairSpec
CONSTANTS
    Samples = {s1}
    Target = s1
    MaxRuns = 2
    MaxGenerations = 1
    Modes = {"full"}
    Widths = {"sequential", "concurrent"}
    Detach = {TRUE, FALSE}
    Faults = {}
    Requests = {"pause", "unpark", "resume"}
    Hurried = FALSE
INVARIANT ResumedRunSucceeds
PROPERTY RunsEnd
\* A run that has ended stays ended.
CHECK_DEADLOCK FALSE
