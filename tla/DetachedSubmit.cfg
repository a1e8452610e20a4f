\* Two machines run the command, again and again, with two faults.
SPECIFICATION FairSpec
CONSTANTS
    Invocations = {i1, i2}
    Samples = {s1, s2}
    MaxGenerations = 3
    MaxFaults = 2
INVARIANTS
    LeaseIsRespected
    OneClaimPerSample
    SubmittedIsHandedOff
    HandoffNamesJobs
PROPERTIES
    ImplementsStore
    EventuallyHandedOff
