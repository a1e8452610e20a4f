\* Two samples with one retry each, one fault, any number of downloads.
SPECIFICATION ResultsFairSpec
CONSTANTS
    Samples = {1, 2}
    MaxAttempts = 2
    MaxFaults = 1
INVARIANTS
    SuccessIsWhole
    
PROPERTY EventuallyDownloadable
