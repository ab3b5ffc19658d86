CONSTANTS
    FailureThreshold = 1
    SuccessThreshold = 1
    HalfOpenMax = 1
    Scans = {s1, s2}
    NumFiles = 2
SPECIFICATION FairSpec
INVARIANTS ScanSound
PROPERTIES ScansEnd
CHECK_DEADLOCK FALSE
