CONSTANTS
    FailureThreshold = 2
    SuccessThreshold = 2
    HalfOpenMax = 1
    Scans = {s1}
    NumFiles = 1
SPECIFICATION Spec
INVARIANTS NoOrphanItems
CHECK_DEADLOCK FALSE
