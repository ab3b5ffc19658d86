CONSTANTS
    Goroutines = {g1}
    FailureThreshold = 2
    SuccessThreshold = 3
    HalfOpenMax = 1
SPECIFICATION FairSpec
PROPERTIES Recovers
