CONSTANTS
    Goroutines = {g1, g2}
    FailureThreshold = 2
    SuccessThreshold = 2
    HalfOpenMax = 2
SPECIFICATION FairSpec
INVARIANTS SuccessesSettle OpenIsStamped
PROPERTIES Recovers
