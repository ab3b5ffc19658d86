CONSTANTS
    Goroutines = {g1}
    FailureThreshold = 3
    SuccessThreshold = 3
    HalfOpenMax = 3
SPECIFICATION Spec
INVARIANTS ReportsState
PROPERTIES ImplementsSerial
