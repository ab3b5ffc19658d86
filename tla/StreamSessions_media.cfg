CONSTANTS
    Requests = {r1}
    Variants = {v1080p}
    Enders = {e1}
    MaxBytes = 1
SPECIFICATION Spec
INVARIANTS MediaKept
CHECK_DEADLOCK FALSE
