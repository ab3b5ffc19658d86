CONSTANTS
    Requests = {r1}
    Variants = {v1080p, v720p, v480p}
    Enders = {e1, e2}
    MaxBytes = 1
SPECIFICATION FairSpec
INVARIANTS SessionsSafe EndReportsAllBytes NoFilesAfterEnd 
PROPERTIES DirsReclaimed WorkersEnd
CHECK_DEADLOCK FALSE
