CONSTANTS
    Logins = {l1, l2, l3}
    Addresses = {a1, a2}
    MaxAttempts = 3
    LockTicks = 2
SPECIFICATION FairSpec
INVARIANTS LockMatchesAttempts ExhaustedIsLocked
PROPERTIES LockoutNotProlonged Forgotten
