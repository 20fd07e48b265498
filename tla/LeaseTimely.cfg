CONSTANTS
    p1 = p1
    p2 = p2
    p3 = p3
    Nobody = Nobody
    Processes <- Three
    Ttl = 3
    StaleAfter = 1
    WaitBudget = 2
    Timely = TRUE
    MaxTime = 6
    MaxCrashes = 1
SPECIFICATION Spec
SYMMETRY Symmetric
INVARIANTS
    LeaseInv
    LockExclusive
    ExclusiveLease
PROPERTIES
    LiveLeaseKept
