CONSTANTS
    p1 = p1
    p2 = p2
    p3 = p3
    Nobody = Nobody
    Processes <- Two
    Ttl = 3
    StaleAfter = 1
    WaitBudget = 2
    Timely = TRUE
    MaxTime = 6
    MaxCrashes = 0
SPECIFICATION Spec
INVARIANTS
    OneWinner
