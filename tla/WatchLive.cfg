SPECIFICATION FairSpec
CONSTANTS
    i1 = i1  i2 = i2
    Order <- MCOne
    Start <- MCStart
    Mode = "predicate_transition"
    SnapshotCap = 2
    Threshold = 1
    Ceiling = 1
    Malformed = {i1}
    FallsBack = TRUE
    MaxChanges = 2
    MaxEdits = 0
    MaxRuns = 2
    MaxCrashes = 1
INVARIANT TypeOK
PROPERTY PendingResolves
CHECK_DEADLOCK FALSE
