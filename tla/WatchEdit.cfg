SPECIFICATION Spec
CONSTANTS
    i1 = i1  i2 = i2
    Order <- MCOne
    Start <- MCStart
    Mode = "predicate_transition"
    SnapshotCap = 2
    Threshold = 2
    Ceiling = 1
    Malformed = {}
    FallsBack = FALSE
    MaxChanges = 3
    MaxEdits = 1
    MaxRuns = 2
    MaxCrashes = 1
INVARIANT TraceIsDurable
\* In its place, for the second question: PROPERTY RepeatsAreLateAlways
CHECK_DEADLOCK FALSE
