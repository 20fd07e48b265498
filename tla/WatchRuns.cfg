SPECIFICATION Spec
CONSTANTS
    i1 = i1  i2 = i2
    Order <- MCPair
    Start <- MCStart
    Mode = "predicate_transition"
    SnapshotCap = 2
    Threshold = 1
    Ceiling = 1
    Malformed = {}
    FallsBack = FALSE
    MaxChanges = 2
    MaxEdits = 1
    MaxRuns = 2
    MaxCrashes = 1
INVARIANTS
    WatchInv
    DispatchIsTraced
    ConfirmedHasEnded
    SeenWasReported
PROPERTIES
    RepeatsAreLate
    HistoryNeverFires
CHECK_DEADLOCK FALSE
