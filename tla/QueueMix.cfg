\* Two turns of the user, an assignment in a second thread, a recurring schedule,
\* another run of the agent; no serialization.
SPECIFICATION Spec
CONSTANTS
    u1 = u1  u2 = u2  a1 = a1  a2 = a2  o = o  r = r
    A = A  B = B  other = other
    Message = {u1, u2, a2, r}
    Thread = {A, B}
    Assignment = {u1, u2, a2, r}
    ThreadOf <- MCThreadOf
    KindOf <- MCKindOf
    AssignmentOf <- MCOwnAssignment
    Serialize = FALSE
    MaxInstances = 1
    Fallible = {a2}
    Other = {other}
    ChannelCapacity = 2
INVARIANTS
    QueueInv
    ThreadExclusive
    CapKept
    RowTruth
PROPERTIES
    NoOvertaking
    RowsFinal
CHECK_DEADLOCK FALSE
