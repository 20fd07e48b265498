\* Two turns of the user, an assignment whose run may die, another run of the agent.
SPECIFICATION FairSpec
CONSTANTS
    u1 = u1  u2 = u2  a1 = a1  a2 = a2  o = o  r = r
    A = A  B = B  other = other
    Message = {u1, u2, a1}
    Thread = {A, B}
    Assignment = {u1, u2, a1}
    ThreadOf <- MCThreadOf
    KindOf <- MCKindOf
    AssignmentOf <- MCOwnAssignment
    Serialize = TRUE
    MaxInstances = 1
    Fallible = {a1}
    Other = {other}
    ChannelCapacity = 2
INVARIANTS
    QueueInv
    ThreadExclusive
    CapKept
    RowTruth
PROPERTIES
    NoOvertaking
    RowsFinal
    QueueDrains
CHECK_DEADLOCK FALSE
