\* Two runs of one assignment, in two threads; the first may die.
SPECIFICATION FairSpec
CONSTANTS
    u1 = u1  u2 = u2  a1 = a1  a2 = a2  o = o  r = r
    A = A  B = B  other = other
    Message = {a1, a2}
    Thread = {A, B}
    Assignment = {a1}
    ThreadOf <- MCThreadOf
    KindOf <- MCKindOf
    AssignmentOf <- MCOneAssignment
    Serialize = FALSE
    MaxInstances = 2
    Fallible = {a1}
    Other = {}
    ChannelCapacity = 2
PROPERTY
    RowNotStranded
CHECK_DEADLOCK FALSE
