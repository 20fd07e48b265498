\* A turn of the user and a recurring schedule in one thread.
SPECIFICATION Spec
CONSTANTS
    u1 = u1  u2 = u2  a1 = a1  a2 = a2  o = o  r = r
    A = A  B = B  other = other
    Message = {u1, r}
    Thread = {A, B}
    Assignment = {u1, r}
    ThreadOf <- MCThreadOf
    KindOf <- MCKindOf
    AssignmentOf <- MCOwnAssignment
    Serialize = TRUE
    MaxInstances = 2
    Fallible = {}
    Other = {}
    ChannelCapacity = 2
INVARIANT
    NoSharedThread
CHECK_DEADLOCK FALSE
