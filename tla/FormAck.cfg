SPECIFICATION Spec
CONSTANTS
    s1 = s1  s2 = s2  p1 = p1  p2 = p2  c1 = c1  c2 = c2
    Sync = {s1}
    Async = {}
    Caller = {}
    Reaper = Reaper
    NoForm = NoForm
    MaxRestarts = 0
PROPERTIES
    AckIsHeard
CHECK_DEADLOCK FALSE
