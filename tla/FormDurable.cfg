SPECIFICATION Spec
CONSTANTS
    s1 = s1  s2 = s2  p1 = p1  p2 = p2  c1 = c1  c2 = c2
    Sync = {}
    Async = {p1}
    Caller = {c1}
    Reaper = Reaper
    NoForm = NoForm
    MaxRestarts = 1
PROPERTIES
    AsyncSurvives
CHECK_DEADLOCK FALSE
