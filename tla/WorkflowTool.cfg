SPECIFICATION FairSpec
CONSTANTS
    t1 = t1  t2 = t2  Dir = Dir  none = none
    Task = {t1, t2}
    PhaseCount = 3
    TypeOf <- MCTypeOf
    AutoAdvance = {1, 2, 3}
    Needs <- MCNeeds
    Produces = {1, 2}
    Flaky = {1, 2}
    Skippable = {2}
    Metered = {1}
    DirectoryOf <- MCOneDirectory
    NoDirectory = none
    Slots = {1}
    Interventions = {"tool"}
    MaxInterventions = 1
    Disturbed = {t1}
PROPERTY StartedExecutes
CHECK_DEADLOCK FALSE
