CONSTANTS
    t1 = t1
    t2 = t2
    t3 = t3
    A = A
    B = B
    NoTask = NoTask
    NoAgent = NoAgent
    Watchdog = Watchdog
    Startup = Startup
    Manager = Manager
    Tasks <- SeqTasks
    Agents <- Both
    Runs = {r1}
    Groups = 1
    GroupOf <- OneGroup
    Mode <- SeqMode
    Rank <- PairRank
    AgentOwned = TRUE
    Parent = A
    Executor <- AThenB
    OwnerAgent <- NobodyOwns
    Profiles <- OnlyA
    MaxAttempts = 2
    SpawnMayFail = TRUE
    MaxTags = 1
    MaxCrashes = 1
    MaxRestarts = 1
    MaxFollowups = 1
SPECIFICATION Spec
INVARIANTS
    FullInv
PROPERTIES
    OutcomesFrozen
CHECK_DEADLOCK FALSE
