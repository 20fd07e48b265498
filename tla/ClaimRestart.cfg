CONSTANTS
    t1 = t1
    t2 = t2
    t3 = t3
    A = A
    B = B
    NoTask = NoTask
    NoAgent = NoAgent
    Watchdog = Watchdog
    Startup = Startup
    Manager = Manager
    Tasks <- SeqTasks
    Agents <- Both
    Runs = {r1}
    Groups = 1
    GroupOf <- OneGroup
    Mode <- SeqMode
    Rank <- PairRank
    AgentOwned = TRUE
    Parent = A
    Executor <- AllA
    OwnerAgent <- AllA
    Profiles <- Both
    MaxAttempts = 1
    SpawnMayFail = FALSE
    MaxTags = 1
    MaxCrashes = 0
    MaxRestarts = 1
    MaxFollowups = 0
SPECIFICATION FairSpec
PROPERTIES
    RestartRecovers
CHECK_DEADLOCK FALSE
