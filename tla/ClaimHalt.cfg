CONSTANTS
    t1 = t1
    t2 = t2
    t3 = t3
    A = A
    B = B
    NoTask = NoTask
    NoAgent = NoAgent
    Watchdog = Watchdog
    Startup = Startup
    Manager = Manager
    Tasks <- TrioTasks
    Agents <- Both
    Runs = {r1, r2}
    Groups = 2
    GroupOf <- TrioGroup
    Mode <- TrioMode
    Rank <- TrioRank
    AgentOwned = TRUE
    Parent = A
    Executor <- TrioExecutor
    OwnerAgent <- TrioExecutor
    Profiles <- Both
    MaxAttempts = 1
    SpawnMayFail = FALSE
    MaxTags = 1
    MaxCrashes = 0
    MaxRestarts = 0
    MaxFollowups = 0
SPECIFICATION Spec
PROPERTIES
    HaltOnFailure
CHECK_DEADLOCK FALSE
