\* Three tasks compete for two slots; every way to be told to stop.
CONSTANTS
    t1 = t1
    t2 = t2
    t3 = t3
    Tasks <- ThreeTasks
    NoTask = NoTask
    ConcurrentTasks = 2
    ShutdownOnIdle = TRUE
    Packets <- AllPackets
SPECIFICATION FairSpec
INVARIANTS
    SlotsAccounted
    RequestFits
    SendNeverBlocks
    CompletionNeverBlocks
    NeverDeaf
    DrainedExit
    TasksAccounted
PROPERTIES
    ExitsWhenTold
    ClaimsSettled
    KeepsClaiming
