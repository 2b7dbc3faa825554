CONSTANTS
    t1 = t1
    t2 = t2
    t3 = t3
    Tasks <- TwoTasks
    NoTask = NoTask
    ConcurrentTasks = 2
    ShutdownOnIdle = FALSE
    Packets <- AllPackets
SPECIFICATION Spec
INVARIANT FinishTasksHonoured
