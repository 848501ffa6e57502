SPECIFICATION FairSpec
CONSTANTS
    Pools <- OnePool
    Size = 2
    Clients = {c1}
    MaxTasks = 3
INVARIANTS
    Inv
    NoLostWakeUp
PROPERTIES
    ImplementsExecutor
    TasksAndShutdownEnd
CHECK_DEADLOCK FALSE
