SPECIFICATION FairSpec
CONSTANTS
    Clients = {c1, c2}
    MaxTasks = 4
    MaxSpan = 2
INVARIANTS
    Inv
    RunsInOrder
PROPERTIES
    ImplementsExecutor
    TasksAndShutdownEnd
CHECK_DEADLOCK FALSE
