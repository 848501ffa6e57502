SPECIFICATION FairSpec
CONSTANTS
    Clients = {c1, c2}
    MaxTasks = 3
    MaxCount = 2
    MaxCalls = 1
INVARIANTS
    Inv
PROPERTIES
    ImplementsExecutor
    CallsEnd
CHECK_DEADLOCK FALSE
