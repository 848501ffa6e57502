SPECIFICATION Spec
CONSTANTS
    Clients = {c1, c2}
    MaxTasks = 2
    MaxCount = 2
    MaxCalls = 1
INVARIANTS
    WaitForTaskForIsRight
CHECK_DEADLOCK FALSE
