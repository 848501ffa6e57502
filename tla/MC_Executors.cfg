CONSTANTS
    inline_executor = inline_executor
    thread_pool = thread_pool
    background = background
    manual = manual
    c1 = c1
    c2 = c2
    Builtin <- BuiltinInOrder
    Made = {manual}
    Inline = {inline_executor}
    Pooled = {thread_pool, background}
    Manual = {manual}
    Coros = {c1, c2}
    MaxPosts = 3
    MaxTasks = 4
    MaxSpan = 2
    ThreadsMayFail = TRUE
    Size = 3
    Clients = {client}
    MaxCalls = 2
SPECIFICATION ExecutorsSpec
INVARIANTS RuntimeInv Inv IdleInv FindsWhatStaysIdle
PROPERTIES RuntimeEnds ImplementsExecutor ThreadsAndShutdownEnd
CHECK_DEADLOCK FALSE
