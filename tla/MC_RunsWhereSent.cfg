CONSTANTS
    inline_executor = inline_executor
    thread_pool = thread_pool
    background = background
    manual = manual
    c1 = c1
    c2 = c2
    Builtin <- BuiltinInOrder
    Made = {manual}
    Inline = {inline_executor}
    Pooled = {thread_pool, background}
    Manual = {manual}
    Coros = {c1}
    MaxPosts = 2
SPECIFICATION RuntimeSpec
INVARIANTS RunsWhereSent
CHECK_DEADLOCK FALSE
