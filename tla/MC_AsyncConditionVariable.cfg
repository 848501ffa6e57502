SPECIFICATION CvFairSpec
CONSTANTS
    Coros = {c1, c2, p1, p2, u1}
    Consumers = {c1, c2}
    Producers = {p1, p2}
    Users = {u1}
    MaxUses = 1
    Inline = {c1, p1}
    NoCoro = NoCoro
    MaxLocks = 3
INVARIANTS
    Inv
    CvInv
PROPERTIES
    ImplementsAsyncLock
    EveryAwaiterEnds
    EveryConsumerEnds
CHECK_DEADLOCK FALSE
