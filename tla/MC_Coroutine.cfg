CONSTANT Results = {r1}
CONSTANT MaxCallees = 2
CONSTANT MaxHops = 1
SPECIFICATION CoFairSpec
INVARIANTS Inv CoInv FramesAreDeletedOnce
PROPERTIES CallsReturn ImplementsAsyncResult EveryFrameEnds
CHECK_DEADLOCK FALSE
