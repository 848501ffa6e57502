SPECIFICATION SharedFairSpec
CONSTANTS
    Results = {r1}
    Shared = r1
    Holders = {h1, h2, h3}
    Maker = h1
INVARIANTS
    SharedInv
    ResumedInOrder
PROPERTIES
    SharedCallsReturn
CHECK_DEADLOCK FALSE
