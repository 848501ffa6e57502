SPECIFICATION TimerFairSpec
CONSTANTS
    Held = {t1}
    Delay = {d1}
    DueTimes = {1}
    Frequencies = {1}
    MaxTime = 2
INVARIANTS
    TimerInv
PROPERTIES
    EveryDelayEnds
    TimersAndShutdownEnd
CHECK_DEADLOCK FALSE
