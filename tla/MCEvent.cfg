SPECIFICATION FairSpec
CONSTANTS
    t1 = t1
    t2 = t2
    t3 = t3
    nobody = nobody
    Threads <- ThreeThreads
    Nobody = nobody
    Second = 4
    Timeouts <- OddLimits
    Start = 1
    Step = 2
    LastTime = 7
INVARIANTS
    NoLostWakeup
PROPERTIES
    NeverEarly
    ImplementsEvent
    DeliversSignal
    TimedWaitReturns
CHECK_DEADLOCK FALSE
