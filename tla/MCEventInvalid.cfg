SPECIFICATION FairSpec
CONSTANTS
    t1 = t1
    t2 = t2
    t3 = t3
    nobody = nobody
    Threads <- TwoThreads
    Nobody = nobody
    Second = 4
    Timeouts <- UpToASecond
    Start = 0
    Step = 1
    LastTime = 5
PROPERTY
    TimedWaitReturns
CHECK_DEADLOCK FALSE
