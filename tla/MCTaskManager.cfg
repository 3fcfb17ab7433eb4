SPECIFICATION FairSpec
CONSTANTS
    main = main
    w1 = w1
    w2 = w2
    a = a
    b = b
    aChild = aChild
    nil = nil
    Main = main
    Workers <- TwoWorkers
    Roots <- OneRoot
    Forks <- ForkA
    Child <- ChildOfA
    Nil = nil
    Attempts = 2
    MaxPauses = 1
    CleanStop = TRUE
INVARIANTS
    TypeOK
    ActiveExact
    EraseIsExclusive
    QueuedOnce
PROPERTIES
    ShutdownCompletes
    WaitReturns
CHECK_DEADLOCK FALSE
