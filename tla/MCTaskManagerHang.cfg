SPECIFICATION FairSpec
CONSTANTS
    main = main
    w1 = w1
    w2 = w2
    a = a
    b = b
    aChild = aChild
    nil = nil
    Main = main
    Workers <- OneWorker
    Roots <- OneRoot
    Forks <- ForkA
    Child <- ChildOfA
    Nil = nil
    Attempts = 1
    MaxPauses = 1
    CleanStop = FALSE
PROPERTY
    PendingAreFinished
CHECK_DEADLOCK FALSE
