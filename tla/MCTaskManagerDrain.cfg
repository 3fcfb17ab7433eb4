SPECIFICATION Spec
CONSTANTS
    main = main
    w1 = w1
    w2 = w2
    a = a
    b = b
    aChild = aChild
    nil = nil
    Main = main
    Workers <- OneWorker
    Roots <- TwoLeaves
    Forks <- NoForks
    Child <- NoChildren
    Nil = nil
    Attempts = 1
    MaxPauses = 1
    CleanStop = TRUE
INVARIANT
    NothingLeftBehind
CHECK_DEADLOCK FALSE
