SPECIFICATION ForFairSpec
CONSTANTS
    w1 = w1
    w2 = w2
    main = main
    none = none
    MaxTasks = 5
    Workers <- OneWorker
    Main = main
    NoTask = none
    MaxJobs = 3
    MaxSize = 7
PROPERTY
    EveryIndexIsVisited
INVARIANTS
    ForTypeOK
    VisitedOnce
    FinishedMeansVisited
CHECK_DEADLOCK FALSE
