SPECIFICATION FairSpec
CONSTANTS
    w1 = w1
    w2 = w2
    main = main
    none = none
    MaxTasks = 3
    Workers <- OneWorker
    Main = main
    NoTask = none
    MaxJobs = 3
INVARIANTS
    JobsExact
    FinishedMeansFamilyDone
    NeverExecutedTwice
    NoLateChild
PROPERTIES
    WaitsReturn
    PushedIsFinished
    WaitIsSound
CHECK_DEADLOCK FALSE
