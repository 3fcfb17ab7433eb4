SPECIFICATION Spec
CONSTANTS
    o1 = o1
    o2 = o2
    o3 = o3
    null = null
    Objects <- TwoObjects
    Null = null
    Intervals <- OneOrTwo
    Batch = 1
    RealTimeLeave = FALSE
    MaxTime = 3
    MaxQueue = 3
SYMMETRY TwoAlike
INVARIANTS
    TypeOK
    InOnePlace
    FollowsOwners
    CallsTheLiving
    FairTurns
PROPERTY
    OncePerFrame
CHECK_DEADLOCK FALSE
