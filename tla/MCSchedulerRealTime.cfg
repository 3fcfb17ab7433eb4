SPECIFICATION Spec
CONSTANTS
    o1 = o1
    o2 = o2
    o3 = o3
    null = null
    Objects <- ThreeObjects
    Null = null
    Intervals <- Always
    Batch = 1
    RealTimeLeave = TRUE
    MaxTime = 1
    MaxQueue = 3
PROPERTY
    OncePerFrame
CHECK_DEADLOCK FALSE
