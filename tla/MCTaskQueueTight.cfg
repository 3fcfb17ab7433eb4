SPECIFICATION Spec
CONSTANTS
    owner = owner
    thief1 = thief1
    thief2 = thief2
    none = none
    Size = 2
    Producers <- OneOwner
    Consumers <- TwoThieves
    NoItem = none
    MaxPush = 4
    Tight = TRUE
INVARIANT
    StoresIntoFreeSlot
CHECK_DEADLOCK FALSE
