SPECIFICATION FairSpec
CONSTANTS
    owner = owner
    thief1 = thief1
    thief2 = thief2
    none = none
    Size = 3
    Producers <- TwoPushers
    Consumers <- TwoThieves
    NoItem = none
    MaxPush = 5
    Tight = FALSE
INVARIANTS
    NothingLost
    TakenOnceInOrder
    StoresIntoFreeSlot
PROPERTIES
    ImplementsBag
    ImplementsFairBag
CHECK_DEADLOCK FALSE
