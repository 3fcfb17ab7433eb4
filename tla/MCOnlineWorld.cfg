SPECIFICATION FairSpec
CONSTANTS
    actor = actor
    npc = npc
    gun = gun
    bolt = bolt
    nil = nil
    Owners <- OwnersOf
    Items <- ItemsOf
    Unsaved <- BoltOnly
    Actor = actor
    None = nil
    MaxRequests = 2
INVARIANTS
    TypeOK
    Consistent
    FollowsServer
    NeverOffTrack
    OfflineIsOffLevel
PROPERTIES
    KeepsOwnership
    RemovedLeaves
