SPECIFICATION FairSpec
CONSTANTS
    Sockets = {s1, s2}
    Deployments <- BothRooms
    s1 = s1
    s2 = s2
    MaxTurns = 1
INVARIANTS
    TypeOK
    CountIsSockets
    CapHolds
    BanSevers
PROPERTIES
    ShownWhileConnected
    HiddenOnceGone
CHECK_DEADLOCK FALSE
