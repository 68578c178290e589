SPECIFICATION Spec
CONSTANTS
    Users = {u1, u2, u3}
    Handlers = {h1, h2}
    Rooms = {r1, r2}
    Picky = {}
    Accepts <- Tastes
    AskedTypes = {"video"}
    Batch = 3
    Started = {"join", "next", "leave", "disconnect", "hangup", "enforce", "kick"}
    MaxStarts = 3
    MaxFaults = 0
INVARIANTS
    TypeOK
    LiveRoomHasOpenMatch
    PointerNamesOwnRoom
    ClaimsUseEntries
    NoMissedPair
PROPERTY RouletteSpec
SYMMETRY Symmetry
CHECK_DEADLOCK FALSE
