SPECIFICATION Spec
CONSTANTS
    Users = {u1, u2}
    Handlers = {h1, h2}
    Rooms = {r1, r2}
    Picky = {}
    Accepts <- Tastes
    AskedTypes = {"video"}
    Batch = 2
    Started = {"join"}
    MaxStarts = 4
    MaxFaults = 0
INVARIANT OneRoomPerUser
SYMMETRY Symmetry
CHECK_DEADLOCK FALSE
