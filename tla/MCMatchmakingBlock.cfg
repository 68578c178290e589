SPECIFICATION Spec
CONSTANTS
    Users = {u1, u2}
    Handlers = {h1, h2}
    Rooms = {r1, r2}
    Picky = {}
    Accepts <- Tastes
    AskedTypes = {"video"}
    Batch = 2
    Started = {"join", "enforce"}
    MaxStarts = 3
    MaxFaults = 0
INVARIANT BlockEndsRoom
SYMMETRY Symmetry
CHECK_DEADLOCK FALSE
