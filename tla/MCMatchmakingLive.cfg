SPECIFICATION FairSpec
CONSTANTS
    Users = {u1, u2}
    Handlers = {h1, h2}
    Rooms = {r1}
    Picky = {u1}
    Accepts <- Tastes
    AskedTypes = {"video"}
    Batch = 2
    Started = {"join", "hangup"}
    MaxStarts = 3
    MaxFaults = 1
INVARIANT NoMissedPair
PROPERTY MatchEventuallyClosed
CHECK_DEADLOCK FALSE
