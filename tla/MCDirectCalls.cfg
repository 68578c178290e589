SPECIFICATION Spec
CONSTANTS
    Users = {u1, u2}
    Handlers = {h1, h2}
    Calls = {c1, c2}
    MaxStarts = 5
    MaxFaults = 1
INVARIANTS
    TypeOK
    AnsweredOnce
    NewestCallIndexed
    BlockedPairNotIndexed
PROPERTY FriendCallSpec
SYMMETRY Symmetry
CHECK_DEADLOCK FALSE
