SPECIFICATION Spec
CONSTANTS
    Handlers = {h1, h2}
    Invoices = {i1, i2}
    PackSizes = {0, 2}
    Price = 1
    MaxStarts = 4
    Reward = 1
    MaxMoves = 1
    MaxEvents = 3
    MaxFaults = 1
INVARIANTS
    TypeOK
    LedgerBalances
    HoldMatchesDebt
    CompletedIsCredited
    ReversalIsWhole
PROPERTY AccountSpec
SYMMETRY Symmetry
CHECK_DEADLOCK FALSE
