SPECIFICATION Spec
CONSTANTS
    Handlers = {h1, h2}
    Invoices = {i1}
    PackSizes = {0, 2}
    Price = 1
    MaxStarts = 2
    Reward = 1
    MaxMoves = 0
    MaxEvents = 1
    MaxFaults = 0
INVARIANT RefundReverses
SYMMETRY Symmetry
CHECK_DEADLOCK FALSE
