SPECIFICATION Spec
CONSTANTS
    Users = {u1, u2}
    Handlers = {h1, h2}
    Calls = {c1, c2}
    MaxStarts = 3
    MaxFaults = 0
INVARIANT BlockEndsCall
SYMMETRY Symmetry
CHECK_DEADLOCK FALSE
