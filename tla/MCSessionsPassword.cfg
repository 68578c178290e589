SPECIFICATION Spec
CONSTANTS
    Handlers = {h1, h2}
    Devices = {d1}
    Tokens = {t1, t2, t3}
    Started = {"login", "refresh", "change"}
    MaxStarts = 4
    MaxEdits = 0
    MaxFaults = 0
INVARIANT OldCredentialDies
SYMMETRY Symmetry
CHECK_DEADLOCK FALSE
