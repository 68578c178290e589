SPECIFICATION Spec
CONSTANTS
    Sockets = {s1, s2}
    Deployments <- WideRoom
    s1 = s1
    s2 = s2
    MaxTurns = 0
INVARIANT HolderStaysOnline
CHECK_DEADLOCK FALSE
