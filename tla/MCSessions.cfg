SPECIFICATION Spec
CONSTANTS
    Handlers = {h1, h2, h3}
    Devices = {d1}
    Tokens = {t1, t2, t3, t4}
    Started = {"login", "refresh", "logout", "others", "change", "reset", "ban", "erase"}
    MaxStarts = 4
    MaxEdits = 1
    MaxFaults = 1
INVARIANTS
    TypeOK
    HandedTokensAreLinked
    SuccessorDiesToo
    RevivedOnlyByRace
    BenignNeverBurned
PROPERTY FamilySpec
SYMMETRY Symmetry
CHECK_DEADLOCK FALSE
