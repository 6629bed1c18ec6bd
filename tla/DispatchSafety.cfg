SPECIFICATION Spec
CONSTANTS
    Order <- MCOrder
    Jobs = {j1, j2}
    Peeks = {p1}
    Images = 2
    Threshold = TRUE
    ReadsFail = FALSE
    MaxTime = 1
    MaxRestarts = 1
SYMMETRY Symmetry
INVARIANTS
    TypeOK
    SomewhereToRun
    KnownWallsAvoided
    Balanced
    TriesAnother
PROPERTIES
    WallsRemembered
CHECK_DEADLOCK FALSE
