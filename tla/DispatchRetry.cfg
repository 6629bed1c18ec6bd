SPECIFICATION Spec
CONSTANTS
    Order <- MCOrder
    Jobs = {j1, j2}
    Peeks = {p1}
    Images = 1
    Threshold = TRUE
    ReadsFail = TRUE
    MaxTime = 1
    MaxRestarts = 1
INVARIANT
    WallsAreRetried
CHECK_DEADLOCK FALSE
