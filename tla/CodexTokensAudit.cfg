SPECIFICATION TSpec
CONSTANTS
    Homes = {h1, h2}
    Runs = {r1, r2}
    Hosts = {p1}
    Inspections = {}
    User <- OwnUser
    Threads = 1
    LockCanFail = FALSE
    MaxEnds = 0
    MaxRotations = 1
    Nobody = Nobody
    Nowhere = Nowhere
INVARIANT
    LostRotationIsFlagged
CHECK_DEADLOCK FALSE
