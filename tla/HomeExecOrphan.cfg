SPECIFICATION Spec
CONSTANTS
    Homes = {h1, h2}
    Runs = {r1, r2}
    Hosts = {p1}
    Threads = 1
    LockCanFail = FALSE
    MaxEnds = 1
    Nobody = Nobody
    Nowhere = Nowhere
INVARIANT
    OneProcessPerHome
CHECK_DEADLOCK FALSE
