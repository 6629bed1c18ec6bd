SPECIFICATION FairSpec
CONSTANTS
    Homes = {h1, h2}
    Runs = {r1, r2, r3}
    Hosts = {p1}
    Threads = 1
    LockCanFail = FALSE
    MaxEnds = 0
    Nobody = Nobody
    Nowhere = Nowhere
PROPERTIES
    KeepsMutex
    RunsGetThrough
CHECK_DEADLOCK FALSE
