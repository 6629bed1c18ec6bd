SPECIFICATION TSpec
CONSTANTS
    Homes = {h1, h2}
    Runs = {r1, r2, i1}
    Hosts = {p1}
    Inspections = {i1}
    User <- OwnUser
    Threads = 2
    LockCanFail = TRUE
    MaxEnds = 1
    MaxRotations = 1
    Nobody = Nobody
    Nowhere = Nowhere
SYMMETRY Symmetry
INVARIANTS
    LocksAgree
    FlockFollowsGuard
    CodexHasKeeper
    NoOverlap
    TokenTypeOK
    TokensSurvive
    RetiredHomeIsNamed
    AuditTellsTruth
CHECK_DEADLOCK FALSE
