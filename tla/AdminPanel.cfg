SPECIFICATION PanelSpec
CONSTANTS
    Keys = {k1, k2}
    Asked = {r1, r2}
    Nobody = Nobody
    MaxUses = 3
    Accounts = {h1}
    Unknown = Unknown
    Hour = 2
    Day = 2
    Zone = 1
    Points = 2
    Days = 2
    Retention = 5
    Near = 1
    Counts = {2}
    Waits = {2}
    MaxRows = 3
    FullBy = 6
    MaxClock = 11
    Pages = {p1, p2, p3}
    Plans = {a1, a2}
    Failed = Failed
    TTL = 2
    MaxMoment = 2
SYMMETRY Symmetry
INVARIANTS
    PanelTypeOK
    JobsSeenByTheirKey
    RowsAreCounted
    ChartsShowWhatWasServed
    CardsRightWithinRetention
    WallsToldApart
    MaxOkIsBusiestDay
    AnswersAreRecent
CHECK_DEADLOCK FALSE
