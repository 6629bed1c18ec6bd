SPECIFICATION SSpec
CONSTANTS
    Requests = {r1, r2}
    Pictures = {a, b}
    NoPicture = NoPicture
    Twice = r1
    Count <- Counts
    Sweeps = {s1, s2}
    MaxErrors = 1
    Nothing = Nothing
SYMMETRY Symmetry
INVARIANTS
    FailureLeavesNoImage
    StoreTypeOK
    PromisedFilesExist
    OnlyErrorsAreStuck
PROPERTY
    NoRepeatOfLast
CHECK_DEADLOCK FALSE
