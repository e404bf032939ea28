SPECIFICATION MatrixSpec
CONSTANTS
    Tx = {t1, t2}
    Original = orig
    None = none
    MaxApplyAttempts = 3
    MaxDisruptions = 2
    BootInRoot = TRUE
    FirstEntryDefault = TRUE
INVARIANTS UnconfirmedBootReverts
PROPERTIES EverythingResolves
