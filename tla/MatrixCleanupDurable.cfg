SPECIFICATION MatrixSpec
CONSTANTS
    Tx = {t1}
    Original = orig
    None = none
    MaxApplyAttempts = 3
    MaxDisruptions = 1
    BootInRoot = FALSE
    FirstEntryDefault = FALSE
PROPERTY CleanupIsDurable
