SPECIFICATION Spec
CONSTANTS
    Tx = {t1, t2}
    Original = orig
    None = none
    MaxApplyAttempts = 3
    MaxDisruptions = 4
    BootInRoot = TRUE
    FirstEntryDefault = TRUE
INVARIANTS TypeOK FallbackProtected EngineNeverUnsafe RecordsTellTruth
PROPERTIES PhasesFollowTransitions OutcomesAreKept ImplementsAtomicRollback
