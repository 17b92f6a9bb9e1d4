SPECIFICATION Spec
CHECK_DEADLOCK FALSE
CONSTANTS
    SyncFlushes = TRUE
    StartupCrash = FALSE
    SnapCount = 1
    MaxTerm = 2
    MaxIndex = 4
    MaxCrashes = 2
INVARIANTS
    RestartSucceeds
    OpenedAtSavedSnapshot
PROPERTIES
    RestartKeepsSent
    RestartKeepsApplied
