SPECIFICATION Spec
CHECK_DEADLOCK FALSE
CONSTANTS
    SnapCount = 1
    CatchUp = 1
    SelfRemoval = FALSE
    MaxTerm = 2
    MaxIndex = 6
INVARIANTS
    NoFatal
    DurableBeforeApplied
    CursorsAgree
    NoHole
PROPERTIES
    OneLog
    EverythingDelivered
