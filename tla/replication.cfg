CONSTANTS
    LeaderLog <- OneEntry
    FollowerLogs <- PartedLogs
    Committed = 0
    Term = 3
    MaxInflight = 2
    MaxMsgEntries = 1
    SnapCount = 1
    CatchUp = 1
    ApiCalls = {"report_unreachable", "report_snapshot"}
    MaxBreaks = 1
    MaxLog = 4
SPECIFICATION Spec
INVARIANTS
    FollowerAgrees
    WindowInOrder
PROPERTIES
    AckRepairs
    CatchesUp
