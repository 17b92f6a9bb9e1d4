CONSTANTS
    LeaderLog <- NoEntry
    FollowerLogs <- EmptyLogs
    Committed = 0
    Term = 1
    MaxInflight = 2
    MaxMsgEntries = 1
    SnapCount = 1
    CatchUp = 0
    ApiCalls = {}
    MaxBreaks = 3
    MaxLog = 2
SPECIFICATION Spec
INVARIANTS
    NextAfterMatch
