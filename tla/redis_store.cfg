CONSTANTS
    Session = {c1}
    Key <- TwoKeys
    v1 = v1
    v2 = v2
    Value = {v1, v2}
    NoValue = NoValue
    SnapCount = 1
    Glob <- Globs
    Command <- OwnCommands
    OtherCommit <- OtherCommits
    MaxRequests = 2
    MaxLog = 2
    MaxRestarts = 1
SPECIFICATION Spec
CHECK_DEADLOCK FALSE
INVARIANTS
    StoreIsApplied
    OkIsCommitted
    AnsweredOnce
    
PROPERTIES
    SnapshotMatchesIndex
    RequestSettled
