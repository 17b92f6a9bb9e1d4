CONSTANTS
    s1 = s1
    s2 = s2
    s3 = s3
    Server = {s1, s2, s3}
    Nil = Nil
    Value = {}
    PreVote = TRUE
    CheckQuorum = FALSE
    MaxInflight = 2
    MaxMsgEntries = 2
    MaxUncommitted = 1
    ApiCalls = {}
    WalDurable = TRUE
    Elections <- RivalElections
    Beaters = {}
    Proposers = {}
    Crashable = {}
    Links <- AllLinks
    Superseded <- KeepLatest
    MaxLogLen = 4
SPECIFICATION Spec
CHECK_DEADLOCK FALSE
INVARIANTS
    ElectionSafety
