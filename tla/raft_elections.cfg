CONSTANTS
    s1 = s1
    s2 = s2
    s3 = s3
    Server = {s1, s2, s3}
    Nil = Nil
    Value = {}
    PreVote = FALSE
    CheckQuorum = FALSE
    MaxInflight = 1
    MaxMsgEntries = 2
    MaxUncommitted = 1
    ApiCalls = {"report_unreachable"}
    WalDurable = TRUE
    Elections <- RepeatElections
    Beaters = {}
    Proposers = {}
    Crashable = {s1, s2, s3}
    Links <- TurnLinks
    Superseded <- KeepLatest
    MaxLogLen = 4
SPECIFICATION Spec
CHECK_DEADLOCK FALSE
INVARIANTS
    ElectionSafety
    LeadAgreed
    LogMatching
PROPERTIES
    VoteIsFinal
