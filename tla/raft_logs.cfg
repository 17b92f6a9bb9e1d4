CONSTANTS
    s1 = s1
    s2 = s2
    s3 = s3
    Server = {s1, s2, s3}
    Nil = Nil
    Value = {v}
    PreVote = FALSE
    CheckQuorum = FALSE
    MaxInflight = 2
    MaxMsgEntries = 1
    MaxUncommitted = 1
    ApiCalls = {}
    WalDurable = TRUE
    Elections <- AlternateElections
    Beaters = {s2}
    Proposers = {s1}
    Crashable = {s3}
    Links <- TurnLinks
    Superseded <- KeepLatest
    MaxLogLen = 5
SPECIFICATION Spec
CHECK_DEADLOCK FALSE
INVARIANTS
    TypeOK
    NoFatal
    StateMachineSafety
    ElectableHoldsCommitted
    MatchIsHeld
    QuotaNotOverestimated
PROPERTIES
    LeaderAppendOnly
