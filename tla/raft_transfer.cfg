CONSTANTS
    s1 = s1
    s2 = s2
    s3 = s3
    Server = {s1, s2, s3}
    Nil = Nil
    Value = {}
    PreVote = TRUE
    CheckQuorum = TRUE
    MaxInflight = 2
    MaxMsgEntries = 2
    MaxUncommitted = 1
    ApiCalls = {"transfer_leadership"}
    WalDurable = TRUE
    Elections <- TransferElections
    Beaters = {}
    Proposers = {}
    Crashable = {}
    Links <- DeafLinks
    Superseded <- KeepLatest
    MaxLogLen = 4
SPECIFICATION Spec
CHECK_DEADLOCK FALSE
INVARIANTS
    DeafStaysQuiet
PROPERTIES
    TransferTargetCaughtUp
