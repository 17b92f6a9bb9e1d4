SPECIFICATION Spec
CONSTANTS
    s1 = s1
    s2 = s2
    s3 = s3
    Nil = Nil
    First = s1
    Server = {s1, s2, s3}
    Changes <- ComeAndGo
    Elections <- OneCampaign
    Crashable = {s3}
    MaxRestarts = 1
    Stray = 0
INVARIANTS
    CommittedAgree
    OneConfPending
    VotesOfVoters
CHECK_DEADLOCK FALSE
