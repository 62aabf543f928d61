CONSTANTS
    s1 = s1 s2 = s2 s3 = s3
    Server = {s1, s2}
    Conf = {s1, s2}
    OldConf = {}
    NONE = NONE
    LogIds <- NewerLogIds
    LeaderLease = TRUE
    StepDownWhenVoteTimedout = TRUE
    SaveMayFail = {"init", "elect_self"}
    Starters <- Successor
    Faulty = {}
    Crashing = {s2}
    MaxTerm = 3
    MaxRestarts = 1
SPECIFICATION Spec
CHECK_DEADLOCK FALSE
INVARIANTS
    TypeOK
    FollowsElectedLeader
    BecomeLeaderChecked
