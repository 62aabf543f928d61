CONSTANTS
    s1 = s1 s2 = s2 s3 = s3
    Server = {s1, s2, s3}
    Conf = {s1, s2, s3}
    OldConf = {}
    NONE = NONE
    LogIds <- OneLogId
    LeaderLease = FALSE
    StepDownWhenVoteTimedout = TRUE
    SaveMayFail = {"elect_self"}
    Starters <- Alone
    Faulty = {}
    Crashing = {s1}
    MaxTerm = 2
    MaxRestarts = 1
SPECIFICATION Spec
CHECK_DEADLOCK FALSE
INVARIANT ElectionSafety
