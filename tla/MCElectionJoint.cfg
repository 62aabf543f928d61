CONSTANTS
    s1 = s1 s2 = s2 s3 = s3
    Server = {s1, s2, s3}
    Conf = {s1, s2}
    OldConf = {s3}
    NONE = NONE
    LogIds <- OneLogId
    LeaderLease = TRUE
    StepDownWhenVoteTimedout = FALSE
    SaveMayFail = {"vote", "step_down"}
    Starters <- Rivals
    Faulty = {s2}
    Crashing = {s1}
    MaxTerm = 2
    MaxRestarts = 1
SPECIFICATION Spec
CHECK_DEADLOCK FALSE
INVARIANTS
    ElectionInv
    VoteOncePerTerm
    ElectionSafety
