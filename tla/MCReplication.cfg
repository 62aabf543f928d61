SPECIFICATION Spec
CONSTANTS
    s1 = s1
    s2 = s2
    s3 = s3
    NONE = NONE
    Server = {s1, s2, s3}
    Candidates <- TwoLeaders
    Applying = {2}
    Crashing = {s3}
    MaxTerm = 3
    MaxLog = 2
    MaxCrashes = 1
CHECK_DEADLOCK FALSE
INVARIANTS
    LeaderCompleteness
    LogMatching
    CommittedIsDurable
PROPERTIES
    ImplementsReplicatedLog
