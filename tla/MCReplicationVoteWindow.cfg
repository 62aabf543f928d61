SPECIFICATION SpecWindow
CONSTANTS
    s1 = s1
    s2 = s2
    s3 = s3
    NONE = NONE
    Server = {s1, s2, s3}
    Candidates <- TwoLeaders
    Applying = {}
    Crashing = {}
    MaxTerm = 3
    MaxLog = 2
    MaxCrashes = 0
INVARIANT CommittedUnique
CHECK_DEADLOCK FALSE
