SPECIFICATION FairSpec
CONSTANTS
    r1 = r1
    r2 = r2
    LeaderLog <- ThreeTerms
    OwnTerms = {1}
    Waiters = {r1}
    AppendMayFail = TRUE
    Delayed = TRUE
    KeepStable = FALSE
    Snapshots = {}
    MaxQueue = 2
    MaxCrashes = 1
CHECK_DEADLOCK FALSE
INVARIANTS
    DiskMatchesALeader
PROPERTIES
    StableClosureRuns
    WaiterCatchesUp
