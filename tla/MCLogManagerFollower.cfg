SPECIFICATION Spec
CONSTANTS
    r1 = r1
    r2 = r2
    LeaderLog <- TwoTerms
    OwnTerms = {}
    Waiters = {}
    AppendMayFail = FALSE
    Delayed = FALSE
    KeepStable = TRUE
    Snapshots = {1, 2}
    MaxQueue = 2
    MaxCrashes = 1
CHECK_DEADLOCK FALSE
INVARIANTS
    EntriesReadable
    LastLogIdFresh
    StableMeansDurable
    ChecksHold
