SPECIFICATION FairSpec
CONSTANTS
    MaxIndex = 3
    Sums <- MCSums
    Filter = TRUE
    Tasks = 2
    Rpcs = {1, 2}
    MaxTerm = 2
    MaxRetry = 1
    Faults = {"crash", "save", "load", "create", "rename", "piece", "sync"}
    MaxFaults = 2
CHECK_DEADLOCK FALSE
INVARIANTS
    Recoverable
    SnapshotIntact
    ChecksHold
PROPERTIES
    JobsEnd
