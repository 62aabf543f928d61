SPECIFICATION Spec
CONSTANTS
    MaxIndex = 6
    MaxTerm = 2
    MaxBatch = 3
    EntryBytes = 1
    MaxSegment = 1
    SyncSegments = TRUE
    RecoverCorrupt = TRUE
    Faults = {"crash", "power", "io"}
    MaxFaults = 2
CHECK_DEADLOCK FALSE
INVARIANTS
    RestartSucceeds
    ReadsDisk
PROPERTIES
    Implements
