SPECIFICATION FairSpec
CONSTANTS
    Parallel = 2
    MaxEntries = 2
    CacheSize = 1
    Margin = 1
    Readonly = {"enter"}
    InitLast = 1
    MaxLog = 2
    MaxRpcs = 3
    MaxWaits = 2
    MaxFailures = 1
CHECK_DEADLOCK FALSE
INVARIANTS
    FlyingIsContiguous
    GrantedIsStored
    NothingWrong
PROPERTIES
    Replicated
    CatchupEnds
