SPECIFICATION FairSpec
CONSTANTS
    Node = {1, 2, 3, 4}
    InitConf <- MCInitConf
    Targets <- MCTargets
    MaxTerm = 3
    MaxLog = 4
    MaxVersion = 2
CHECK_DEADLOCK FALSE
INVARIANTS
    OneLeaderPerTerm
    NothingLost
    JointIsLeft
    ChecksHold
PROPERTIES
    ChangeEnds
