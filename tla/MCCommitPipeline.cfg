SPECIFICATION FairSpec
CONSTANTS
    p1 = p1
    p2 = p2
    Peers = {p1, p2}
    Failures = {"log", "fsm", "load"}
    MaxTerm = 3
    MaxLog = 2
    MaxTasks = 1
    MaxCalls = 2
CHECK_DEADLOCK FALSE
INVARIANTS
    ChecksHold
    AppliedInOrder
    CommittedIsChosen
    AckedOnceApplied
    RoleIsFresh
PROPERTIES
    CommittedTaskRuns
