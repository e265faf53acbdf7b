CONSTANTS
    Keys = {"own", "other"}
    OwnKey = "own"
    MaxProfiles = 2
    MaxTasks = 3
    MaxOverlaps = 1
    MaxFailures = 1
    Buses = {"CCSP", "RBUS"}
SPECIFICATION Spec
CHECK_DEADLOCK FALSE
INVARIANTS OneOfAKind RowsWhole DefaultFollowed ReadyIsOwn
