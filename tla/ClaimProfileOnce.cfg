CONSTANTS
    Keys = {"own", "other"}
    OwnKey = "own"
    MaxProfiles = 3
    MaxTasks = 3
    MaxOverlaps = 0
    MaxFailures = 0
    Buses = {"CCSP"}
SPECIFICATION Spec
CHECK_DEADLOCK FALSE
INVARIANT ProfileOnce
