CONSTANTS
    Family = {"IPv4", "IPv6"}
    MaxClients = 3
    MaxTasks = 2
    MaxOverlaps = 1
SPECIFICATION Spec
CHECK_DEADLOCK FALSE
INVARIANTS StopFlagOwned NothingLeaked HandleOfClient RatMeansClient
