CONSTANTS
    NumSlots = 1
    MaxTasks = 1
    MaxOverlaps = 0
    MaxInbox = 1
    MaxUnplugs = 1
    MaxEvents = 1
    Registrations = {"none", "attached"}
    Writers = {"data model"}
SPECIFICATION FairSpec
CHECK_DEADLOCK FALSE
PROPERTIES OpenAnswered RemovalNoticed
