CONSTANTS
    NumSlots = 1
    MaxTasks = 2
    MaxOverlaps = 1
    MaxInbox = 2
    MaxUnplugs = 1
    MaxEvents = 1
    Registrations = {"none", "searching", "camped", "attached"}
    Writers = {"data model"}
SPECIFICATION Spec
CHECK_DEADLOCK FALSE
INVARIANTS OneClient ReadySlotSelected SelectedHoldsCard RegistrationRemembered RegistrationCurrent RegisteredIsWatched EnableAgrees OpenIsOwed
