SPECIFICATION Spec
CONSTANTS
    ReconnectWait = 2
    PdpTypes = {"IPv4"}
    BusFails = FALSE
    HalSilent = TRUE
    Disturbances = {"unplug", "modem", "session"}
INVARIANT
    NoWanWhileOffline
PROPERTIES
    PolicyImplemented
    RemovalReachesDown
    DisableLowersLink
    LossLowersLink
