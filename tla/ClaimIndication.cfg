SPECIFICATION Spec
CONSTANTS
    ReconnectWait = 2
    PdpTypes = {"IPv4"}
    BusFails = FALSE
    HalSilent = FALSE
    Disturbances = {"unplug"}
PROPERTY
    IndicationComesInstead
