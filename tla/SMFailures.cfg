SPECIFICATION Spec
CONSTANTS
    ReconnectWait = 2
    PdpTypes = {"IPv4v6", "PPP"}
    BusFails = TRUE
    HalSilent = FALSE
    Disturbances = {"interface", "upstream", "network", "slot", "card", "session"}
INVARIANTS
    TypeOK
    CurrentStateTracks
    ReconnectWaitDiscipline
    StartIsOwed
