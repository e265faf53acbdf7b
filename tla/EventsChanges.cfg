SPECIFICATION Spec
CONSTANTS
    Period = 10
    Clients = {c1, c2}
    Intervals = {0, 20}
    Observed = {"RadioEnv", "X_RDK_Status"}
    Statuses = {"DOWN", "DEREGISTERED", "REGISTERED"}
    Readings = {"good"}
INVARIANT
    EventsChain
