CONSTANTS
    Callers = {"dml", "monitor"}
    Monitor = "monitor"
    MaxPlugs = 2
    MaxCalls = 3
SPECIFICATION FairSpec
CHECK_DEADLOCK FALSE
INVARIANTS OfThisModem SignalIsOwed
PROPERTIES AloneIsFresh CallsReturn
