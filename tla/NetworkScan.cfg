CONSTANTS
    MaxPlugs = 3
    MaxThreads = 3
    MaxOffs = 2
SPECIFICATION Spec
CHECK_DEADLOCK FALSE
INVARIANTS OneScanThread ScannedWhileOpen NetworksOfThisModem
