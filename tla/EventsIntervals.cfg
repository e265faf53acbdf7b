SPECIFICATION Spec
CONSTANTS
    Period = 10
    Clients = {c1, c2}
    Intervals = {0, 10, 15, 20, 30}
    Observed = {"RSSI"}
    Statuses = {"DOWN", "REGISTERED"}
    Readings = {"weak"}
INVARIANTS
    TypeOK
    IntervalServesAll
    NothingOverdue
PROPERTIES
    IntervalNotStarved
    ChangesArePublished
