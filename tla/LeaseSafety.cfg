SPECIFICATION Spec
CONSTANTS
    b1 = b1  r1 = r1  r2 = r2
    Bench <- OneBench
    Reservation <- Two
    Durations = {2}
    Endings = {"RELEASED"}
    LeaseTTL = 1
    Grace = 1
    Protect = 0
    Skew = 1
    AgentOffset <- Behind
    Fragile = {}
    SlowAgent = TRUE
    MaxTime = 4
    MaxVersion = 2
    MaxConnections = 2
    MaxQueue = 2
SYMMETRY Symmetry
INVARIANTS TypeOK SingleOwner CalendarDisjoint Fenced
PROPERTIES AgentNeverRegresses NoResurrection
CHECK_DEADLOCK FALSE
