SPECIFICATION FairSpec
CONSTANTS
    b1 = b1  r1 = r1  r2 = r2
    Bench <- OneBench
    Reservation <- One
    Durations = {2}
    Endings = {"RELEASED", "REVOKED"}
    LeaseTTL = 1
    Grace = 1
    Protect = 0
    Skew = 0
    AgentOffset = 0
    Fragile <- OneBench
    SlowAgent = TRUE
    MaxTime = 4
    MaxVersion = 2
    MaxConnections = 2
    MaxQueue = 2
PROPERTIES OwnershipEnds ScheduleResolved
CHECK_DEADLOCK FALSE
