SPECIFICATION FairSpec
CONSTANTS
    b1 = b1  r1 = r1  r2 = r2
    Bench <- OneBench
    Reservation <- One
    Durations = {3}
    Endings = {"RELEASED", "REVOKED"}
    LeaseTTL = 1
    Grace = 3
    Protect = 0
    Skew = 0
    AgentOffset = 0
    Fragile = {}
    SlowAgent = FALSE
    MaxTime = 5
    MaxVersion = 2
    MaxConnections = 2
    MaxQueue = 2
PROPERTIES InterruptedLeasesExpire
CHECK_DEADLOCK FALSE
