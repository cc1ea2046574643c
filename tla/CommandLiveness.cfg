SPECIFICATION FairSpec
CONSTANTS
    c1 = c1  c2 = c2
    Command <- One
    Lifetime = 1
    Timeout = 1
    Skew = 0
    QueueOffline = TRUE
    BatchSize = 1
    MaxQueue = 2
    MaxFaults = 1
    MayRestart = FALSE
PROPERTIES CommandsResolve
CHECK_DEADLOCK FALSE
