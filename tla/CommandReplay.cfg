SPECIFICATION Spec
CONSTANTS
    c1 = c1  c2 = c2
    Command <- One
    Lifetime = 1
    Timeout = 1
    Skew = 0
    QueueOffline = FALSE
    BatchSize = 2
    MaxQueue = 2
    MaxFaults = 2
    MayRestart = FALSE
PROPERTIES ReplayHarmless
CHECK_DEADLOCK FALSE
