SPECIFICATION Spec
CONSTANTS
    c1 = c1  c2 = c2
    Command <- One
    Lifetime = 1
    Timeout = 1
    Skew = 0
    QueueOffline = TRUE
    BatchSize = 2
    MaxQueue = 2
    MaxFaults = 1
    MayRestart = TRUE
INVARIANTS TypeOK AtMostOnce HonestSuccess CancelledIsFinal
PROPERTIES TerminalStable NoEventLost
CHECK_DEADLOCK FALSE
