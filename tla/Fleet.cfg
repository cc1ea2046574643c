SPECIFICATION Spec
CONSTANTS
    p1 = p1
    p2 = p2
    t1 = t1
    e1 = e1
    ch1 = ch1
    x = x
    y = y
    bench1 = bench1
    bench2 = bench2
    h1 = h1
    h2 = h2
    Event = {p1, p2, t1}
    Priority <- MCPriority
    Key <- MCKey
    Status = {st}
    Capacity = 1
    BatchLimit = 2
    OutboxSize = 1
    HubSize = 3
    MaxConn = 2
    MaxWork = 3
    MaxChannelFaults = 1
    MaxPushes = 1
    NumAgents = 1
    Token = {tk1}
    Bench = {b1}
    MaxLinks = 2
    MaxVersion = 2
    MaxRegistryFaults = 1
    Entry = {e1}
    Flow = {k1}
    MaxLeaseVersion = 2
    MaxAttempts = 2
    MaxOutages = 1
    MaxStops = 1
    MaxCiCrashes = 0
    MaxAgentRestarts = 1
    MaxAborts = 2
    MaxServes = 4
    Device = {ch1}
    Reporter = {"serial", "power"}
    Reports <- MCReports
    Required = {ch1}
    Channel = {x, y}
    Composed = {bench1, bench2}
    Claimant = {h1, h2}
    Designs <- MCDesigns
    HoldsBench <- MCHoldsBench
    LockHorizon = 1
    MaxTokens = 2
INVARIANTS FleetTypeOK OverflowReported NoSilentLoss StatusHandledOnce PresenceHonest CallersLeaseKept PassedMeansClean UpgradesAreSafe LocksHold
PROPERTIES RevokedStaysOut LocksAreFenced FleetLive
CHECK_DEADLOCK FALSE
