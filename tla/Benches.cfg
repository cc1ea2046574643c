SPECIFICATION Spec
CONSTANTS
    c1 = c1
    c2 = c2
    d1 = d1
    u1 = u1
    o = o
    s1 = s1
    b1 = b1
    a1 = a1
    t = t
    Request = {q1}
    Operation = {o1}
    Duration = {1}
    MaxDuration = 2
    Window = 1
    Grace = 1
    ProbeHorizon = 1
    MaxStart = 2
    MaxProbes = 1
    MaxAgentCrashes = 1
    Command = {c1, c2}
    WorkBench = {b1}
    Digest = {d1, d2}
    CacheSize = 1
    NumSteps = 2
    MaxLease = 2
    MaxBoots = 1
    Artifact = {x1}
    MaxTransfers = 2
    MaxPuts = 3
    OutboxLimit = 2
    MaxTransferFaults = 1
    Upload = {f1, f2}
    Worker = {w1, w2}
    MaxClaims = 3
    MaxRetentionFaults = 1
    MaxReports = 2
    MaxOpRequests = 2
    MaxOpCrashes = 1
    User = {u1, o}
    Service = {s1}
    Owner = o
    Team = {t}
    Host = {a1}
    Board = {b1}
    HostOf <- MCHostOf
    Plan = {w1}
    RoleName = {"OPERATOR", "WORKFLOW_RUNNER"}
    Narrowed <- MCNarrowed
    Subscriber = {x1}
    StreamLimit = 1
    Policies <- MCPolicies
    MaxOpen = 1
    MaxChanges = 1
INVARIANTS BenchesTypeOK RunRecordTrue HardwareUse ArtifactsSound OperationsSound AccessSound
PROPERTIES BenchesLive
CHECK_DEADLOCK FALSE
