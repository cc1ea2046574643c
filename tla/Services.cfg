SPECIFICATION Spec
CONSTANTS
    Person = {p1, p2}
    Login = {l1, l2}
    Account = {c1}
    Credential = {k1}
    LoginState = {o1}
    MaxSecrets = 2
    MaxPasswords = 2
    RateLimit = 1
    PendingLimit = 1
    MaxRequests = 4
    MaxIdentityFaults = 1
    Actor = {p1}
    CommandKey = {k1}
    MaxRenewals = 1
    LeaseHorizon = 1
    MaxAltered = 1
    MaxAsked = 2
    Viewer = {p1, p2}
    Profiles <- MCProfiles
    HideDenied = TRUE
    MaxGuardSteps = 3
    CommandId = {i1}
    RequestKey = {k1}
    Content = {x1}
    Writer = {w1, w2}
    MaxCount = 1
    MaxStamp = 1
    ReportId = {r1, r2}
    ReportContent = {d1}
    Handler = {h1, h2}
    Circuit = {l1, l2}
    MaxClock = 1
    MaxSequence = 0
    MaxApplies = 2
    MaxStoreCrashes = 1
    Item = {i1, i2}
    MaxBackupFaults = 1
    Horizon = 4
    MaxSpans = 2
    MaxContacts = 2
    MaxWaits = 3
    MaxOutcomes = 4
    WindowSize = 3
    MinimumOperations = 2
    MinimumFailures = 2
    MinimumContexts = 2
    RatePercent = 50
    NumPlugins = 2
    Backend = {k1, k2}
    Target = {t1}
    MaxMoves = 1
    MaxListings = 3
    MaxCiCrashes = 1
    Request = {q1, q2}
    Operation = {o1}
    Duration = {1}
    MaxDuration = 2
    Window = 1
    Grace = 1
    ProbeHorizon = 1
    MaxStart = 2
    MaxProbes = 1
    MaxAgentCrashes = 0
INVARIANTS ServicesTypeOK AuthoritySound  AnalyticsExact BookingsSound
PROPERTIES StepsHold
CHECK_DEADLOCK FALSE
