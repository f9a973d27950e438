SPECIFICATION AllSpec
INVARIANTS
    AppliedOnce
    SuccessIsComplete
    NeverTwoOpen
    WithinOneLifetime
    WindowHolds
    SentMeansTaken
    LoopsOwnStore
PROPERTIES
    KeptOnlyWhenHeld
    StoresInTurn
    ListenersTold
CONSTANTS
    r1 = r1
    r2 = r2
    r3 = r3
    Runners <- ThreeRunners
    Releases <- TwoReleases
    MaxRuns = 5
    MaxFaults = 2
    LockPids = {p1, p2, p3}
    Namespaces = {s1, s2}
    NodeIds = {n1, n2}
    None = None
    MaxStarts = 4
    MaxFileErrors = 2
    l1 = l1
    l2 = l2
    Loaders <- TwoLoaders
    Layouts <- OneOrTwoTabs
    MaxLapses = 1
    Users = {ada}
    CookieAge = 2
    OwnTtl = 1
    SessionAge = 3
    Lifetime = 2
    MaxTime = 3
    MaxTokens = 2
    Requests = {q1, q2, q3}
    Clients = {k1, k2}
    Limit = 1
    GlobalLimit = 2
    MaxWindow = 3
    Verbs = {v1, v2}
    Transports = {"none", "smtp", "provider", "carrier"}
    Traced = {t1, t2}
    Listeners = {l1, l2}
    Cap = 1
    MaxSpans = 1
    MaxOperations = 2
    Tenants = {a1, a2}
    DevTenant = a2
    Production = TRUE
    Editors = {o1, o2}
    MaxBoots = 3
    MaxWrites = 2
    MaxMishaps = 2
CHECK_DEADLOCK FALSE
