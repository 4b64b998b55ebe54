CONSTANTS
    q1 = q1
    q2 = q2
    q3 = q3
    q4 = q4
    p1 = p1
    p2 = p2
    h1 = h1
    h2 = h2
    n1 = n1
    n2 = n2
    k1 = k1
    j1 = j1
    j2 = j2
    u1 = u1
    u2 = u2
    t1 = t1
    t2 = t2
    d1 = d1
    d2 = d2
    d3 = d3
    w1 = w1
    w2 = w2
    s1 = s1
    s2 = s2
    c1 = c1
    c2 = c2
    l1 = l1
    o1 = o1
    o2 = o2
    o3 = o3
    a1 = a1
    e1 = e1
    e2 = e2
    x1 = x1
    r1 = r1
    r2 = r2
    NoOp = NoOp
    NoCall = NoCall
    NoRecord = NoRecord
    NoRow = NoRow
    NoTask = NoTask
    ProofRequests = {q1, q2, q3}
    SlotLimit = 1
    QueueLimit = 1
    Calls = {q1, q2}
    Processes = {p1}
    Hashes = {h1}
    ClaimAttempts = 2
    MaxLifetimes = 1
    Endpoints = 2
    RpcRequests = {q1}
    FailureThreshold = 2
    BaseCooldown = 1
    MaxBackoff = 2
    ChainRetries = 1
    MaxClock = 1
    PaidRequests = {q1}
    Nonces = {n1, n2}
    ValidBefore <- Until
    ReceiptGrace = 1
    PageLimit = 1
    LastTime = 3
    LeftOpen = {n2}
    KeeperJobs = {k1}
    ProofGrace = 1
    GiveUpAfter = 2
    LongestDelay = 1
    ChallengeEnd = 0
    ResolveBy = 1
    ExpiredAt = 1
    MaxMishaps = 1
    KeeperMaxTime = 3
    BatchBlocks = 2
    LastBlock = 3
    Deployments = {1, 2}
    MaxMisfortunes = 1
    TaskCallers = {u1, u2}
    TaskIds = {t1}
    TaskJobs = {j1, j2}
    MaxConcurrent = 1
    MaxPerEndpoint = 1
    MaxAttempts = 1
    Hires = {d1, d2}
    HireBudgets = {1, 2}
    DailyLimit = 3
    MaxPerJob = 2
    MaxMidnights = 1
    ReleaseDuringView = FALSE
    Subjects = {"limiter", "idempotency", "failover", "x402", "keeper", "indexer", "a2a", "hosted", "duty", "pool", "bundler", "alerting", "screening", "bridge"}
    DutyJobs = {w1, w2}
    Forbidden = {}
    Sold = {}
    Disputable = {}
    Unscreened = {}
    Designated = {}
    LateHires = {}
    Filed = {w1, w2}
    CeilingUnits = 1
    Tolerance = 2
    CloseAt = 0
    DutyExpiry = 2
    Midnights = {}
    DutyMaxTime = 2
    MaxDutyMishaps = 2
    ToolServers = {s1}
    ToolCalls = {c1}
    ToolLists = {l1}
    MaxEntries = 1
    UserOps = {o1, o2}
    AlertRules = {a1}
    AlertTicks = {e1, e2}
    HoldFor = 1
    AlertMaxTime = 3
    MaxTurns = 1
    MaxOutages = 2
    ScreenSubjects = {x1}
    ScreenRequests = {r1}
    MaxAge = 1
    AwaitLimit = 1
    SkewMargin = 1
    Drifts = {0}
    ScreenMaxTime = 3
    MaxScreenChanges = 2
    MaxMixes = 3
    CeremonyMaxTime = 3
    MaxCeremonyMishaps = 2
    Transfers = {q1, q2}
    BurnAmounts = {2}
    AttesterFee = 1
    SourceFunds = 3
    MaxLapses = 1
    MaxBridgeMishaps = 1
    NoKeystore = NoKeystore
    Stranger = Stranger
    Logins = {u1, u2}
    Logouts = {o1}
    Registers = {r1}
    MaxStrangers = 1
    LastMigration = 2
    Alters <- AltersOnce
    IfExists = {2}
    Runners = {p1, p2, q1}
    MaxByHand = 1
SPECIFICATION ServicesFairSpec
PROPERTIES CallersAreAnswered NothingIsLeftPending  
CHECK_DEADLOCK FALSE
