CONSTANTS
    alice = alice
    bob = bob
    carol = carol
    judge = judge
    squareHook = squareHook
    nextHook = nextHook
    NoAccount = NoAccount
    Kernel = Kernel
    NoHook = NoHook
    NoProof = NoProof
    NoModule = NoModule
    NoCommitment = NoCommitment
    gate = gate
    nextGate = nextGate
    mandate = mandate
    newMandate = newMandate
    Accounts = {alice, bob, carol, judge}
    Clients = {alice}
    Providers = {bob}
    Evaluators = {judge}
    Treasuries = {judge}
    Payees = {bob, carol}
    Hooks = {squareHook, nextHook}
    ResolvingHooks = {squareHook, nextHook}
    InitialHooks = {squareHook, nextHook}
    ToggledHooks = {}
    Proofs <- EveryProof
    MaxJobs = 2
    Budgets = {4}
    InitialFees <- SomeFees
    FeeChoices = {}
    Splits = {0}
    Horizons = {0}
    Deadlines = {4}
    Withdrawals = {}
    Donations = {}
    BPS = 4
    MaxTotalFeeBP = 2
    FeeNotice = 2
    MinSettlementWindow = 1
    MaxTime = 3
    MaxBalance = 0
    Modules = {gate, nextGate}
    Commitments = {mandate, newMandate}
    DailyLimits = {3}
    Tolerances = {1}
    Wired <- OneGate
    Rotated = {nextGate}
    Screenings = {TRUE, FALSE}
    Resales = {carol}
    DayLength = 2
SPECIFICATION GateRunSpec
INVARIANTS GateTypeOK StatementPaysOnce PaidIsBooked PaidAsProved
PROPERTIES CeilingHolds
CHECK_DEADLOCK FALSE
