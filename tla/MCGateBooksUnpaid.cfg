CONSTANTS
    alice = alice
    bob = bob
    carol = carol
    judge = judge
    squareHook = squareHook
    nextHook = nextHook
    NoAccount = NoAccount
    Kernel = Kernel
    NoHook = NoHook
    NoProof = NoProof
    NoModule = NoModule
    NoCommitment = NoCommitment
    gate = gate
    mandate = mandate
    Accounts = {alice, bob, carol, judge}
    Clients = {alice}
    Providers = {bob}
    Evaluators = {judge}
    Treasuries = {judge}
    Payees = {bob, carol}
    Hooks = {squareHook}
    ResolvingHooks = {squareHook}
    InitialHooks = {squareHook}
    ToggledHooks = {}
    Proofs <- Copies
    MaxJobs = 1
    Budgets = {4}
    InitialFees <- SomeFees
    FeeChoices = {}
    Splits = {0}
    Horizons = {0}
    Deadlines = {4}
    Withdrawals = {}
    Donations = {}
    BPS = 4
    MaxTotalFeeBP = 2
    FeeNotice = 2
    MinSettlementWindow = 1
    MaxTime = 3
    MaxBalance = 0
    Modules = {gate}
    Commitments = {mandate}
    DailyLimits = {3}
    Tolerances = {1}
    Wired <- OneGate
    Rotated = {}
    Screenings = {TRUE, FALSE}
    Resales = {}
    DayLength = 2
SPECIFICATION GateSpec
INVARIANTS BookedIsPaid
CHECK_DEADLOCK FALSE
