CONSTANTS
    alice = alice
    bob = bob
    carol = carol
    dave = dave
    squareHook = squareHook
    otherHook = otherHook
    good = good
    bad = bad
    NoAccount = NoAccount
    Kernel = Kernel
    KE = KE
    NoHook = NoHook
    NoProof = NoProof
    Accounts = {alice, bob, carol, dave, KE}
    Clients = {alice}
    Providers = {bob}
    Evaluators = {KE}
    Treasuries = {dave}
    Payees = {bob, carol}
    Hooks = {}
    ResolvingHooks = {}
    InitialHooks = {}
    ToggledHooks = {}
    Proofs = {}
    MaxJobs = 1
    Budgets = {6}
    InitialFees <- SomeFees
    FeeChoices = {}
    Splits = {0, 1}
    Horizons = {0, 3, 4, 5}
    Deadlines = {4}
    Withdrawals = {}
    Donations = {}
    BPS = 4
    MaxTotalFeeBP = 2
    FeeNotice = 2
    MinSettlementWindow = 1
    MaxTime = 6
    MaxBalance = 0
    WindowChoices <- LongerDispute
    MaxWindows = 2
    ArbiterSets <- OneSet
    BondParameters <- HalfBond
    MaxVersions = 1
    Buyers = {}
    BuyerLists = {}
    Prices = {}
    MarketHooks = {}
    DecidableProofs = {}
    CheckChoices <- NoChecks
SPECIFICATION SettlementSpec
INVARIANTS DisputeFitsExpiry
CHECK_DEADLOCK FALSE
