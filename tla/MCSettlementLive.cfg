CONSTANTS
    alice = alice
    bob = bob
    carol = carol
    dave = dave
    squareHook = squareHook
    otherHook = otherHook
    good = good
    bad = bad
    NoAccount = NoAccount
    Kernel = Kernel
    KE = KE
    NoHook = NoHook
    NoProof = NoProof
    Accounts = {alice, bob, carol, dave, KE}
    Clients = {alice}
    Providers = {bob}
    Evaluators = {KE}
    Treasuries = {dave}
    Payees = {bob, carol}
    Hooks = {squareHook, otherHook}
    ResolvingHooks = {squareHook, otherHook}
    InitialHooks = {squareHook, otherHook}
    ToggledHooks = {}
    Proofs = {good}
    MaxJobs = 1
    Budgets = {6}
    InitialFees <- SomeFees
    FeeChoices = {}
    Splits = {0, 1}
    Horizons = {0, 3, 4, 5}
    Deadlines = {4}
    Withdrawals = {}
    Donations = {}
    BPS = 4
    MaxTotalFeeBP = 2
    FeeNotice = 2
    MinSettlementWindow = 1
    MaxTime = 7
    MaxBalance = 0
    WindowChoices <- TwoWindows
    MaxWindows = 2
    ArbiterSets <- OneSet
    BondParameters <- HalfBond
    MaxVersions = 1
    Buyers = {}
    BuyerLists = {}
    Prices = {}
    MarketHooks = {squareHook}
    DecidableProofs = {good}
    CheckChoices <- Compliance
SPECIFICATION FairSettlementSpec
PROPERTIES  BondSettles WindowIsKept
CHECK_DEADLOCK FALSE
