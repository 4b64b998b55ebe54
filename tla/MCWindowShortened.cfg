CONSTANTS
    alice = alice
    bob = bob
    carol = carol
    dave = dave
    squareHook = squareHook
    otherHook = otherHook
    good = good
    bad = bad
    NoAccount = NoAccount
    Kernel = Kernel
    KE = KE
    NoHook = NoHook
    NoProof = NoProof
    Accounts = {alice, bob, carol, dave, KE}
    Clients = {alice}
    Providers = {bob}
    Evaluators = {KE}
    Treasuries = {dave}
    Payees = {bob, carol}
    Hooks = {}
    ResolvingHooks = {}
    InitialHooks = {}
    ToggledHooks = {}
    Proofs = {}
    MaxJobs = 1
    Budgets = {6}
    InitialFees <- SomeFees
    FeeChoices = {}
    Splits = {0, 1}
    Horizons = {0, 3, 4, 5}
    Deadlines = {5}
    Withdrawals = {}
    Donations = {}
    BPS = 4
    MaxTotalFeeBP = 2
    FeeNotice = 2
    MinSettlementWindow = 1
    MaxTime = 6
    MaxBalance = 0
    WindowChoices <- TwoWindows
    MaxWindows = 2
    ArbiterSets = {}
    BondParameters <- HalfBond
    MaxVersions = 0
    Buyers = {}
    BuyerLists = {}
    Prices = {}
    MarketHooks = {}
    DecidableProofs = {}
    CheckChoices <- NoChecks
SPECIFICATION SettlementSpec
PROPERTIES WindowIsNotShortened
CHECK_DEADLOCK FALSE
