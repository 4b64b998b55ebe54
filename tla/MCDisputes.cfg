CONSTANTS
    alice = alice
    bob = bob
    carol = carol
    dave = dave
    squareHook = squareHook
    otherHook = otherHook
    good = good
    bad = bad
    NoAccount = NoAccount
    Kernel = Kernel
    KE = KE
    NoHook = NoHook
    NoProof = NoProof
    Accounts = {alice, bob, carol, dave, KE}
    Clients = {alice}
    Providers = {bob}
    Evaluators = {KE}
    Treasuries = {dave}
    Payees = {bob, carol}
    Hooks = {squareHook}
    ResolvingHooks = {squareHook}
    InitialHooks = {squareHook}
    ToggledHooks = {}
    Proofs = {good}
    MaxJobs = 2
    Budgets = {6}
    InitialFees <- AnyFees
    FeeChoices = {}
    Splits = {0, 1}
    Horizons = {0, 3, 4, 5}
    Deadlines = {4, 5}
    Withdrawals = {3}
    Donations = {}
    BPS = 4
    MaxTotalFeeBP = 2
    FeeNotice = 2
    MinSettlementWindow = 1
    MaxTime = 6
    MaxBalance = 0
    WindowChoices <- OneWindow
    MaxWindows = 1
    ArbiterSets <- TwoSets
    BondParameters <- HalfBond
    MaxVersions = 2
    Buyers = {carol}
    BuyerLists <- CarolOnly
    Prices = {1}
    MarketHooks = {squareHook}
    DecidableProofs = {good}
    CheckChoices <- Screened
SPECIFICATION DisputeRunSpec
INVARIANTS SettlementTypeOK DisputesAreDecided PayeeGetsItsDue BondsBacked Books
PROPERTIES OnlyTheDecisionSettles
ACTION_CONSTRAINT InScenario
CHECK_DEADLOCK FALSE
