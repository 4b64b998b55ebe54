CONSTANTS
    alice = alice
    bob = bob
    judge = judge
    hook = hook
    NoAccount = NoAccount
    Kernel = Kernel
    NoHook = NoHook
    NoProof = NoProof
    Accounts = {alice, bob, judge}
    Clients = {alice}
    Providers = {bob}
    Evaluators = {judge}
    Treasuries = {judge}
    Payees = {bob, alice}
    Hooks = {hook}
    ResolvingHooks = {hook}
    InitialHooks = {}
    ToggledHooks = {hook}
    Proofs = {}
    MaxJobs = 1
    Budgets = {3}
    InitialFees <- MCOneFee
    FeeChoices <- MCFees
    Splits = {0, 1}
    Horizons = {0, 2}
    Deadlines = {3}
    Withdrawals = {1, 3}
    Donations = {1}
    BPS = 2
    MaxTotalFeeBP = 2
    FeeNotice = 2
    MinSettlementWindow = 1
    MaxTime = 4
    MaxBalance = 4
SPECIFICATION FairSpec
INVARIANTS TypeOK Solvent HorizonFits
PROPERTIES FeesAreAnnounced NetIsPromised EscrowSpec EscrowIsNotForever
CHECK_DEADLOCK FALSE
