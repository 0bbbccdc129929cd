SPECIFICATION Spec
CONSTANTS
    alice = alice
    bob = bob
    plat = plat
    fees = fees
    usdc = usdc
    spare = spare
    SOL = SOL
    Nobody = Nobody
    Users <- MCUsers
    Platforms <- MCPlatforms
    Treasuries <- MCTreasuries
    Admins <- MCPlatforms
    Mints = {}
    SpareVaults = {}
    SpareMint <- NoSpareMint
    Rates <- MCRates
    MaxAllowedMints = 1
    InitConfigArgs <- NativeInitConfigArgs
    UpdateConfigArgs <- PausingUpdateConfigArgs
    Periods = {1}
    Caps = {5, 10}
    InvoiceAmounts = {5}
    InvoiceShares = {0, 3}
    MaxFundAmounts = {12}
    ReviewWindows = {1}
    PeriodStarts = {1, 2}
    PeriodDurations = {1, 2}
    MaxReviewWindow = 2
    MinPeriodDuration = 2
    MaxPeriodDuration = 2
    MinDisputeWindow = 1
    MaxDisputeWindow = 2
    RentMin = 2
    MaxU64 = 30
    MaxInvoiceCount = 2
    DustAmounts = {5}
    MaxVault = 12
    MaxTime = 5
INVARIANTS
    HourlyTypeOK
    PotsSolvent
    LedgerMatchesInvoices
    MoneyAccountedFor
    InvoicesEndJustly
    NoOrphanInvoices
    TreasuryEarnsItsRate
PROPERTIES
    DueStaysDue
    PauseFreezesHourly
    ImplementsEarmarks
SYMMETRY UsersAlike
