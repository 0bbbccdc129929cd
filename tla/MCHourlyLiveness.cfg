SPECIFICATION FairSpec
CONSTANTS
    alice = alice
    bob = bob
    plat = plat
    fees = fees
    usdc = usdc
    spare = spare
    SOL = SOL
    Nobody = Nobody
    Users <- MCUsers
    Platforms <- MCPlatforms
    Treasuries <- MCTreasuries
    Admins <- MCPlatforms
    Mints <- MCMints
    SpareVaults = {}
    SpareMint <- NoSpareMint
    Rates <- MCRates
    MaxAllowedMints = 1
    InitConfigArgs <- TokenInitConfigArgs
    UpdateConfigArgs <- PausingUpdateConfigArgs
    Periods = {1}
    Caps = {5}
    InvoiceAmounts = {1}
    InvoiceShares = {0, 3}
    MaxFundAmounts = {12}
    ReviewWindows = {1}
    PeriodStarts = {1}
    PeriodDurations = {2}
    MaxReviewWindow = 2
    MinPeriodDuration = 2
    MaxPeriodDuration = 2
    MinDisputeWindow = 1
    MaxDisputeWindow = 2
    RentMin = 4
    MaxU64 = 30
    MaxInvoiceCount = 2
    DustAmounts = {}
    MaxVault = 12
    MaxTime = 5
PROPERTIES
    InvoicesEnd
    PeriodsWindDown
