SPECIFICATION Spec
CONSTANTS
    alice = alice
    bob = bob
    plat = plat
    fees = fees
    usdc = usdc
    spare = spare
    SOL = SOL
    Nobody = Nobody
    Users <- MCUsers
    Platforms <- MCPlatforms
    Treasuries <- MCTreasuries
    Admins <- MCPlatforms
    Mints <- MCMints
    SpareVaults <- MCSpares
    SpareMint <- SpareOfUsdc
    Rates <- MCRates
    MaxAllowedMints = 1
    InitConfigArgs <- TokenInitConfigArgs
    UpdateConfigArgs <- NamingUpdateConfigArgs
    Periods = {1}
    Caps = {10}
    InvoiceAmounts = {5}
    InvoiceShares = {3}
    MaxFundAmounts = {12}
    ReviewWindows = {1}
    PeriodStarts = {1}
    PeriodDurations = {1, 2}
    MaxReviewWindow = 2
    MinPeriodDuration = 2
    MaxPeriodDuration = 2
    MinDisputeWindow = 1
    MaxDisputeWindow = 1
    RentMin = 6
    MaxU64 = 30
    MaxInvoiceCount = 2
    DustAmounts = {11}
    MaxVault = 11
    MaxTime = 5
INVARIANTS
    PotsSolvent
    InvoicesEndJustly
    DueInTime
    ExitsOpen
PROPERTIES
    ImplementsEarmarks
SYMMETRY UsersAlike
