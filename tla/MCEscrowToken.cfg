SPECIFICATION Spec
CONSTANTS
    alice = alice
    bob = bob
    plat = plat
    plat2 = plat2
    fees = fees
    usdc = usdc
    spare = spare
    SOL = SOL
    Nobody = Nobody
    Users <- MCUsers
    Platforms <- TokenPlatforms
    Treasuries <- MCTreasuries
    Admins <- MCAdmins
    Mints <- TokenMints
    SpareVaults <- TokenSpares
    SpareMint <- TokenSpareMint
    Rates <- MCRates
    MaxAllowedMints = 1
    InitConfigArgs <- TokenInitConfigArgs
    UpdateConfigArgs <- TokenUpdateConfigArgs
    EscrowIds = {1}
    Amounts = {10, 24}
    Shares = {0, 4, 11}
    MinDisputeWindow = 1
    MaxDisputeWindow = 1
    RentMin = 2
    MaxU64 = 24
    DustAmounts = {10}
    MaxDust = 10
    MaxTime = 2
INVARIANTS
    Solvency
    SettlementExact
PROPERTY
    ImplementsCustody
