SPECIFICATION Spec
CONSTANTS
    alice = alice
    bob = bob
    plat = plat
    plat2 = plat2
    fees = fees
    usdc = usdc
    spare = spare
    SOL = SOL
    Nobody = Nobody
    Users <- MCUsers
    Platforms <- TokenPlatforms
    Treasuries <- MCTreasuries
    Admins <- MCAdmins
    Mints <- TokenMints
    SpareVaults = {}
    SpareMint <- NoSpareMint
    Rates <- MCRates
    MaxAllowedMints = 1
    InitConfigArgs <- TokenInitConfigArgs
    UpdateConfigArgs <- TokenUpdateConfigArgs
    EscrowIds = {1}
    Amounts = {10, 20}
    Shares = {0, 4, 11}
    MinDisputeWindow = 1
    MaxDisputeWindow = 1
    RentMin = 2
    MaxU64 = 20
    DustAmounts = {}
    MaxDust = 0
    MaxTime = 2
INVARIANT
    UnfundedHasNoVault
