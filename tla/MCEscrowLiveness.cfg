SPECIFICATION FairSpec
CONSTANTS
    alice = alice
    bob = bob
    plat = plat
    plat2 = plat2
    fees = fees
    usdc = usdc
    spare = spare
    SOL = SOL
    Nobody = Nobody
    Users <- MCUsers
    Platforms <- NativePlatforms
    Treasuries <- MCTreasuries
    Admins <- MCAdmins
    Mints = {}
    SpareVaults = {}
    SpareMint <- NoSpareMint
    Rates <- MCRates
    MaxAllowedMints = 1
    InitConfigArgs <- NativeInitConfigArgs
    UpdateConfigArgs <- NativeUpdateConfigArgs
    EscrowIds = {1}
    Amounts = {10}
    Shares = {0, 4, 11}
    MinDisputeWindow = 2
    MaxDisputeWindow = 3
    RentMin = 2
    MaxU64 = 20
    DustAmounts = {}
    MaxDust = 0
    MaxTime = 4
PROPERTY
    DisputesEnd
