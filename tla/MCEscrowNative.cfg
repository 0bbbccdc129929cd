SPECIFICATION Spec
CONSTANTS
    alice = alice
    bob = bob
    plat = plat
    plat2 = plat2
    fees = fees
    usdc = usdc
    spare = spare
    SOL = SOL
    Nobody = Nobody
    Users <- MCUsers
    Platforms <- NativePlatforms
    Treasuries <- MCTreasuries
    Admins <- MCAdmins
    Mints = {}
    SpareVaults = {}
    SpareMint <- NoSpareMint
    Rates <- MCRates
    MaxAllowedMints = 1
    InitConfigArgs <- NativeInitConfigArgs
    UpdateConfigArgs <- NativeUpdateConfigArgs
    EscrowIds = {1}
    Amounts = {1, 10}
    Shares = {0, 4, 11}
    MinDisputeWindow = 2
    MaxDisputeWindow = 3
    RentMin = 2
    MaxU64 = 20
    DustAmounts = {2}
    MaxDust = 2
    MaxTime = 5
INVARIANTS
    AlwaysSettleable
    TypeOK
    Solvency
    SettlementExact
    NoUnilateralClawback
    NoUnilateralPayout
    MediationWindow
    PartiesDistinct
PROPERTIES
    VaultDrained
    DisputeFreezes
    PauseStopsInflow
    ImplementsCustody
