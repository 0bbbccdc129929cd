SPECIFICATION DirectPaySpec
CONSTANTS
    adam = adam
    eve = eve
    fees = fees
    usdc = usdc
    eurc = eurc
    adamUsdc = adamUsdc
    adamSpare = adamSpare
    eveUsdc = eveUsdc
    feesUsdc = feesUsdc
    SOL = SOL
    Nobody = Nobody
    Users <- MCUsers
    Platforms = {}
    Treasuries <- MCTreasuries
    Admins <- MCUsers
    Mints <- MCMints
    Rates = {1000, 1001}
    MaxAllowedMints = 2
    InitConfigArgs <- MCInitConfigArgs
    UpdateConfigArgs <- MCUpdateConfigArgs
    TokenAccounts <- MCTokenAccounts
    AccountOwner <- MCAccountOwner
    AccountMint <- MCAccountMint
    PayAmounts <- MCPayAmounts
    Batches <- MCBatches
    InitialBalances <- MCInitialBalances
    MaxBatchRecipients = 2
    RentMin = 2
    MaxU64 = 29
INVARIANTS
    AllowlistBounded
    DirectPayTypeOK
    CommissionWithinOneUnit
PROPERTIES
    DelistingComplete
    HandoffInTwoSteps
    PaidAsAnnounced
    PayerReallyPays
