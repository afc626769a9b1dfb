SPECIFICATION DistributionSpec
CONSTANTS
    alice = alice
    carol = carol
    pot = pot
    Accounts = {alice, carol, pot}
    Founders = {alice}
    Pot = pot
    ED = 2
    LockIds = {"vesting"}
    FreezeIds = {}
    HoldReasons = {}
    ReserveIds = {}
    LockAmounts = {}
    MaxReserves = 0
    MaxSupply = 6
    MaxPending = 0
    Rest = 0
    Endowed = 4
    Amounts = {2, 3}
    BlockReward = 2
    Fee = 1
    MaxTokenAmount = 4
    DefaultMintAmount = 2
    PublicInputs <- MCPublicInputs
    AccountOf <- MCAccountOf
    Roots <- MCRoots
    Proofs <- MCProofs
    Periods = {2}
    MinVestedTransfer = 1
    BaseDeposit = 1
    ByteDeposit = 1
    Depositors = {carol}
    Sizes = {0, 1}
    MaxAirdrops = 2
    MaxLost = 2
    MaxFees = 2
CHECK_DEADLOCK FALSE
INVARIANTS
    PotCovers
    TokensAccounted
PROPERTIES
    NobodyElsePays
