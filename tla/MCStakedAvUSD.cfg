CONSTANTS
    olga = olga
    alice = alice
    bob = bob
    Zero = Zero
    Vault = Vault
    DEFAULT_ADMIN_ROLE = DEFAULT_ADMIN_ROLE
    REWARDER_ROLE = REWARDER_ROLE
    BLACKLIST_MANAGER_ROLE = BLACKLIST_MANAGER_ROLE
    SOFT_RESTRICTED_STAKER_ROLE = SOFT_RESTRICTED_STAKER_ROLE
    FULL_RESTRICTED_STAKER_ROLE = FULL_RESTRICTED_STAKER_ROLE
    Caller <- MCPair
    Address <- MCPairAddress
    Role <- MCRole
    InitialOwner = olga
    InitialRewarder = olga
    InitialAvUSD <- MCFunds
    Amount <- MCAmount
    MAX_UINT = 9
    OwnerFunds = 3
    AliceFunds = 0
    BobFunds = 3
    LargestAmount = 3
    VESTING_PERIOD = 2
    MaxTime = 4
    MIN_SHARES = 2
    RoleInput <- RestrictInput
    AdminInput = {}
    Approval = {1}
    Recipient = {olga, bob, Vault}
    Spender = {olga}
    Issuance = {}
    MaxAvUSD = 6
SPECIFICATION StakedSpec
INVARIANTS
    StakedInv
    ExitNeverBlocked
PROPERTIES
    SharePriceNeverFalls
    FairExchange
    RewardsVestWithoutJump
    DustOnlyByRedistribution
    FrozenBalance
