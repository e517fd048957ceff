CONSTANTS
    olga = olga
    alice = alice
    bob = bob
    Zero = Zero
    Vault = Vault
    DEFAULT_ADMIN_ROLE = DEFAULT_ADMIN_ROLE
    REWARDER_ROLE = REWARDER_ROLE
    BLACKLIST_MANAGER_ROLE = BLACKLIST_MANAGER_ROLE
    SOFT_RESTRICTED_STAKER_ROLE = SOFT_RESTRICTED_STAKER_ROLE
    FULL_RESTRICTED_STAKER_ROLE = FULL_RESTRICTED_STAKER_ROLE
    Caller <- MCCaller
    Address <- MCAddress
    Role <- MCRole
    InitialOwner = olga
    InitialRewarder = olga
    InitialAvUSD <- MCFunds
    Amount <- MCAmount
    MAX_UINT = 9
    OwnerFunds = 0
    AliceFunds = 2
    BobFunds = 1
    LargestAmount = 2
    VESTING_PERIOD = 1
    MaxTime = 4
    MIN_SHARES = 1
    RoleInput <- FreezeInput
    AdminInput = {}
    Approval = {0}
    Recipient = {alice, bob, Silo}
    Spender = {bob}
    Issuance = {1}
    MaxAvUSD = 3
    Silo = Silo
    MAX_COOLDOWN_DURATION = 2
    UINT152 = 4
    DurationInput = {0, 1, 3}
SPECIFICATION FairSpecV2
INVARIANTS
    V2Inv
PROPERTIES
    LeavesAsClaims
    ClaimsSettledWhole
    ClaimsEventuallyPaid
    ImplementsStakedAvUSD
