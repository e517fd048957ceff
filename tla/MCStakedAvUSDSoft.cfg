CONSTANTS
    olga = olga
    alice = alice
    bob = bob
    Zero = Zero
    Vault = Vault
    DEFAULT_ADMIN_ROLE = DEFAULT_ADMIN_ROLE
    REWARDER_ROLE = REWARDER_ROLE
    BLACKLIST_MANAGER_ROLE = BLACKLIST_MANAGER_ROLE
    SOFT_RESTRICTED_STAKER_ROLE = SOFT_RESTRICTED_STAKER_ROLE
    FULL_RESTRICTED_STAKER_ROLE = FULL_RESTRICTED_STAKER_ROLE
    Caller <- MCCaller
    Address <- MCAddress
    Role <- MCRole
    InitialOwner = olga
    InitialRewarder = olga
    InitialAvUSD <- MCFunds
    Amount <- MCAmount
    MAX_UINT = 9
    OwnerFunds = 0
    AliceFunds = 3
    BobFunds = 3
    LargestAmount = 2
    VESTING_PERIOD = 1
    MaxTime = 2
    MIN_SHARES = 2
    RoleInput <- RestrictInput
    AdminInput = {}
    Approval = {0}
    Recipient = {alice, bob}
    Spender = {bob}
    Issuance = {}
    MaxAvUSD = 6
SPECIFICATION StakedSpec
PROPERTIES
    SoftRestrictedNeverWithdraw
