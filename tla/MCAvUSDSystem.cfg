CONSTANTS
    olga = olga
    alice = alice
    Zero = Zero
    Vault = Vault
    Silo = Silo
    DEFAULT_ADMIN_ROLE = DEFAULT_ADMIN_ROLE
    REWARDER_ROLE = REWARDER_ROLE
    BLACKLIST_MANAGER_ROLE = BLACKLIST_MANAGER_ROLE
    SOFT_RESTRICTED_STAKER_ROLE = SOFT_RESTRICTED_STAKER_ROLE
    FULL_RESTRICTED_STAKER_ROLE = FULL_RESTRICTED_STAKER_ROLE
    Caller <- MCCaller
    Address <- MCAddress
    Role <- MCRole
    InitialOwner = olga
    InitialRewarder = olga
    InitialAvUSD <- MCFunds
    Amount <- MCAmount
    MAX_UINT = 9
    LargestAmount = 2
    VESTING_PERIOD = 1
    MaxTime = 2
    MIN_SHARES = 1
    RoleInput <- ManagerInput
    AdminInput = {alice}
    Approval = {1}
    Recipient = {olga, Silo}
    Spender = {alice}
    Issuance = {1, 2}
    MaxAvUSD = 2
    MAX_COOLDOWN_DURATION = 1
    UINT152 = 3
    DurationInput = {0}
    InitialTokenOwner = olga
    ApprovalInput <- CoinApproval
    NewMinter = {olga}
    NewTokenOwner = {}
SPECIFICATION SystemSpec
INVARIANTS
    SystemInv
PROPERTIES
    ImplementsParts
    OnlyByConsent
    OwnerRestrictsOnlyItself
