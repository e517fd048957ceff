CONSTANTS
    olga = olga
    alice = alice
    wally = wally
    dora = dora
    cust = cust
    usdc = usdc
    dai = dai
    Zero = Zero
    Minting = Minting
    AvUSDToken = AvUSDToken
    NATIVE_TOKEN = NATIVE_TOKEN
    DEFAULT_ADMIN_ROLE = DEFAULT_ADMIN_ROLE
    MINTER_ROLE = MINTER_ROLE
    REDEEMER_ROLE = REDEEMER_ROLE
    COLLATERAL_MANAGER_ROLE = COLLATERAL_MANAGER_ROLE
    GATEKEEPER_ROLE = GATEKEEPER_ROLE
    Caller <- MCCaller
    Address <- MCAddress
    Role <- MCRole
    Asset <- MCAsset
    Decimals <- MCDecimals
    AVUSD_DECIMALS = 1
    MAX_UINT = 99
    MaxAvUSD = 2
    ROUTE_REQUIRED_RATIO = 3
    STABLES_RATIO_MULTIPLIER = 10000
    BITS = 2
    UINT64 = 5
    ContractWallet = {wally}
    Payable = {olga, alice, wally, dora, cust, Minting}
    InitialMembers <- MCMembers
    InitialCollateral <- MCCollateral
    InitialTokenOwner = olga
    NewMinter = {Minting, alice}
    InitialAssets = {dai, usdc}
    InitialCustodians = {cust, Minting}
    NewTokenOwner = {olga, alice, Zero}
    AvUSDAmount = {1, 2}
    ApprovalInput <- SpenderApproval
    AvUSDRecipient = {alice, Minting}
    RoleInput <- MCRoles
    AdminInput = {olga, alice, dora, Zero}
    InitialMaxMint = 13
    InitialMaxRedeem = 2
    OrderInput <- MintAndRedeem
    RouteInput <- MCRoutes
    SignatureInput <- OwnSignatures
    LimitInput = {}
    DeltaInput = {}
    DelegationInput <- NoInput
    AssetInput = {usdc}
    CustodianInput = {}
    CustodyInput <- OneAvUSD
    CollateralInput <- NoInput
    MaxBlock = 0
SPECIFICATION MintingSpec
INVARIANTS
    MintingInv
PROPERTIES
    HandoverPromise
    OwnershipPromise
