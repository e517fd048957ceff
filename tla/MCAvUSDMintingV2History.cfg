CONSTANTS
    olga = olga
    alice = alice
    wally = wally
    dora = dora
    cust = cust
    usdc = usdc
    dai = dai
    Zero = Zero
    Minting = Minting
    AvUSDToken = AvUSDToken
    NATIVE_TOKEN = NATIVE_TOKEN
    DEFAULT_ADMIN_ROLE = DEFAULT_ADMIN_ROLE
    MINTER_ROLE = MINTER_ROLE
    REDEEMER_ROLE = REDEEMER_ROLE
    COLLATERAL_MANAGER_ROLE = COLLATERAL_MANAGER_ROLE
    GATEKEEPER_ROLE = GATEKEEPER_ROLE
    Caller <- MCCaller
    Address <- MCAddress
    Role <- MCRole
    Asset <- MCAsset
    Decimals <- MCDecimals
    AVUSD_DECIMALS = 1
    MAX_UINT = 99
    MaxAvUSD = 0
    ROUTE_REQUIRED_RATIO = 3
    STABLES_RATIO_MULTIPLIER = 10000
    BITS = 2
    UINT64 = 5
    ContractWallet = {wally}
    Payable = {olga, alice, wally, dora, cust, Minting}
    InitialMembers <- MCMembers
    InitialCollateral <- MCCollateral
    InitialTokenOwner = olga
    NewMinter = {Minting}
    InitialAssets = {dai, usdc}
    InitialCustodians = {cust, Minting}
    NewTokenOwner = {}
    AvUSDAmount = {}
    ApprovalInput <- MCApproval
    AvUSDRecipient = {}
    RoleInput <- DoraRoles
    AdminInput = {}
    InitialMaxMint = 2
    InitialMaxRedeem = 1
    OrderInput <- TrustOrders
    RouteInput <- ToMinting
    SignatureInput <- DelegateSignature
    LimitInput = {1}
    DeltaInput = {}
    DelegationInput <- AliceAndDora
    AssetInput = {}
    CustodianInput = {}
    CustodyInput <- NoInput
    CollateralInput <- NoInput
    MaxBlock = 1
SPECIFICATION HistorySpec
PROPERTIES
    OnlyOnTrustedOrder
    TurnoverWithinLimits
    StopHolds
    DismissalHolds
