CONSTANTS
    olga = olga
    alice = alice
    dora = dora
    cust = cust
    usdc = usdc
    dai = dai
    WAVAX = WAVAX
    Zero = Zero
    Minting = Minting
    AvUSDToken = AvUSDToken
    NATIVE_TOKEN = NATIVE_TOKEN
    DEFAULT_ADMIN_ROLE = DEFAULT_ADMIN_ROLE
    MINTER_ROLE = MINTER_ROLE
    REDEEMER_ROLE = REDEEMER_ROLE
    COLLATERAL_MANAGER_ROLE = COLLATERAL_MANAGER_ROLE
    GATEKEEPER_ROLE = GATEKEEPER_ROLE
    Caller <- MCCaller
    Address <- MCAddress
    Role <- MCRole
    Asset <- MCAsset
    Decimals <- MCDecimals
    AVUSD_DECIMALS = 1
    MAX_UINT = 99
    MaxAvUSD = 1
    ROUTE_REQUIRED_RATIO = 3
    STABLES_RATIO_MULTIPLIER = 10000
    BITS = 2
    UINT64 = 5
    ContractWallet = {}
    Payable = {olga, alice, dora, cust, Minting}
    InitialMembers <- MCMembers
    InitialCollateral <- MCCollateral
    InitialTokenOwner = olga
    NewMinter = {Minting, olga}
    InitialAssets = {dai, WAVAX, NATIVE_TOKEN}
    InitialCustodians = {cust, Minting, usdc}
    NewTokenOwner = {}
    AvUSDAmount = {1}
    ApprovalInput <- MCApproval
    AvUSDRecipient = {alice}
    RoleInput <- NoInput
    AdminInput = {}
    InitialMaxMint = 3
    InitialMaxRedeem = 1
    OrderInput <- MCOrders
    RouteInput <- MCRoutes
    SignatureInput <- MCSignatures
    LimitInput = {2}
    DeltaInput = {}
    DelegationInput <- NoInput
    AssetInput = {}
    CustodianInput = {cust}
    CustodyInput <- MCCustody
    CollateralInput <- NoInput
    MaxBlock = 1
    WrapInput <- MCWrap
    WavaxApproval <- MCWavaxApproval
    WavaxTransfer <- MCWavaxTransfer
SPECIFICATION V1Spec
INVARIANTS
    WavaxBacked
    SupplyIsCounted
PROPERTIES
    MintIsPaidWhole
