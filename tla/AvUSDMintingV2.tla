--------------------------- MODULE AvUSDMintingV2 ---------------------------
(***************************************************************************)
(* contracts/AvUSDMintingV2.sol: benefactors sign orders off chain; minters *)
(* and redeemers execute them.  A mint pays the collateral to custodians   *)
(* and issues avUSD; a redemption burns avUSD and pays collateral out of   *)
(* this contract.  Orders are deduplicated by nonce bitmaps, limited per   *)
(* block, and checked against the price of one.  The token is AvUSD.       *)
(***************************************************************************)
EXTENDS SingleAdminAccessControl, AvUSD, Powers, Sequences

CONSTANTS
    MINTER_ROLE, REDEEMER_ROLE, COLLATERAL_MANAGER_ROLE, GATEKEEPER_ROLE,
    Minting,                  \* address(this)
    AvUSDToken,               \* the address of avUSD
    NATIVE_TOKEN,             \* the address denoting the native coin
    Asset,                    \* the addresses of collateral assets
    AVUSD_DECIMALS, Decimals, \* decimals() of avUSD, and of the ERC-20 assets
    ROUTE_REQUIRED_RATIO,     \* 100%
    STABLES_RATIO_MULTIPLIER, \* 100%, in basis points
    BITS, UINT64,             \* 2^8 bits in a slot of a bitmap, 2^64 nonces
    ContractWallet,           \* accounts that answer isValidSignature
    Payable,                  \* accounts that accept the native coin
    InitialMembers,           \* the roles granted when the contract is deployed
    InitialAssets, InitialCustodians, InitialMaxMint, InitialMaxRedeem,
    InitialCollateral,        \* who holds how much of each asset
    OrderInput, RouteInput, SignatureInput, LimitInput, DeltaInput, DelegationInput,
    AssetInput, CustodianInput, CustodyInput, CollateralInput,
    MaxBlock                  \* bound of the block number

\* A signature recovers to the account that signed; which accounts did sign an
\* order is not known, so that each signature of SignatureInput may come with it.
\* The minting contract has no key and no isValidSignature: it signs nothing.
Signature == [signature_type : {"EIP712", "EIP1271"}, signer : Address]
Order == [order_type : {"MINT", "REDEEM"}, expiry : Nat, nonce : Nat,
          benefactor : Address, beneficiary : Address, collateral_asset : Address,
          collateral_amount : Nat, avusd_amount : Nat]

ASSUME MintingAssumption ==
    /\ {MINTER_ROLE, REDEEMER_ROLE, COLLATERAL_MANAGER_ROLE, GATEKEEPER_ROLE}
          \subseteq Role \ {DEFAULT_ADMIN_ROLE}
    /\ {Minting, AvUSDToken} \subseteq Address \ (Caller \cup {Zero})
    /\ Minting # AvUSDToken
    /\ Asset \subseteq Address \ {Zero, AvUSDToken}
    /\ NATIVE_TOKEN \in Asset
    /\ AVUSD_DECIMALS \in Nat
    /\ Decimals \in [Asset \ {NATIVE_TOKEN} -> Nat]
    /\ ROUTE_REQUIRED_RATIO \in Nat \ {0}
    /\ STABLES_RATIO_MULTIPLIER \in Nat \ {0}
    /\ BITS \in Nat \ {0} /\ UINT64 \in Nat
    /\ ContractWallet \subseteq Address
    /\ Payable \subseteq Address
    /\ InitialMembers \in [Role -> SUBSET Address]
    /\ \E admin \in Address \ {Zero} : InitialMembers[DEFAULT_ADMIN_ROLE] = {admin}
    /\ InitialAssets \subseteq Asset
    /\ InitialCustodians \subseteq Address \ {Zero, AvUSDToken}
    /\ InitialMaxMint \in Nat /\ InitialMaxRedeem \in Nat
    /\ InitialCollateral \in [Asset -> [Address -> Nat]]
    /\ OrderInput \subseteq Order
    /\ \A route \in RouteInput : route.addresses \in Seq(Address) /\ route.ratios \in Seq(Nat)
    /\ SignatureInput \subseteq Signature
    /\ \A signature \in SignatureInput : signature.signer # Minting
    /\ LimitInput \subseteq Nat /\ DeltaInput \subseteq Nat
    /\ DelegationInput \subseteq Caller \X Address
    /\ AssetInput \subseteq Asset \cup {Zero, AvUSDToken}
    /\ CustodianInput \subseteq Address
    /\ CustodyInput \subseteq (Asset \cup {AvUSDToken}) \X Nat
    /\ CollateralInput \subseteq Asset \X Address \X Address \X Nat
    /\ MaxBlock \in Nat

VARIABLES
    supportedAssets, custodianAddresses,
    orderBitmaps,       \* orderBitmaps[benefactor][slot]: the bits that are set
    stablesDeltaLimit,
    mintedPerBlock, redeemedPerBlock,
    delegatedSigner,    \* delegatedSigner[signer][delegator]
    maxMintPerBlock, maxRedeemPerBlock,
    collateral,         \* collateral[asset][account]: balances of the assets
    blockNumber         \* block.number, and block.timestamp in blocks

listVars    == <<supportedAssets, custodianAddresses>>
limitVars   == <<stablesDeltaLimit, maxMintPerBlock, maxRedeemPerBlock>>
counterVars == <<mintedPerBlock, redeemedPerBlock>>
mintingVars == <<listVars, limitVars, counterVars, orderBitmaps, delegatedSigner,
                 collateral, blockNumber>>
allVars     == <<accessVars, avUSDVars, mintingVars>>

-----------------------------------------------------------------------------
(* Verification of orders. *)

\* verifyOrder, the signature: by the benefactor's key, by a delegate's key, or
\* by the benefactor's contract.
VerifySignature(order, signature) ==
    \/ /\ signature.signature_type = "EIP712"
       /\ \/ signature.signer = order.benefactor
          \/ delegatedSigner[signature.signer][order.benefactor] = "ACCEPTED"
    \/ /\ signature.signature_type = "EIP1271"
       /\ signature.signer = order.benefactor
       /\ order.benefactor \in ContractWallet

\* Amounts of collateral in units of avUSD; fewer decimals scale up exactly,
\* more decimals scale down.
Normalized(amount, asset) ==
    IF AVUSD_DECIMALS > Decimals[asset]
    THEN amount * Power(10, AVUSD_DECIMALS - Decimals[asset])
    ELSE amount \div Power(10, Decimals[asset] - AVUSD_DECIMALS)

InBps(difference, avusdAmount) ==
    (difference * STABLES_RATIO_MULTIPLIER) \div avusdAmount

\* Mutant of CheckRatio: minting and redeeming are taken for each other.
CheckRatioSwapped(order) ==
    /\ order.collateral_asset \in DOMAIN Decimals
    /\ LET normalized == Normalized(order.collateral_amount, order.collateral_asset)
           short == IF order.order_type = "REDEEM" THEN order.avusd_amount - normalized
                                                   ELSE normalized - order.avusd_amount
       IN  short > 0 => InBps(short, order.avusd_amount) <= stablesDeltaLimit

\* _checkCollateralToStablecoinRatio: what the benefactor gets beyond par is at
\* most the limit.  The native coin answers no call of decimals().
CheckRatio(order) ==
    /\ order.collateral_asset \in DOMAIN Decimals
    /\ LET normalized == Normalized(order.collateral_amount, order.collateral_asset)
           beyond == IF order.order_type = "MINT" THEN order.avusd_amount - normalized
                                                  ELSE normalized - order.avusd_amount
       IN  beyond > 0 => InBps(beyond, order.avusd_amount) <= stablesDeltaLimit

VerifyOrder(order, signature) ==
    /\ VerifySignature(order, signature)
    /\ order.beneficiary # Zero
    /\ order.collateral_amount # 0 /\ order.avusd_amount # 0
    /\ blockNumber <= order.expiry
    /\ CheckRatio(order)

VerifyRoute(route) ==
    /\ Len(route.addresses) = Len(route.ratios)
    /\ Len(route.addresses) # 0
    /\ \A i \in 1 .. Len(route.ratios) :
          route.addresses[i] \in custodianAddresses \ {Zero} /\ route.ratios[i] # 0
    /\ Total(route.ratios) = ROUTE_REQUIRED_RATIO

\* Mutant of Bit: the slot's part of the nonce is not masked out.
WholeNonce(nonce) == nonce

Slot(nonce) == nonce \div BITS
Bit(nonce) == nonce % BITS

VerifyNonce(sender, nonce) ==
    /\ nonce # 0 /\ nonce < UINT64
    /\ Bit(nonce) \notin orderBitmaps[sender][Slot(nonce)]

\* Mutant of DeduplicateOrder: the other bits of the slot are lost.
DeduplicateOverwriting(sender, nonce) ==
    /\ VerifyNonce(sender, nonce)
    /\ orderBitmaps' = [orderBitmaps EXCEPT ![sender][Slot(nonce)] = {Bit(nonce)}]

DeduplicateOrder(sender, nonce) ==
    /\ VerifyNonce(sender, nonce)
    /\ orderBitmaps' = [orderBitmaps EXCEPT ![sender][Slot(nonce)] = @ \cup {Bit(nonce)}]

-----------------------------------------------------------------------------
(* Limits and transfers. *)

\* Mutant of BelowMaxMintPerBlock: what the block has minted is not counted.
BelowMaxUncounted(mintAmount) ==
    /\ mintAmount <= maxMintPerBlock
    /\ UNCHANGED counterVars

BelowMaxMintPerBlock(mintAmount) ==
    /\ mintedPerBlock[blockNumber] + mintAmount <= maxMintPerBlock
    /\ mintedPerBlock' = [mintedPerBlock EXCEPT ![blockNumber] = @ + mintAmount]
    /\ UNCHANGED redeemedPerBlock

BelowMaxRedeemPerBlock(redeemAmount) ==
    /\ redeemedPerBlock[blockNumber] + redeemAmount <= maxRedeemPerBlock
    /\ redeemedPerBlock' = [redeemedPerBlock EXCEPT ![blockNumber] = @ + redeemAmount]
    /\ UNCHANGED mintedPerBlock

MoveCollateral(asset, from, to, amount) ==
    /\ to # Zero
    /\ asset = NATIVE_TOKEN => to \in Payable
    /\ collateral[asset][from] >= amount
    /\ collateral' = [collateral EXCEPT ![asset] = Move(@, from, to, amount)]

\* Mutant of Parts: what rounding leaves over is not sent.
PartsRounded(amount, ratios) ==
    [i \in 1 .. Len(ratios) |-> (amount * ratios[i]) \div ROUTE_REQUIRED_RATIO]

\* The part of each custodian of a route: the last one gets what is left.
Parts(amount, ratios) ==
    LET last    == Len(ratios)
        rounded == [i \in 1 .. last - 1 |->
                       (amount * ratios[i]) \div ROUTE_REQUIRED_RATIO]
    IN  [i \in 1 .. last |-> IF i < last THEN rounded[i] ELSE amount - Total(rounded)]

\* _transferCollateral: one transferFrom after the other.  Benefactors approve
\* this contract for the collateral of their orders.
TransferCollateral(order, route) ==
    LET asset == order.collateral_asset
        parts == Parts(order.collateral_amount, route.ratios)
        after[i \in 0 .. Len(parts)] ==
           IF i = 0 THEN collateral[asset]
           ELSE Move(after[i - 1], order.benefactor, route.addresses[i], parts[i])
    IN  /\ asset \in supportedAssets \ {NATIVE_TOKEN}
        /\ \A i \in 1 .. Len(parts) : after[i - 1][order.benefactor] >= parts[i]
        /\ collateral' = [collateral EXCEPT ![asset] = after[Len(parts)]]

\* _transferToBeneficiary
TransferToBeneficiary(beneficiary, asset, amount) ==
    /\ asset = NATIVE_TOKEN \/ asset \in supportedAssets
    /\ MoveCollateral(asset, Minting, beneficiary, amount)

-----------------------------------------------------------------------------
(* Orders. *)

Mint(sender, order, route, signature) ==
    /\ HasRole(MINTER_ROLE, sender)
    /\ BelowMaxMintPerBlock(order.avusd_amount)
    /\ order.order_type = "MINT"
    /\ VerifyOrder(order, signature)
    /\ VerifyRoute(route)
    /\ DeduplicateOrder(order.benefactor, order.nonce)
    /\ TransferCollateral(order, route)
    /\ AvUSDMint(Minting, order.beneficiary, order.avusd_amount)
    /\ UNCHANGED <<accessVars, listVars, limitVars, delegatedSigner, blockNumber>>

Redeem(sender, order, signature) ==
    /\ HasRole(REDEEMER_ROLE, sender)
    /\ BelowMaxRedeemPerBlock(order.avusd_amount)
    /\ order.order_type = "REDEEM"
    /\ VerifyOrder(order, signature)
    /\ DeduplicateOrder(order.benefactor, order.nonce)
    /\ AvUSDBurnFrom(Minting, order.benefactor, order.avusd_amount)
    /\ TransferToBeneficiary(order.beneficiary, order.collateral_asset,
                             order.collateral_amount)
    /\ UNCHANGED <<accessVars, listVars, limitVars, delegatedSigner, blockNumber>>

-----------------------------------------------------------------------------
(* Delegated signers. *)

SetDelegatedSigner(sender, delegateTo) ==
    /\ delegatedSigner' = [delegatedSigner EXCEPT ![delegateTo][sender] = "PENDING"]
    /\ UNCHANGED <<accessVars, avUSDVars, listVars, limitVars, counterVars,
                   orderBitmaps, collateral, blockNumber>>

\* Mutant of ConfirmDelegatedSigner: a withdrawn delegation is confirmed.
ConfirmAnyDelegatedSigner(sender, delegatedBy) ==
    /\ delegatedSigner' = [delegatedSigner EXCEPT ![sender][delegatedBy] = "ACCEPTED"]
    /\ UNCHANGED <<accessVars, avUSDVars, listVars, limitVars, counterVars,
                   orderBitmaps, collateral, blockNumber>>

ConfirmDelegatedSigner(sender, delegatedBy) ==
    /\ delegatedSigner[sender][delegatedBy] = "PENDING"
    /\ delegatedSigner' = [delegatedSigner EXCEPT ![sender][delegatedBy] = "ACCEPTED"]
    /\ UNCHANGED <<accessVars, avUSDVars, listVars, limitVars, counterVars,
                   orderBitmaps, collateral, blockNumber>>

RemoveDelegatedSigner(sender, removedSigner) ==
    /\ delegatedSigner' = [delegatedSigner EXCEPT ![removedSigner][sender] = "REJECTED"]
    /\ UNCHANGED <<accessVars, avUSDVars, listVars, limitVars, counterVars,
                   orderBitmaps, collateral, blockNumber>>

-----------------------------------------------------------------------------
(* Managers. *)

SetMaxMintPerBlock(sender, limit) ==
    /\ HasRole(DEFAULT_ADMIN_ROLE, sender)
    /\ maxMintPerBlock' = limit
    /\ UNCHANGED <<accessVars, avUSDVars, listVars, stablesDeltaLimit, maxRedeemPerBlock,
                   counterVars, orderBitmaps, delegatedSigner, collateral, blockNumber>>

SetMaxRedeemPerBlock(sender, limit) ==
    /\ HasRole(DEFAULT_ADMIN_ROLE, sender)
    /\ maxRedeemPerBlock' = limit
    /\ UNCHANGED <<accessVars, avUSDVars, listVars, stablesDeltaLimit, maxMintPerBlock,
                   counterVars, orderBitmaps, delegatedSigner, collateral, blockNumber>>

SetStablesDeltaLimit(sender, limit) ==
    /\ HasRole(DEFAULT_ADMIN_ROLE, sender)
    /\ stablesDeltaLimit' = limit
    /\ UNCHANGED <<accessVars, avUSDVars, listVars, maxMintPerBlock, maxRedeemPerBlock,
                   counterVars, orderBitmaps, delegatedSigner, collateral, blockNumber>>

\* Mutant of DisableMintRedeem: redemptions go on.
DisableMint(sender) ==
    /\ HasRole(GATEKEEPER_ROLE, sender)
    /\ maxMintPerBlock' = 0
    /\ UNCHANGED <<accessVars, avUSDVars, listVars, stablesDeltaLimit, maxRedeemPerBlock,
                   counterVars, orderBitmaps, delegatedSigner, collateral, blockNumber>>

DisableMintRedeem(sender) ==
    /\ HasRole(GATEKEEPER_ROLE, sender)
    /\ maxMintPerBlock' = 0 /\ maxRedeemPerBlock' = 0
    /\ UNCHANGED <<accessVars, avUSDVars, listVars, stablesDeltaLimit,
                   counterVars, orderBitmaps, delegatedSigner, collateral, blockNumber>>

\* Mutant of RemoveRole: the caller loses the role.
RemoveOwnRole(sender, role, account) ==
    /\ HasRole(GATEKEEPER_ROLE, sender)
    /\ role \in {MINTER_ROLE, REDEEMER_ROLE, COLLATERAL_MANAGER_ROLE}
    /\ RevokeRoleInternal(role, sender)
    /\ UNCHANGED <<avUSDVars, mintingVars>>

\* Mutant of RemoveRole: any role can be removed.
RemoveAnyRole(sender, role, account) ==
    /\ HasRole(GATEKEEPER_ROLE, sender)
    /\ RevokeRoleInternal(role, account)
    /\ UNCHANGED <<avUSDVars, mintingVars>>

\* removeMinterRole, removeRedeemerRole and removeCollateralManagerRole.
RemoveRole(sender, role, account) ==
    /\ HasRole(GATEKEEPER_ROLE, sender)
    /\ role \in {MINTER_ROLE, REDEEMER_ROLE, COLLATERAL_MANAGER_ROLE}
    /\ RevokeRoleInternal(role, account)
    /\ UNCHANGED <<avUSDVars, mintingVars>>

TransferToCustody(sender, wallet, asset, amount) ==
    /\ HasRole(COLLATERAL_MANAGER_ROLE, sender)
    /\ wallet \in custodianAddresses \ {Zero}
    /\ \/ /\ asset = AvUSDToken
          /\ AvUSDTransfer(Minting, wallet, amount)
          /\ UNCHANGED collateral
       \/ /\ asset # AvUSDToken
          /\ MoveCollateral(asset, Minting, wallet, amount)
          /\ UNCHANGED avUSDVars
    /\ UNCHANGED <<accessVars, listVars, limitVars, counterVars, orderBitmaps,
                   delegatedSigner, blockNumber>>

AddSupportedAsset(sender, asset) ==
    /\ HasRole(DEFAULT_ADMIN_ROLE, sender)
    /\ asset \notin {Zero, AvUSDToken} \cup supportedAssets
    /\ supportedAssets' = supportedAssets \cup {asset}
    /\ UNCHANGED <<accessVars, avUSDVars, custodianAddresses, limitVars, counterVars,
                   orderBitmaps, delegatedSigner, collateral, blockNumber>>

RemoveSupportedAsset(sender, asset) ==
    /\ HasRole(DEFAULT_ADMIN_ROLE, sender)
    /\ asset \in supportedAssets
    /\ supportedAssets' = supportedAssets \ {asset}
    /\ UNCHANGED <<accessVars, avUSDVars, custodianAddresses, limitVars, counterVars,
                   orderBitmaps, delegatedSigner, collateral, blockNumber>>

AddCustodianAddress(sender, custodian) ==
    /\ HasRole(DEFAULT_ADMIN_ROLE, sender)
    /\ custodian \notin {Zero, AvUSDToken} \cup custodianAddresses
    /\ custodianAddresses' = custodianAddresses \cup {custodian}
    /\ UNCHANGED <<accessVars, avUSDVars, supportedAssets, limitVars, counterVars,
                   orderBitmaps, delegatedSigner, collateral, blockNumber>>

RemoveCustodianAddress(sender, custodian) ==
    /\ HasRole(DEFAULT_ADMIN_ROLE, sender)
    /\ custodian \in custodianAddresses
    /\ custodianAddresses' = custodianAddresses \ {custodian}
    /\ UNCHANGED <<accessVars, avUSDVars, supportedAssets, limitVars, counterVars,
                   orderBitmaps, delegatedSigner, collateral, blockNumber>>

-----------------------------------------------------------------------------

\* After the constructor and the grants of the deployment script.
MintingInit ==
    /\ members = InitialMembers
    /\ currentDefaultAdmin \in InitialMembers[DEFAULT_ADMIN_ROLE]
    /\ pendingDefaultAdmin = Zero
    /\ AvUSDInit
    /\ supportedAssets = InitialAssets
    /\ custodianAddresses = InitialCustodians
    /\ orderBitmaps = [b \in Address |-> [s \in 0 .. UINT64 \div BITS |-> {}]]
    /\ stablesDeltaLimit = 0
    /\ mintedPerBlock = [b \in 0 .. MaxBlock |-> 0]
    /\ redeemedPerBlock = [b \in 0 .. MaxBlock |-> 0]
    /\ delegatedSigner = [d \in Address |-> [b \in Address |-> "REJECTED"]]
    /\ maxMintPerBlock = InitialMaxMint
    /\ maxRedeemPerBlock = InitialMaxRedeem
    /\ collateral = InitialCollateral
    /\ blockNumber = 0

OrderCall(sender, order, signature) ==
    \/ \E route \in RouteInput : Mint(sender, order, route, signature)
    \/ Redeem(sender, order, signature)

LimitCall(sender) ==
    \/ \E limit \in LimitInput : \/ SetMaxMintPerBlock(sender, limit)
                                 \/ SetMaxRedeemPerBlock(sender, limit)
    \/ \E limit \in DeltaInput : SetStablesDeltaLimit(sender, limit)

ListCall(sender) ==
    \/ \E asset \in AssetInput : \/ AddSupportedAsset(sender, asset)
                                 \/ RemoveSupportedAsset(sender, asset)
    \/ \E custodian \in CustodianInput : \/ AddCustodianAddress(sender, custodian)
                                         \/ RemoveCustodianAddress(sender, custodian)
    \/ \E wallet \in CustodianInput, in \in CustodyInput :
          TransferToCustody(sender, wallet, in[1], in[2])

RemovalCall(sender) ==
    \E in \in RoleInput : RemoveRole(sender, in[1], in[2])

\* What the contract inherits from SingleAdminAccessControl.
AccessCall(sender) ==
    /\ \/ \E newAdmin \in AdminInput : TransferAdmin(sender, newAdmin)
       \/ AcceptAdmin(sender)
       \/ \E in \in RoleInput : \/ GrantRole(sender, in[1], in[2])
                                \/ RevokeRole(sender, in[1], in[2])
                                \/ RenounceRole(sender, in[1], in[2])
    /\ UNCHANGED <<avUSDVars, mintingVars>>

\* Calls of the token by others than this contract, one of which the token's owner
\* may have made the minter in its place.
TokenCall(sender) ==
    /\ AvUSDCall(sender) \/ MinterCall(sender)
    /\ UNCHANGED <<accessVars, mintingVars>>

\* Collateral moves between other accounts, or is sent to this contract.
SendCollateral(asset, from, to, amount) ==
    /\ from # Minting
    /\ MoveCollateral(asset, from, to, amount)
    /\ UNCHANGED <<accessVars, avUSDVars, listVars, limitVars, counterVars,
                   orderBitmaps, delegatedSigner, blockNumber>>

NewBlock ==
    /\ blockNumber < MaxBlock
    /\ blockNumber' = blockNumber + 1
    /\ UNCHANGED <<accessVars, avUSDVars, listVars, limitVars, counterVars,
                   orderBitmaps, delegatedSigner, collateral>>

MintingNext ==
    \/ \E sender \in Caller :
          \/ \E order \in OrderInput, signature \in SignatureInput :
                OrderCall(sender, order, signature)
          \/ \E in \in DelegationInput :
                /\ in[1] = sender
                /\ \/ SetDelegatedSigner(sender, in[2])
                   \/ ConfirmDelegatedSigner(sender, in[2])
                   \/ RemoveDelegatedSigner(sender, in[2])
          \/ LimitCall(sender)
          \/ DisableMintRedeem(sender)
          \/ ListCall(sender)
          \/ RemovalCall(sender)
          \/ AccessCall(sender)
          \/ TokenCall(sender)
    \/ \E in \in CollateralInput : SendCollateral(in[1], in[2], in[3], in[4])
    \/ NewBlock

MintingSpec == MintingInit /\ [][MintingNext]_allVars

-----------------------------------------------------------------------------
(* Properties. *)

Slots == 0 .. UINT64 \div BITS
BitmapTypeOK == orderBitmaps \in [Address -> [Slots -> SUBSET (0 .. BITS - 1)]]

\* Types of the minting contract's state, with that of access control and token.
MintingTypeOK ==
    /\ AccessTypeOK /\ AvUSDTypeOK
    /\ supportedAssets \subseteq Asset
    /\ custodianAddresses \subseteq Address \ {Zero, AvUSDToken}
    /\ BitmapTypeOK
    /\ {stablesDeltaLimit, maxMintPerBlock, maxRedeemPerBlock} \subseteq Nat
    /\ mintedPerBlock \in [0 .. MaxBlock -> Nat]
    /\ redeemedPerBlock \in [0 .. MaxBlock -> Nat]
    /\ delegatedSigner \in [Address -> [Address -> {"REJECTED", "PENDING", "ACCEPTED"}]]
    /\ collateral \in [Asset -> [Address -> Nat]]
    /\ blockNumber \in 0 .. MaxBlock

\* The bitmaps implement what orders need: an order, named by benefactor and
\* nonce, executes at most once, in whatever order nonces are used; and while this
\* contract is the minter, nothing but an order or a holder's burn changes the supply.
OrderId  == {order.benefactor : order \in OrderInput} \X (1 .. UINT64 - 1)
Executed == {id \in OrderId : Bit(id[2]) \in orderBitmaps[id[1]][Slot(id[2])]}
Orders == INSTANCE OrderExecution WITH
             executed <- Executed, supply <- avUSDSupply, soleIssuer <- minter = Minting
ImplementsOrderExecution == Orders!Spec

\* What the custodians hold of an asset.
InCustody(asset) == Total([c \in custodianAddresses |-> collateral[asset][c]])

\* The accounts whose orders the step executed.
Benefactors == {id[1] : id \in Executed' \ Executed}

\* Whatever the route and its rounding, what this contract mints is paid for in one
\* supported asset, all of it to custodians, within the limit of the price; only
\* a benefactor that is a custodian itself adds nothing to what they hold.
MintIsPaid ==
    [][minter = Minting /\ avUSDSupply' > avUSDSupply =>
         LET minted == avUSDSupply' - avUSDSupply
         IN  \E asset \in supportedAssets \ {NATIVE_TOKEN}, benefactor \in Benefactors :
                LET gained == InCustody(asset)' - InCustody(asset)
                IN  /\ IF benefactor \in custodianAddresses
                       THEN gained = 0
                       ELSE (minted - Normalized(gained, asset)) * STABLES_RATIO_MULTIPLIER
                               < (stablesDeltaLimit + 1) * minted
                    /\ \A other \in Asset \ {asset} : collateral'[other] = collateral[other]
      ]_allVars

\* Collateral leaves this contract to a custodian, or for avUSD that is burned
\* in the same step, within the limit of the price.
CollateralLeavesForBurnOrCustody ==
    [][\A asset \in Asset :
         LET lost   == collateral[asset][Minting] - collateral'[asset][Minting]
             burned == avUSDSupply - avUSDSupply'
         IN  lost > 0 =>
               \/ /\ burned = 0
                  /\ \E c \in custodianAddresses :
                        collateral'[asset][c] = collateral[asset][c] + lost
               \/ /\ burned > 0 /\ asset \in supportedAssets
                  /\ (Normalized(lost, asset) - burned) * STABLES_RATIO_MULTIPLIER
                        < (stablesDeltaLimit + 1) * burned
      ]_allVars

\* The comment on _transferCollateral: native ETH, when supported, can be
\* redeemed, if nothing else stands against the order.
NativeRedeemable ==
    \A sender \in members[REDEEMER_ROLE] \cap Caller,
       order \in OrderInput, signature \in SignatureInput :
       /\ order.order_type = "REDEEM" /\ order.collateral_asset = NATIVE_TOKEN
       /\ NATIVE_TOKEN \in supportedAssets
       /\ collateral[NATIVE_TOKEN][Minting] >= order.collateral_amount
       /\ redeemedPerBlock[blockNumber] + order.avusd_amount <= maxRedeemPerBlock
       /\ VerifySignature(order, signature) /\ blockNumber <= order.expiry
       /\ VerifyNonce(order.benefactor, order.nonce)
       /\ avUSDBalance[order.benefactor] >= order.avusd_amount
       /\ avUSDAllowance[order.benefactor][Minting] >= order.avusd_amount
       => ENABLED Redeem(sender, order, signature)

\* What every call in the composed system preserves: the admin of the minting contract
\* is one account, recorded twice and never its own nominee, and the supply of avUSD
\* is the sum of the balances, whichever contract moves roles, ownership and coins.
MintingInv == AccessInv /\ AvUSDInv /\ BitmapTypeOK
=============================================================================
