------------------------ MODULE AvUSDMintingV2Proofs ------------------------
(***************************************************************************)
(* Machine-checked theorems about the minting contract: the nonce bitmaps  *)
(* implement orders that execute at most once; the gatekeeper's removals   *)
(* and the minting contract's calls of the token disturb neither the       *)
(* handover of the admin role nor that of the token's ownership; the       *)
(* supply of avUSD stays the sum of the balances; what is minted is paid   *)
(* for, and collateral leaves for burned avUSD or into custody; and with   *)
(* the history: limits, stops and dismissals hold, and orders execute on   *)
(* a trusted word only.                                                    *)
(***************************************************************************)
EXTENDS AvUSDMintingV2History, AvUSDProofs, SingleAdminAccessControlProofs

-----------------------------------------------------------------------------
(* Nonces and bitmaps. *)

\* A nonce has a slot, and a bit of it.
LEMMA NoncePlace ==
    ASSUME NEW n \in Nat, n < UINT64
    PROVE  /\ Slot(n) \in Slots
           /\ Bit(n) \in 0 .. (BITS - 1)
           /\ n = BITS * Slot(n) + Bit(n)
<1>1. BITS \in Nat /\ BITS > 0 /\ UINT64 \in Nat
  BY MintingAssumption
<1>2. /\ n \div BITS \in Nat /\ n % BITS \in 0 .. BITS - 1
      /\ n = BITS * (n \div BITS) + (n % BITS)
  BY <1>1
<1>3. n \div BITS <= UINT64 \div BITS /\ UINT64 \div BITS \in Nat
  <2>1. /\ BITS * (n \div BITS) <= n
        /\ UINT64 < BITS * (UINT64 \div BITS) + BITS /\ UINT64 \div BITS \in Nat
    BY <1>1, DivBounds
  <2>2. BITS * (n \div BITS) < BITS * (UINT64 \div BITS + 1)
    BY <1>1, <1>2, <2>1
  <2> QED
    BY <1>1, <1>2, <2>1, <2>2
<1> QED
  BY <1>2, <1>3 DEF Slot, Bit, Slots

\* No two nonces share both.
LEMMA NonceApart ==
    ASSUME NEW n \in Nat, NEW m \in Nat, n < UINT64, m < UINT64,
           Slot(n) = Slot(m), Bit(n) = Bit(m)
    PROVE  n = m
<1>1. n = BITS * Slot(n) + Bit(n) /\ m = BITS * Slot(m) + Bit(m)
  BY NoncePlace
<1> QED
  BY <1>1

\* Setting the bit of an unused nonce executes that order and no other.
LEMMA DeduplicateExecutes ==
    ASSUME BitmapTypeOK, NEW order \in OrderInput,
           DeduplicateOrder(order.benefactor, order.nonce)
    PROVE  LET id == <<order.benefactor, order.nonce>>
           IN  /\ BitmapTypeOK'
               /\ id \in OrderId /\ id \notin Executed
               /\ Executed' = Executed \cup {id}
<1> DEFINE b == order.benefactor
           n == order.nonce
<1>1. b \in Address /\ n \in Nat /\ UINT64 \in Nat
  BY MintingAssumption DEF Order
<1>2. /\ n # 0 /\ n < UINT64 /\ Bit(n) \notin orderBitmaps[b][Slot(n)]
      /\ orderBitmaps' = [orderBitmaps EXCEPT
            ![b][Slot(n)] = orderBitmaps[b][Slot(n)] \cup {Bit(n)}]
  BY DEF DeduplicateOrder, VerifyNonce
<1>3. Slot(n) \in Slots /\ Bit(n) \in 0 .. BITS - 1
  BY <1>1, <1>2, NoncePlace
<1>4. <<b, n>> \in OrderId /\ <<b, n>> \notin Executed
  BY <1>1, <1>2 DEF OrderId, Executed
<1>5. BitmapTypeOK'
  BY <1>1, <1>2, <1>3 DEF BitmapTypeOK
<1>6. ASSUME NEW c \in {in.benefactor : in \in OrderInput}, NEW m \in 1 .. UINT64 - 1
      PROVE  Bit(m) \in orderBitmaps'[c][Slot(m)]
                <=> Bit(m) \in orderBitmaps[c][Slot(m)] \/ <<c, m>> = <<b, n>>
  <2>1. c \in Address /\ m \in Nat /\ m < UINT64
    <3>1. PICK in \in OrderInput : c = in.benefactor
      OBVIOUS
    <3>2. in.benefactor \in Address
      BY MintingAssumption DEF Order
    <3> QED
      BY <1>1, <3>1, <3>2
  <2>2. Slot(m) \in Slots
    BY <2>1, NoncePlace
  <2>3. CASE c = b /\ Slot(m) = Slot(n)
    <3>1. orderBitmaps'[c][Slot(m)] = orderBitmaps[c][Slot(m)] \cup {Bit(n)}
      BY <1>1, <1>2, <1>3, <2>3 DEF BitmapTypeOK
    <3>2. Bit(m) = Bit(n) => m = n
      BY <1>1, <1>2, <2>1, <2>3, NonceApart
    <3> QED
      BY <2>3, <3>1, <3>2
  <2>4. CASE ~(c = b /\ Slot(m) = Slot(n))
    <3>1. orderBitmaps'[c][Slot(m)] = orderBitmaps[c][Slot(m)]
      BY <1>1, <1>2, <1>3, <2>1, <2>2, <2>4 DEF BitmapTypeOK
    <3>2. <<c, m>> # <<b, n>>
      BY <2>4
    <3> QED
      BY <3>1, <3>2
  <2> QED
    BY <2>3, <2>4
<1>7. Executed' = Executed \cup {<<b, n>>}
  BY <1>4, <1>6 DEF Executed, OrderId
<1> QED
  BY <1>4, <1>5, <1>7

-----------------------------------------------------------------------------
(* Steps: what each does to the admin role, the token and the orders. *)

\* An order, whichever way it is paid: a fresh nonce, and avUSD issued or burned.
LEMMA OrderEffect ==
    ASSUME MintingInv, NEW order \in OrderInput,
           DeduplicateOrder(order.benefactor, order.nonce),
           order.avusd_amount # 0, UNCHANGED accessVars,
           \/ AvUSDMint(Minting, order.beneficiary, order.avusd_amount)
           \/ AvUSDBurnFrom(Minting, order.benefactor, order.avusd_amount)
    PROVE  /\ MintingInv' /\ UNCHANGED <<accessVars, ownershipVars>>
           /\ Orders!Execute(<<order.benefactor, order.nonce>>)
           /\ <<order.benefactor, order.nonce>> \in OrderId
<1>1. /\ order.benefactor \in Address /\ order.beneficiary \in Address
      /\ order.avusd_amount \in Nat /\ Minting \in Address
  BY MintingAssumption DEF Order
<1>2. /\ CoinInv' /\ UNCHANGED ownershipVars
      /\ avUSDSupply' \in Nat \ {avUSDSupply}
      /\ avUSDSupply' > avUSDSupply => minter = Minting
  <2>1. CoinInv /\ avUSDSupply \in Nat
    BY DEF MintingInv, AvUSDInv, CoinInv, CoinTypeOK
  <2>2. CASE AvUSDMint(Minting, order.beneficiary, order.avusd_amount)
    <3>1. minter = Minting
      BY <2>2 DEF AvUSDMint
    <3> QED
      BY <1>1, <2>1, <2>2, <3>1, MintKeeps
  <2>3. CASE AvUSDBurnFrom(Minting, order.benefactor, order.avusd_amount)
    BY <1>1, <2>1, <2>3, BurnKeeps
  <2> QED
    BY <2>2, <2>3
<1>3. AvUSDInv'
  BY <1>2, OwnershipFrame DEF MintingInv, AvUSDInv
<1>4. AccessInv'
  BY AccessNextInv DEF MintingInv
<1>5. LET id == <<order.benefactor, order.nonce>>
      IN  /\ BitmapTypeOK' /\ id \in OrderId /\ id \notin Executed
          /\ Executed' = Executed \cup {id}
  BY DeduplicateExecutes DEF MintingInv
<1> QED
  BY <1>2, <1>3, <1>4, <1>5 DEF MintingInv, Orders!Execute, ownershipVars

LEMMA OrderStep ==
    ASSUME MintingInv, NEW sender \in Caller, NEW order \in OrderInput,
           NEW signature \in SignatureInput, OrderCall(sender, order, signature)
    PROVE  /\ MintingInv' /\ UNCHANGED <<accessVars, ownershipVars>>
           /\ Orders!Execute(<<order.benefactor, order.nonce>>)
           /\ <<order.benefactor, order.nonce>> \in OrderId
<1>1. /\ DeduplicateOrder(order.benefactor, order.nonce)
      /\ order.avusd_amount # 0 /\ UNCHANGED accessVars
      /\ \/ AvUSDMint(Minting, order.beneficiary, order.avusd_amount)
         \/ AvUSDBurnFrom(Minting, order.benefactor, order.avusd_amount)
  BY DEF OrderCall, Mint, Redeem, VerifyOrder
<1> QED
  BY <1>1, OrderEffect

\* Steps that leave the bitmaps, and raise the supply only while another account is
\* the minter, happen elsewhere than in the orders.
LEMMA OtherStepIsElsewhere ==
    ASSUME UNCHANGED orderBitmaps, avUSDSupply' \in Nat,
           avUSDSupply' > avUSDSupply => minter # Minting
    PROVE  Orders!Elsewhere
BY DEF Orders!Elsewhere, Executed, OrderId

\* Calls of access control, the gatekeeper's removals among them, keep the two-step
\* handover of the admin role.
LEMMA AccessStep ==
    ASSUME AccessInv, NEW sender \in Caller,
           AccessCall(sender) \/ RemovalCall(sender) \/ UNCHANGED accessVars
    PROVE  AccessInv' /\ [Handover!Next]_(Handover!vars)
<1>1. CASE AccessCall(sender) \/ UNCHANGED accessVars
  <2>1. [AccessNext]_accessVars
    BY <1>1 DEF AccessCall, AccessNext
  <2> QED
    BY <2>1, AccessNextInv, AccessNextHandover
<1>2. CASE RemovalCall(sender)
  <2>1. PICK in \in RoleInput : RemoveRole(sender, in[1], in[2])
    BY <1>2 DEF RemovalCall
  <2>2. /\ in[1] \in Role /\ in[2] \in Address /\ in[1] # DEFAULT_ADMIN_ROLE
        /\ RevokeRoleInternal(in[1], in[2])
    BY <2>1, AccessAssumption, AccountsAssumption, MintingAssumption DEF RemoveRole
  <2>3. /\ AccessInv' /\ members'[DEFAULT_ADMIN_ROLE] = members[DEFAULT_ADMIN_ROLE]
        /\ UNCHANGED pendingDefaultAdmin
    BY <2>2, OrdinaryRoleInv
  <2> QED
    BY <2>3 DEF Handover!vars
<1> QED
  BY <1>1, <1>2

\* The calls that touch neither roles, nor lists, nor orders, nor the token.
DelegationOrLimitCall(sender) ==
    \/ \E in \in DelegationInput :
          \/ SetDelegatedSigner(sender, in[2])
          \/ ConfirmDelegatedSigner(sender, in[2])
          \/ RemoveDelegatedSigner(sender, in[2])
    \/ LimitCall(sender)
    \/ DisableMintRedeem(sender)

\* What every step but an order is: to the token a call of its own, a transfer
\* or nothing, to access control a call or nothing, to the bitmaps nothing.
LEMMA OtherStep ==
    ASSUME MintingInv, NEW sender \in Caller,
           \/ DelegationOrLimitCall(sender)
           \/ ListCall(sender) \/ RemovalCall(sender)
           \/ AccessCall(sender) \/ TokenCall(sender)
    PROVE  /\ MintingInv' /\ Orders!Elsewhere
           /\ [Handover!Next]_(Handover!vars)
           /\ [TokenHandover!Next]_(TokenHandover!vars)
<1>1. UNCHANGED orderBitmaps
  BY DEF DelegationOrLimitCall, SetDelegatedSigner, ConfirmDelegatedSigner,
         RemoveDelegatedSigner, LimitCall, SetMaxMintPerBlock, SetMaxRedeemPerBlock,
         SetStablesDeltaLimit, DisableMintRedeem, ListCall, AddSupportedAsset,
         RemoveSupportedAsset, AddCustodianAddress, RemoveCustodianAddress,
         TransferToCustody, RemovalCall, RemoveRole, AccessCall, TokenCall, mintingVars
<1>2. AccessCall(sender) \/ RemovalCall(sender) \/ UNCHANGED accessVars
  BY DEF DelegationOrLimitCall, SetDelegatedSigner, ConfirmDelegatedSigner,
         RemoveDelegatedSigner, LimitCall, SetMaxMintPerBlock, SetMaxRedeemPerBlock,
         SetStablesDeltaLimit, DisableMintRedeem, ListCall, AddSupportedAsset,
         RemoveSupportedAsset, AddCustodianAddress, RemoveCustodianAddress,
         TransferToCustody, TokenCall
<1>3. \/ AvUSDCall(sender)
      \/ MinterCall(sender)
      \/ UNCHANGED avUSDVars
      \/ \E wallet \in CustodianInput, in \in CustodyInput :
            AvUSDTransfer(Minting, wallet, in[2])
  BY DEF DelegationOrLimitCall, SetDelegatedSigner, ConfirmDelegatedSigner,
         RemoveDelegatedSigner, LimitCall, SetMaxMintPerBlock, SetMaxRedeemPerBlock,
         SetStablesDeltaLimit, DisableMintRedeem, ListCall, AddSupportedAsset,
         RemoveSupportedAsset, AddCustodianAddress, RemoveCustodianAddress,
         TransferToCustody, RemovalCall, RemoveRole, AccessCall, TokenCall
<1>4. /\ AvUSDInv /\ AccessInv /\ BitmapTypeOK /\ CoinInv /\ OwnershipTypeOK
      /\ avUSDSupply \in Nat
  BY DEF MintingInv, AvUSDInv, CoinInv, CoinTypeOK
<1>5. /\ AvUSDInv' /\ avUSDSupply' \in Nat
      /\ avUSDSupply' > avUSDSupply => minter # Minting
      /\ [TokenHandover!Next]_(TokenHandover!vars)
  <2>1. CASE AvUSDCall(sender)
    BY <1>4, <2>1, AvUSDCallKeeps, AvUSDCallHandover
  <2>4. CASE MinterCall(sender)
    <3>1. /\ AvUSDInv' /\ avUSDSupply' \in Nat /\ sender = minter
          /\ UNCHANGED ownershipVars
      BY <1>4, <2>4, MinterCallKeeps
    <3> QED
      BY <3>1, MintingAssumption DEF ownershipVars, TokenHandover!vars
  <2>2. CASE UNCHANGED avUSDVars
    <3>1. AvUSDInv'
      BY <1>4, <2>2, CoinFrame, OwnershipFrame DEF AvUSDInv, avUSDVars
    <3> QED
      BY <1>4, <2>2, <3>1
         DEF avUSDVars, coinVars, ownershipVars, CoinInv, CoinTypeOK, TokenHandover!vars
  <2>3. ASSUME NEW wallet \in CustodianInput, NEW in \in CustodyInput,
               AvUSDTransfer(Minting, wallet, in[2])
        PROVE  /\ AvUSDInv' /\ avUSDSupply' = avUSDSupply
               /\ [TokenHandover!Next]_(TokenHandover!vars)
    <3>1. wallet \in Address /\ Minting \in Address /\ in[2] \in Nat
      BY MintingAssumption
    <3>2. CoinInv' /\ UNCHANGED <<avUSDSupply, ownershipVars>>
      BY <1>4, <2>3, <3>1, TransferKeeps
    <3>3. AvUSDInv'
      BY <1>4, <3>2, OwnershipFrame DEF AvUSDInv
    <3> QED
      BY <1>4, <3>2, <3>3 DEF ownershipVars, CoinInv, CoinTypeOK, TokenHandover!vars
  <2> QED
    BY <1>3, <1>4, <2>1, <2>2, <2>3, <2>4
<1>6. AccessInv' /\ [Handover!Next]_(Handover!vars)
  BY <1>2, <1>4, AccessStep
<1>7. BitmapTypeOK' /\ Orders!Elsewhere
  BY <1>1, <1>4, <1>5, OtherStepIsElsewhere DEF BitmapTypeOK
<1> QED
  BY <1>5, <1>6, <1>7 DEF MintingInv

LEMMA MintingInitial ==
    ASSUME MintingInit
    PROVE  MintingInv /\ Orders!Init /\ Handover!Init /\ TokenHandover!Init
<1>1. AvUSDInit /\ orderBitmaps = [b \in Address |-> [s \in Slots |-> {}]]
  BY DEF MintingInit, Slots
<1>2. AvUSDInv /\ TokenHandover!Init /\ avUSDSupply = 0 /\ minter # Minting
  BY <1>1, AvUSDInitial, AvUSDInitialHandover, MintingAssumption DEF AvUSDInit
<1>3. AccessInv /\ Handover!Init
  <2>1. PICK admin \in Address \ {Zero} : InitialMembers[DEFAULT_ADMIN_ROLE] = {admin}
    BY MintingAssumption
  <2>2. /\ members = InitialMembers /\ currentDefaultAdmin = admin
        /\ pendingDefaultAdmin = Zero /\ InitialMembers \in [Role -> SUBSET Address]
    BY <2>1, MintingAssumption DEF MintingInit
  <2> QED
    BY <2>1, <2>2, AccessAssumption, AccountsAssumption
       DEF AccessInv, AccessTypeOK, OwnerIsTheAdmin, PendingIsNotOwner, owner,
           Handover!Init
<1>4. BitmapTypeOK
  BY <1>1 DEF BitmapTypeOK
<1>5. Executed = {}
  <2> SUFFICES ASSUME NEW id \in OrderId
               PROVE  Bit(id[2]) \notin orderBitmaps[id[1]][Slot(id[2])]
    BY DEF Executed
  <2>1. PICK order \in OrderInput, n \in 1 .. UINT64 - 1 : id = <<order.benefactor, n>>
    BY DEF OrderId
  <2>2. order.benefactor \in Address /\ UINT64 \in Nat
    BY MintingAssumption DEF Order
  <2>3. Slot(n) \in Slots
    BY <2>1, <2>2, NoncePlace
  <2> QED
    BY <1>1, <2>1, <2>2, <2>3
<1> QED
  BY <1>2, <1>3, <1>4, <1>5 DEF MintingInv, Orders!Init

\* Every step keeps the invariant and is a step, or a stutter, of the orders, of
\* the handover of the admin role and of the handover of the token.
LEMMA MintingStep ==
    ASSUME MintingInv, [MintingNext]_allVars
    PROVE  /\ MintingInv' /\ [Orders!Next]_(Orders!vars)
           /\ [Handover!Next]_(Handover!vars)
           /\ [TokenHandover!Next]_(TokenHandover!vars)
<1> DEFINE Goal == /\ MintingInv' /\ [Orders!Next]_(Orders!vars)
                   /\ [Handover!Next]_(Handover!vars)
                   /\ [TokenHandover!Next]_(TokenHandover!vars)
<1> SUFFICES Goal
  OBVIOUS
<1>1. ASSUME UNCHANGED <<accessVars, avUSDVars, orderBitmaps>>
      PROVE  Goal
  <2>1. AvUSDInv' /\ AccessInv' /\ BitmapTypeOK'
    BY <1>1, CoinFrame, OwnershipFrame, AccessNextInv
       DEF MintingInv, AvUSDInv, avUSDVars, BitmapTypeOK
  <2>2. UNCHANGED Orders!vars /\ UNCHANGED Handover!vars /\ UNCHANGED TokenHandover!vars
    BY <1>1 DEF Orders!vars, Handover!vars, TokenHandover!vars, Executed, OrderId,
                accessVars, avUSDVars, coinVars, ownershipVars
  <2> QED
    BY <2>1, <2>2 DEF MintingInv
<1>2. ASSUME NEW sender \in Caller, NEW order \in OrderInput,
             NEW signature \in SignatureInput, OrderCall(sender, order, signature)
      PROVE  Goal
  <2>1. /\ MintingInv' /\ UNCHANGED <<accessVars, ownershipVars>>
        /\ Orders!Execute(<<order.benefactor, order.nonce>>)
        /\ <<order.benefactor, order.nonce>> \in OrderId
    BY <1>2, OrderStep
  <2>2. UNCHANGED Handover!vars /\ UNCHANGED TokenHandover!vars
    BY <2>1 DEF accessVars, ownershipVars, Handover!vars, TokenHandover!vars
  <2>3. Orders!Next
    BY <2>1 DEF Orders!Next
  <2> QED
    BY <2>1, <2>2, <2>3
<1>3. ASSUME NEW sender \in Caller,
             \/ DelegationOrLimitCall(sender)
             \/ ListCall(sender) \/ RemovalCall(sender)
             \/ AccessCall(sender) \/ TokenCall(sender)
      PROVE  Goal
  BY <1>3, OtherStep DEF Orders!Next
<1>4. CASE UNCHANGED allVars
  BY <1>1, <1>4 DEF allVars, mintingVars
<1>5. CASE \E in \in CollateralInput : SendCollateral(in[1], in[2], in[3], in[4])
  BY <1>1, <1>5 DEF SendCollateral
<1>6. CASE NewBlock
  BY <1>1, <1>6 DEF NewBlock
<1> HIDE DEF Goal
<1>7. ASSUME NEW sender \in Caller,
             \E in \in DelegationInput :
                /\ in[1] = sender
                /\ \/ SetDelegatedSigner(sender, in[2])
                   \/ ConfirmDelegatedSigner(sender, in[2])
                   \/ RemoveDelegatedSigner(sender, in[2])
      PROVE  Goal
  BY <1>3, <1>7 DEF DelegationOrLimitCall
<1>8. ASSUME NEW sender \in Caller, LimitCall(sender) \/ DisableMintRedeem(sender)
      PROVE  Goal
  BY <1>3, <1>8 DEF DelegationOrLimitCall
<1>9. CASE MintingNext
  BY <1>2, <1>3, <1>5, <1>6, <1>7, <1>8, <1>9, Zenon DEF MintingNext
<1> QED
  BY <1>4, <1>9

-----------------------------------------------------------------------------

\* The inductive invariant: the invariants of access control and token under
\* composition, and the shape of the bitmaps.
THEOREM MintingInvariant == MintingSpec => []MintingInv
<1>1. MintingInit => MintingInv
  BY MintingInitial
<1>2. MintingInv /\ [MintingNext]_allVars => MintingInv'
  BY MintingStep
<1> QED
  BY <1>1, <1>2, PTL DEF MintingSpec

\* Whatever minters, redeemers and holders do, the supply of avUSD is the sum of
\* the balances.
THEOREM MintingSupply == MintingSpec => []AvUSDSupplyIsBalances
<1>1. MintingInv => AvUSDSupplyIsBalances
  BY DEF MintingInv, AvUSDInv, CoinInv
<1> QED
  BY <1>1, MintingInvariant, PTL

\* A signed order executes at most once, whatever nonces are used in whatever
\* order, and while the contract is the minter the supply only falls between orders.
THEOREM OrdersExecuteOnce == MintingSpec => ImplementsOrderExecution
<1>1. MintingInit => Orders!Init
  BY MintingInitial
<1>2. MintingInv /\ [MintingNext]_allVars => [Orders!Next]_(Orders!vars)
  BY MintingStep
<1> QED
  BY <1>1, <1>2, MintingInvariant, PTL
     DEF MintingSpec, ImplementsOrderExecution, Orders!Spec

\* No gatekeeper's removal and no order disturbs the handover of the admin role.
THEOREM MintingHandover == MintingSpec => HandoverPromise
<1>1. MintingInit => Handover!Init
  BY MintingInitial
<1>2. MintingInv /\ [MintingNext]_allVars => [Handover!Next]_(Handover!vars)
  BY MintingStep
<1> QED
  BY <1>1, <1>2, MintingInvariant, PTL DEF MintingSpec, HandoverPromise, Handover!Spec

\* Nothing the minting contract does with the token disturbs its ownership.
THEOREM MintingOwnership == MintingSpec => OwnershipPromise
<1>1. MintingInit => TokenHandover!Init
  BY MintingInitial
<1>2. MintingInv /\ [MintingNext]_allVars => [TokenHandover!Next]_(TokenHandover!vars)
  BY MintingStep
<1> QED
  BY <1>1, <1>2, MintingInvariant, PTL
     DEF MintingSpec, OwnershipPromise, TokenHandover!Spec

-----------------------------------------------------------------------------
(* Amounts, prices and routes. *)

LEMMA NormalizedNatural ==
    ASSUME NEW amount \in Nat, NEW asset \in DOMAIN Decimals
    PROVE  Normalized(amount, asset) \in Nat
<1>1. AVUSD_DECIMALS \in Nat /\ Decimals[asset] \in Nat
  BY MintingAssumption
<1>2. CASE AVUSD_DECIMALS > Decimals[asset]
  <2>1. AVUSD_DECIMALS - Decimals[asset] \in Nat
    BY <1>1, <1>2
  <2>2. Power(10, AVUSD_DECIMALS - Decimals[asset]) \in Nat
    BY <2>1, PowerPositive
  <2> QED
    BY <1>2, <2>2 DEF Normalized
<1>3. CASE ~ AVUSD_DECIMALS > Decimals[asset]
  <2> DEFINE power == Power(10, Decimals[asset] - AVUSD_DECIMALS)
  <2>1. Decimals[asset] - AVUSD_DECIMALS \in Nat
    BY <1>1, <1>3
  <2>2. power \in Nat /\ power > 0
    BY <2>1, PowerPositive
  <2> HIDE DEF power
  <2>3. amount \div power \in Nat
    BY <2>2, DivBounds
  <2> QED
    BY <1>3, <2>3 DEF Normalized, power
<1> QED
  BY <1>2, <1>3

\* A difference that passes the check in basis points is below the next one.
LEMMA WithinLimit ==
    ASSUME NEW beyond \in Int, NEW avusd \in Nat \ {0}, NEW limit \in Nat,
           beyond > 0 => InBps(beyond, avusd) <= limit
    PROVE  beyond * STABLES_RATIO_MULTIPLIER < (limit + 1) * avusd
<1>1. STABLES_RATIO_MULTIPLIER \in Nat /\ STABLES_RATIO_MULTIPLIER > 0
  BY MintingAssumption
<1>2. CASE beyond > 0
  <2> DEFINE n == beyond * STABLES_RATIO_MULTIPLIER
             q == n \div avusd
  <2>1. n \in Nat /\ avusd \in Nat /\ avusd > 0
    BY <1>1, <1>2
  <2>2. q <= limit
    BY <1>2 DEF InBps
  <2> HIDE DEF n
  <2>3. q \in Nat /\ n < avusd * q + avusd
    BY <2>1, DivBounds
  <2> HIDE DEF q
  <2>4. avusd * q <= avusd * limit
    BY <2>1, <2>2, <2>3
  <2>5. n < avusd * limit + avusd
    BY <2>1, <2>3, <2>4
  <2>6. avusd * limit + avusd = (limit + 1) * avusd
    BY <2>1
  <2> QED
    BY <2>5, <2>6 DEF n
<1>3. CASE ~ beyond > 0
  <2>1. beyond * STABLES_RATIO_MULTIPLIER <= 0
    BY <1>1, <1>3
  <2>2. (limit + 1) * avusd > 0
    OBVIOUS
  <2>3. beyond * STABLES_RATIO_MULTIPLIER \in Int /\ (limit + 1) * avusd \in Int
    BY <1>1
  <2> QED
    BY <2>1, <2>2, <2>3
<1> QED
  BY <1>2, <1>3

LEMMA OrderFields ==
    ASSUME NEW order \in OrderInput
    PROVE  /\ order.benefactor \in Address /\ order.beneficiary \in Address
           /\ order.collateral_asset \in Address /\ order.nonce \in Nat
           /\ order.collateral_amount \in Nat /\ order.avusd_amount \in Nat
BY MintingAssumption DEF Order

\* The parts of a verified route are amounts, and none of the amount is left over.
LEMMA PartsAddUp ==
    ASSUME NEW amount \in Nat, NEW route \in RouteInput, VerifyRoute(route)
    PROVE  LET n == Len(route.addresses)
           IN  /\ n \in Nat
               /\ route.addresses \in [1 .. n -> Address]
               /\ \A i \in 1 .. n : route.addresses[i] \in custodianAddresses
               /\ Parts(amount, route.ratios) \in [1 .. n -> Nat]
               /\ Total(Parts(amount, route.ratios)) = amount
<1> DEFINE ratios == route.ratios
           n == Len(ratios)
           k == n - 1
           whole == ROUTE_REQUIRED_RATIO
           first == [i \in 1 .. k |-> ratios[i]]
           rounded == [i \in 1 .. k |-> (amount * ratios[i]) \div whole]
           parts == Parts(amount, ratios)
<1>1. /\ n \in Nat /\ n # 0 /\ ratios \in [1 .. n -> Nat]
      /\ Len(route.addresses) = n /\ route.addresses \in [1 .. n -> Address]
      /\ \A i \in 1 .. n : route.addresses[i] \in custodianAddresses
      /\ Total(ratios) = whole
  <2>1. ratios \in Seq(Nat) /\ route.addresses \in Seq(Address)
    BY MintingAssumption
  <2>2. Len(route.addresses) = n /\ n # 0
    BY DEF VerifyRoute
  <2>3. n \in Nat /\ ratios \in [1 .. n -> Nat]
    BY <2>1
  <2>4. route.addresses \in [1 .. n -> Address]
    BY <2>1, <2>2
  <2> QED
    BY <2>2, <2>3, <2>4 DEF VerifyRoute
<1>2. whole \in Nat \ {0}
  BY MintingAssumption
<1> HIDE DEF ratios, n, whole
<1>3. k \in Nat /\ k + 1 = n
  BY <1>1
<1>4. first \in [1 .. k -> Nat] /\ \A i \in 1 .. k : first[i] = ratios[i]
  BY <1>1
<1>5. Total(first) \in Nat /\ whole = Total(first) + ratios[n] /\ ratios[n] \in Nat
  <2>1. ratios \in [1 .. k + 1 -> Nat]
    BY <1>1, <1>3
  <2>2. /\ Total([i \in 1 .. k |-> ratios[i]]) \in Nat
        /\ Total(ratios) = Total([i \in 1 .. k |-> ratios[i]]) + ratios[k + 1]
    BY <1>3, <2>1, TotalExtend
  <2> QED
    BY <1>1, <1>3, <2>2
<1>6. rounded \in [1 .. k -> Nat] /\ WithinShares(rounded, amount, whole, k, first)
  <2>1. ASSUME NEW i \in 1 .. k
        PROVE  /\ (amount * ratios[i]) \div whole \in Nat
               /\ whole * ((amount * ratios[i]) \div whole) <= amount * ratios[i]
    <3> DEFINE share == amount * ratios[i]
    <3>1. share \in Nat /\ whole \in Nat /\ whole > 0
      <4>1. ratios[i] \in Nat
        BY <1>4
      <4> QED
        BY <1>2, <4>1
    <3> HIDE DEF share
    <3>2. share \div whole \in Nat /\ whole * (share \div whole) <= share
      BY <3>1, DivBounds
    <3> QED
      BY <3>2 DEF share
  <2>2. \A i \in 1 .. k : rounded[i] = (amount * ratios[i]) \div whole
    OBVIOUS
  <2>3. rounded = [i \in 1 .. k |-> rounded[i]]
    OBVIOUS
  <2> HIDE DEF rounded
  <2>4. \A i \in 1 .. k : rounded[i] \in Nat /\ whole * rounded[i] <= amount * first[i]
    BY <1>4, <2>1, <2>2
  <2>5. rounded \in [1 .. k -> Nat]
    BY <2>3, <2>4
  <2> QED
    BY <2>4, <2>5 DEF WithinShares
<1> HIDE DEF first, k, rounded
<1>7. Total(rounded) \in Nat /\ whole * Total(rounded) <= amount * Total(first)
  BY <1>2, <1>3, <1>4, <1>6, SharesSum
<1>8. Total(rounded) <= amount
  <2>1. amount * Total(first) <= amount * whole
    BY <1>2, <1>5
  <2>2. whole * Total(rounded) <= whole * amount
    BY <1>2, <1>5, <1>7, <2>1
  <2> QED
    BY <1>2, <1>7, <2>2
<1>9. parts = [i \in 1 .. n |-> IF i < n THEN rounded[i] ELSE amount - Total(rounded)]
  BY DEF Parts, rounded, n, k, whole
<1>10. \A i \in 1 .. n : i < n => i \in 1 .. k
  BY <1>1, <1>3
<1>11. parts \in [1 .. n -> Nat]
  BY <1>6, <1>7, <1>8, <1>9, <1>10
<1>12. /\ parts[n] = amount - Total(rounded)
       /\ [i \in 1 .. k |-> parts[i]] = rounded
  <2>1. parts[n] = amount - Total(rounded)
    BY <1>1, <1>9
  <2>2. \A i \in 1 .. k : i \in 1 .. n /\ i < n
    BY <1>1, <1>3
  <2>3. \A i \in 1 .. k : parts[i] = rounded[i]
    BY <1>9, <2>2
  <2>4. rounded = [i \in 1 .. k |-> rounded[i]]
    BY <1>6
  <2> QED
    BY <2>1, <2>3, <2>4
<1> HIDE DEF parts
<1>13. Total(parts) = amount
  <2>1. parts \in [1 .. k + 1 -> Nat]
    BY <1>3, <1>11
  <2>2. Total(parts) = Total([i \in 1 .. k |-> parts[i]]) + parts[k + 1]
    BY <1>3, <2>1, TotalExtend
  <2> QED
    BY <1>3, <1>7, <1>8, <1>12, <2>2
<1> QED
  BY <1>1, <1>11, <1>13 DEF parts, ratios

-----------------------------------------------------------------------------
(* The state of the minting contract, and of the collateral. *)

SettingsTypeOK ==
    /\ supportedAssets \subseteq Asset
    /\ custodianAddresses \subseteq Address \ {Zero, AvUSDToken}
    /\ stablesDeltaLimit \in Nat /\ maxMintPerBlock \in Nat /\ maxRedeemPerBlock \in Nat
    /\ delegatedSigner \in [Address -> [Address -> {"REJECTED", "PENDING", "ACCEPTED"}]]

CountersTypeOK ==
    /\ mintedPerBlock \in [0 .. MaxBlock -> Nat]
    /\ redeemedPerBlock \in [0 .. MaxBlock -> Nat]
    /\ blockNumber \in 0 .. MaxBlock

CollateralTypeOK == collateral \in [Asset -> [Address -> Nat]]

\* Only who sends transactions has delegated anything: the minting contract has not.
OnlyCallersDelegate ==
    \A d \in Address, b \in Address \ Caller : delegatedSigner[d][b] = "REJECTED"

SettingsInv == SettingsTypeOK /\ OnlyCallersDelegate

LEMMA MoveCollateralEffect ==
    ASSUME CollateralTypeOK, NEW asset \in Asset, NEW from \in Address, NEW to \in Address,
           NEW amount \in Nat, MoveCollateral(asset, from, to, amount)
    PROVE  /\ CollateralTypeOK'
           /\ \A other \in Asset \ {asset} : collateral'[other] = collateral[other]
           /\ \A a \in Address \ {from} : collateral'[asset][a] >= collateral[asset][a]
           /\ collateral[asset][from] - collateral'[asset][from] <= amount
           /\ from # to => collateral'[asset][to] = collateral[asset][to] + amount
           /\ from = to => collateral'[asset][to] = collateral[asset][to]
<1> DEFINE table == collateral[asset]
           moved == Move(table, from, to, amount)
<1>1. table \in [Address -> Nat] /\ IsFiniteSet(Address)
  BY AvUSDAssumption, AccountsAssumption DEF CollateralTypeOK
<1>2. table[from] >= amount /\ collateral' = [collateral EXCEPT ![asset] = moved]
  BY DEF MoveCollateral
<1> HIDE DEF table
<1>3. /\ moved \in [Address -> Nat]
      /\ \A a \in Address \ {from, to} : moved[a] = table[a]
      /\ from # to => moved[from] = table[from] - amount /\ moved[to] = table[to] + amount
      /\ from = to => moved[to] = table[to]
  BY <1>1, <1>2, MoveEffect
<1> HIDE DEF moved
<1>4. /\ CollateralTypeOK' /\ collateral'[asset] = moved
      /\ \A other \in Asset \ {asset} : collateral'[other] = collateral[other]
  BY <1>2, <1>3 DEF CollateralTypeOK
<1>5. table[from] \in Nat /\ table[to] \in Nat
  BY <1>1
<1>6. ASSUME NEW a \in Address \ {from}
      PROVE  moved[a] >= table[a]
  <2>1. table[a] \in Nat
    BY <1>1
  <2>2. moved[a] = table[a] \/ moved[a] = table[a] + amount
    BY <1>3
  <2> QED
    BY <2>1, <2>2
<1> QED
  BY <1>3, <1>4, <1>5, <1>6 DEF table

\* What a mint pays along its route.
LEMMA CollateralPaid ==
    ASSUME SettingsTypeOK, CollateralTypeOK, NEW order \in OrderInput,
           NEW route \in RouteInput, VerifyRoute(route), TransferCollateral(order, route)
    PROVE  LET asset == order.collateral_asset
           IN  /\ asset \in supportedAssets \ {NATIVE_TOKEN}
               /\ CollateralTypeOK'
               /\ \A other \in Asset \ {asset} : collateral'[other] = collateral[other]
               /\ PaidOut(Address, custodianAddresses, order.benefactor,
                          collateral[asset], collateral'[asset], order.collateral_amount)
<1> DEFINE asset == order.collateral_asset
           from  == order.benefactor
           amount == order.collateral_amount
           table == collateral[asset]
           to    == route.addresses
           parts == Parts(amount, route.ratios)
           after == CHOOSE f : f = [i \in 0 .. Len(parts) |->
                                       IF i = 0 THEN table
                                       ELSE Move(f[i - 1], from, to[i], parts[i])]
<1>1. /\ asset \in supportedAssets \ {NATIVE_TOKEN}
      /\ \A i \in 1 .. Len(parts) : after[i - 1][from] >= parts[i]
      /\ collateral' = [collateral EXCEPT ![asset] = after[Len(parts)]]
  BY Zenon DEF TransferCollateral
<1>2. from \in Address /\ amount \in Nat /\ IsFiniteSet(Address)
  BY OrderFields, AvUSDAssumption, AccountsAssumption
<1>3. asset \in Asset /\ table \in [Address -> Nat]
  BY <1>1 DEF SettingsTypeOK, CollateralTypeOK
<1> DEFINE n == Len(to)
<1>4. /\ n \in Nat /\ to \in [1 .. n -> Address]
      /\ \A i \in 1 .. n : to[i] \in custodianAddresses
      /\ parts \in [1 .. n -> Nat] /\ Total(parts) = amount
  BY <1>2, PartsAddUp
<1>5. Len(parts) = n
  <2> HIDE DEF n, parts
  <2>1. parts \in Seq(Nat) /\ DOMAIN parts = 1 .. n
    BY <1>4
  <2>2. DOMAIN parts = 1 .. Len(parts) /\ Len(parts) \in Nat
    BY <2>1
  <2> QED
    BY <1>4, <2>1, <2>2
<1>6. custodianAddresses \in SUBSET Address
  BY DEF SettingsTypeOK
<1> HIDE DEF asset, from, amount, table, to, parts, n
<1>7. Paying(after, n, table, from, to, parts)
  <2>1. \E f : Paying(f, n, table, from, to, parts)
    BY <1>2, <1>3, <1>4, PayingDefined
  <2> QED
    BY <1>5, <2>1, Zenon DEF Paying
<1> HIDE DEF after
<1>8. PaidOut(Address, custodianAddresses, from, table, after[n], amount)
  <2>1. PaidOut(Address, custodianAddresses, from, table, after[n], Total(parts))
    BY <1>1, <1>2, <1>3, <1>4, <1>5, <1>6, <1>7, PaidAlong
  <2> QED
    BY <1>4, <2>1
<1>9. after[n] \in [Address -> Nat]
  BY <1>8 DEF PaidOut
<1>10. /\ CollateralTypeOK' /\ collateral'[asset] = after[n]
       /\ \A other \in Asset \ {asset} : collateral'[other] = collateral[other]
  BY <1>1, <1>3, <1>5, <1>9 DEF CollateralTypeOK
<1> QED
  BY <1>1, <1>8, <1>10 DEF asset, from, amount, table

-----------------------------------------------------------------------------
(* What each step does to settings, counters and collateral. *)

\* Every call but the execution of an order.
OtherCall(sender) ==
    \/ DelegationOrLimitCall(sender)
    \/ ListCall(sender) \/ RemovalCall(sender)
    \/ AccessCall(sender) \/ TokenCall(sender)

LEMMA MintingKinds ==
    ASSUME [MintingNext]_allVars
    PROVE  \/ UNCHANGED allVars
           \/ \E sender \in Caller, order \in OrderInput, signature \in SignatureInput :
                 OrderCall(sender, order, signature)
           \/ \E sender \in Caller : OtherCall(sender)
           \/ \E in \in CollateralInput : SendCollateral(in[1], in[2], in[3], in[4])
           \/ NewBlock
BY Zenon DEF MintingNext, OtherCall, DelegationOrLimitCall

LEMMA DelegationTyped ==
    ASSUME SettingsInv, NEW d \in Address, NEW b \in Caller,
           NEW status \in {"REJECTED", "PENDING", "ACCEPTED"},
           delegatedSigner' = [delegatedSigner EXCEPT ![d][b] = status],
           UNCHANGED <<listVars, limitVars>>
    PROVE  SettingsInv'
<1>1. b \in Address
  BY AvUSDAssumption, AccountsAssumption
<1>2. delegatedSigner' \in [Address -> [Address -> {"REJECTED", "PENDING", "ACCEPTED"}]]
  BY <1>1 DEF SettingsInv, SettingsTypeOK
<1>3. ASSUME NEW e \in Address, NEW c \in Address \ Caller
      PROVE  delegatedSigner'[e][c] = "REJECTED"
  <2>1. c # b
    OBVIOUS
  <2>2. delegatedSigner'[e][c] = delegatedSigner[e][c]
    BY <1>1, <2>1 DEF SettingsInv, SettingsTypeOK
  <2> QED
    BY <2>2 DEF SettingsInv, OnlyCallersDelegate
<1> QED
  BY <1>2, <1>3 DEF SettingsInv, SettingsTypeOK, OnlyCallersDelegate, listVars, limitVars

LEMMA SettingsFrame ==
    ASSUME SettingsInv, UNCHANGED <<listVars, limitVars, delegatedSigner>>
    PROVE  SettingsInv'
BY DEF SettingsInv, SettingsTypeOK, OnlyCallersDelegate, listVars, limitVars

LEMMA OtherCallSettings ==
    ASSUME SettingsInv, NEW sender \in Caller, OtherCall(sender)
    PROVE  SettingsInv' /\ UNCHANGED <<counterVars, blockNumber>>
<1> DEFINE Goal == SettingsInv' /\ UNCHANGED <<counterVars, blockNumber>>
<1>1. CASE DelegationOrLimitCall(sender)
  <2>1. ASSUME NEW in \in DelegationInput,
               \/ SetDelegatedSigner(sender, in[2])
               \/ ConfirmDelegatedSigner(sender, in[2])
               \/ RemoveDelegatedSigner(sender, in[2])
        PROVE  Goal
    <3>1. in[2] \in Address /\ in[2] \in Address
      BY MintingAssumption
    <3>2. CASE SetDelegatedSigner(sender, in[2])
      BY <3>1, <3>2, DelegationTyped DEF SetDelegatedSigner
    <3>3. CASE RemoveDelegatedSigner(sender, in[2])
      BY <3>1, <3>3, DelegationTyped DEF RemoveDelegatedSigner
    <3>4. CASE ConfirmDelegatedSigner(sender, in[2])
      <4>1. sender \in Address /\ delegatedSigner[sender][in[2]] = "PENDING"
        BY <3>4, AvUSDAssumption, AccountsAssumption DEF ConfirmDelegatedSigner
      <4>2. in[2] \in Caller
        BY <3>1, <4>1 DEF SettingsInv, OnlyCallersDelegate
      <4> QED
        BY <3>4, <4>1, <4>2, DelegationTyped DEF ConfirmDelegatedSigner
    <3> QED
      BY <2>1, <3>2, <3>3, <3>4
  <2>2. CASE LimitCall(sender)
    BY <2>2, MintingAssumption
       DEF LimitCall, SetMaxMintPerBlock, SetMaxRedeemPerBlock, SetStablesDeltaLimit,
           SettingsInv, SettingsTypeOK, OnlyCallersDelegate, listVars, limitVars
  <2>3. CASE DisableMintRedeem(sender)
    BY <2>3 DEF DisableMintRedeem, SettingsInv, SettingsTypeOK, OnlyCallersDelegate, listVars
  <2> QED
    BY <1>1, <2>1, <2>2, <2>3 DEF DelegationOrLimitCall
<1>2. CASE ListCall(sender)
  <2>1. CASE \E asset \in AssetInput : \/ AddSupportedAsset(sender, asset)
                                       \/ RemoveSupportedAsset(sender, asset)
    BY <2>1, MintingAssumption
       DEF AddSupportedAsset, RemoveSupportedAsset,
           SettingsInv, SettingsTypeOK, OnlyCallersDelegate, limitVars
  <2>2. CASE \E custodian \in CustodianInput : \/ AddCustodianAddress(sender, custodian)
                                               \/ RemoveCustodianAddress(sender, custodian)
    BY <2>2, MintingAssumption
       DEF AddCustodianAddress, RemoveCustodianAddress,
           SettingsInv, SettingsTypeOK, OnlyCallersDelegate, limitVars
  <2>3. CASE \E wallet \in CustodianInput, in \in CustodyInput :
                TransferToCustody(sender, wallet, in[1], in[2])
    BY <2>3, SettingsFrame DEF TransferToCustody
  <2> QED
    BY <1>2, <2>1, <2>2, <2>3 DEF ListCall
<1>3. CASE RemovalCall(sender) \/ AccessCall(sender) \/ TokenCall(sender)
  <2>1. UNCHANGED mintingVars
    BY <1>3 DEF RemovalCall, RemoveRole, AccessCall, TokenCall
  <2> QED
    BY <2>1, SettingsFrame DEF mintingVars
<1> QED
  BY <1>1, <1>2, <1>3 DEF OtherCall

\* Of these calls only a transfer to custody touches the collateral.
LEMMA OtherCallCollateral ==
    ASSUME NEW sender \in Caller, OtherCall(sender)
    PROVE  \/ UNCHANGED collateral
           \/ \E wallet \in CustodianInput, in \in CustodyInput :
                 /\ wallet \in custodianAddresses /\ in[1] # AvUSDToken
                 /\ HasRole(COLLATERAL_MANAGER_ROLE, sender)
                 /\ MoveCollateral(in[1], Minting, wallet, in[2])
                 /\ UNCHANGED avUSDVars
BY DEF OtherCall, DelegationOrLimitCall, SetDelegatedSigner, ConfirmDelegatedSigner,
       RemoveDelegatedSigner, LimitCall, SetMaxMintPerBlock, SetMaxRedeemPerBlock,
       SetStablesDeltaLimit, DisableMintRedeem, ListCall, AddSupportedAsset,
       RemoveSupportedAsset, AddCustodianAddress, RemoveCustodianAddress,
       TransferToCustody, RemovalCall, RemoveRole, AccessCall, TokenCall, mintingVars

\* The counters, when an order is counted.
LEMMA CountersTyped ==
    ASSUME CountersTypeOK, NEW amount \in Nat, UNCHANGED blockNumber,
           BelowMaxMintPerBlock(amount) \/ BelowMaxRedeemPerBlock(amount)
    PROVE  CountersTypeOK'
<1>1. CASE BelowMaxMintPerBlock(amount)
  <2>1. mintedPerBlock[blockNumber] + amount \in Nat
    BY DEF CountersTypeOK
  <2> QED
    BY <1>1, <2>1 DEF CountersTypeOK, BelowMaxMintPerBlock
<1>2. CASE BelowMaxRedeemPerBlock(amount)
  <2>1. redeemedPerBlock[blockNumber] + amount \in Nat
    BY DEF CountersTypeOK
  <2> QED
    BY <1>2, <2>1 DEF CountersTypeOK, BelowMaxRedeemPerBlock
<1> QED
  BY <1>1, <1>2

\* Nobody signs for the minting contract.
LEMMA BenefactorSigns ==
    ASSUME SettingsInv, NEW order \in OrderInput, NEW signature \in SignatureInput,
           \/ signature.signer = order.benefactor
           \/ delegatedSigner[signature.signer][order.benefactor] = "ACCEPTED"
    PROVE  order.benefactor # Minting
<1>1. /\ signature.signer \in Address /\ signature.signer # Minting
      /\ Minting \in Address \ Caller
  BY MintingAssumption DEF Signature
<1>2. delegatedSigner[signature.signer][Minting] = "REJECTED"
  BY <1>1 DEF SettingsInv, OnlyCallersDelegate
<1> QED
  BY <1>1, <1>2

\* A redemption pays out of this contract.
LEMMA CollateralRedeemed ==
    ASSUME SettingsTypeOK, CollateralTypeOK, NEW order \in OrderInput,
           TransferToBeneficiary(order.beneficiary, order.collateral_asset,
                                 order.collateral_amount)
    PROVE  LET asset == order.collateral_asset
           IN  /\ asset \in Asset /\ asset \in supportedAssets \cup {NATIVE_TOKEN}
               /\ CollateralTypeOK'
               /\ \A other \in Asset \ {asset} : collateral'[other] = collateral[other]
               /\ \A a \in Address \ {Minting} : collateral'[asset][a] >= collateral[asset][a]
               /\ collateral[asset][Minting] - collateral'[asset][Minting]
                     \in {0, order.collateral_amount}
<1> DEFINE asset == order.collateral_asset
           to == order.beneficiary
           amount == order.collateral_amount
<1>1. asset \in Asset /\ asset \in supportedAssets \cup {NATIVE_TOKEN}
  BY MintingAssumption DEF TransferToBeneficiary, SettingsTypeOK
<1>2. to \in Address /\ amount \in Nat /\ Minting \in Address
  BY OrderFields, MintingAssumption
<1>3. MoveCollateral(asset, Minting, to, amount)
  BY DEF TransferToBeneficiary
<1> HIDE DEF asset, to, amount
<1>4. /\ CollateralTypeOK'
      /\ \A other \in Asset \ {asset} : collateral'[other] = collateral[other]
      /\ \A a \in Address \ {Minting} : collateral'[asset][a] >= collateral[asset][a]
      /\ Minting = to => collateral'[asset][to] = collateral[asset][to]
  BY <1>1, <1>2, <1>3, MoveCollateralEffect
<1>5. Minting # to => collateral'[asset][Minting] = collateral[asset][Minting] - amount
  <2> DEFINE table == collateral[asset]
  <2>1. table \in [Address -> Nat] /\ IsFiniteSet(Address) /\ table[Minting] >= amount
    BY <1>1, <1>3, AvUSDAssumption, AccountsAssumption DEF CollateralTypeOK, MoveCollateral
  <2>2. collateral'[asset] = Move(table, Minting, to, amount)
    BY <1>1, <1>3 DEF MoveCollateral, CollateralTypeOK
  <2> HIDE DEF table
  <2>3. Minting # to => Move(table, Minting, to, amount)[Minting] = table[Minting] - amount
    BY <1>2, <2>1, MoveEffect
  <2> QED
    BY <2>2, <2>3 DEF table
<1>6. collateral[asset][Minting] \in Nat
  BY <1>1, <1>2 DEF CollateralTypeOK
<1> QED
  BY <1>1, <1>2, <1>4, <1>5, <1>6 DEF asset, amount

LEMMA MintState ==
    ASSUME SettingsInv, CountersTypeOK, CollateralTypeOK, NEW sender, NEW order \in OrderInput,
           NEW route \in RouteInput, NEW signature, Mint(sender, order, route, signature)
    PROVE  SettingsInv' /\ CountersTypeOK' /\ CollateralTypeOK'
<1>1. order.avusd_amount \in Nat
  BY OrderFields
<1>2. SettingsInv'
  BY SettingsFrame DEF Mint
<1>3. CountersTypeOK'
  BY <1>1, CountersTyped DEF Mint
<1>4. CollateralTypeOK'
  BY CollateralPaid DEF Mint, SettingsInv
<1> QED
  BY <1>2, <1>3, <1>4

LEMMA RedeemState ==
    ASSUME SettingsInv, CountersTypeOK, CollateralTypeOK, NEW sender, NEW order \in OrderInput,
           NEW signature, Redeem(sender, order, signature)
    PROVE  SettingsInv' /\ CountersTypeOK' /\ CollateralTypeOK'
<1>1. order.avusd_amount \in Nat
  BY OrderFields
<1>2. SettingsInv'
  BY SettingsFrame DEF Redeem
<1>3. CountersTypeOK'
  BY <1>1, CountersTyped DEF Redeem
<1>4. CollateralTypeOK'
  BY CollateralRedeemed DEF Redeem, SettingsInv
<1> QED
  BY <1>2, <1>3, <1>4

LEMMA OtherCallState ==
    ASSUME SettingsInv, CountersTypeOK, CollateralTypeOK, NEW sender \in Caller,
           OtherCall(sender)
    PROVE  SettingsInv' /\ CountersTypeOK' /\ CollateralTypeOK'
<1>1. SettingsInv' /\ CountersTypeOK'
  BY OtherCallSettings DEF CountersTypeOK, counterVars
<1>2. CASE UNCHANGED collateral
  BY <1>1, <1>2 DEF CollateralTypeOK
<1>3. ASSUME NEW wallet \in CustodianInput, NEW in \in CustodyInput,
             in[1] # AvUSDToken, MoveCollateral(in[1], Minting, wallet, in[2])
      PROVE  CollateralTypeOK'
  <2>1. in[1] \in Asset /\ in[2] \in Nat /\ wallet \in Address /\ Minting \in Address
    BY <1>3, MintingAssumption
  <2> QED
    BY <1>3, <2>1, MoveCollateralEffect
<1> QED
  BY <1>1, <1>2, <1>3, OtherCallCollateral

LEMMA EnvironmentState ==
    ASSUME SettingsInv, CountersTypeOK, CollateralTypeOK,
           \/ \E in \in CollateralInput : SendCollateral(in[1], in[2], in[3], in[4])
           \/ NewBlock
           \/ UNCHANGED allVars
    PROVE  SettingsInv' /\ CountersTypeOK' /\ CollateralTypeOK'
<1>1. ASSUME NEW in \in CollateralInput, SendCollateral(in[1], in[2], in[3], in[4])
      PROVE  SettingsInv' /\ CountersTypeOK' /\ CollateralTypeOK'
  <2>1. in[1] \in Asset /\ in[2] \in Address /\ in[3] \in Address /\ in[4] \in Nat
    BY MintingAssumption
  <2>2. CollateralTypeOK'
    BY <1>1, <2>1, MoveCollateralEffect DEF SendCollateral
  <2>3. SettingsInv'
    BY <1>1, SettingsFrame DEF SendCollateral
  <2> QED
    BY <1>1, <2>2, <2>3 DEF SendCollateral, CountersTypeOK, counterVars
<1>2. CASE NewBlock
  <2>1. SettingsInv' /\ UNCHANGED <<counterVars, collateral>>
    BY <1>2, SettingsFrame DEF NewBlock
  <2>2. blockNumber' \in 0 .. MaxBlock
    BY <1>2, MintingAssumption DEF NewBlock, CountersTypeOK
  <2> QED
    BY <2>1, <2>2 DEF CountersTypeOK, counterVars, CollateralTypeOK
<1>3. CASE UNCHANGED allVars
  BY <1>3, SettingsFrame
     DEF allVars, mintingVars, CountersTypeOK, counterVars, CollateralTypeOK
<1> QED
  BY <1>1, <1>2, <1>3

\* All that the state of the minting contract keeps to.
MintingStateInv == MintingInv /\ SettingsInv /\ CountersTypeOK /\ CollateralTypeOK

LEMMA MintingStateInitial ==
    ASSUME MintingInit
    PROVE  MintingStateInv
<1>1. MintingInv
  BY MintingInitial
<1>2. SettingsInv
  BY MintingAssumption DEF MintingInit, SettingsInv, SettingsTypeOK, OnlyCallersDelegate
<1>3. CountersTypeOK /\ CollateralTypeOK
  BY MintingAssumption DEF MintingInit, CountersTypeOK, CollateralTypeOK
<1> QED
  BY <1>1, <1>2, <1>3 DEF MintingStateInv

LEMMA MintingStateStep ==
    ASSUME MintingStateInv, [MintingNext]_allVars
    PROVE  MintingStateInv'
<1> DEFINE Goal == SettingsInv' /\ CountersTypeOK' /\ CollateralTypeOK'
<1>1. MintingInv'
  BY MintingStep DEF MintingStateInv
<1>2. SettingsInv /\ CountersTypeOK /\ CollateralTypeOK
  BY DEF MintingStateInv
<1>3. ASSUME NEW sender \in Caller, NEW order \in OrderInput,
             NEW signature \in SignatureInput, OrderCall(sender, order, signature)
      PROVE  Goal
  BY <1>2, <1>3, MintState, RedeemState DEF OrderCall
<1>4. ASSUME NEW sender \in Caller, OtherCall(sender)
      PROVE  Goal
  BY <1>2, <1>4, OtherCallState
<1>5. ASSUME \/ \E in \in CollateralInput : SendCollateral(in[1], in[2], in[3], in[4])
             \/ NewBlock
             \/ UNCHANGED allVars
      PROVE  Goal
  BY <1>2, <1>5, EnvironmentState
<1> HIDE DEF Goal
<1>6. Goal
  BY <1>3, <1>4, <1>5, MintingKinds, Zenon
<1> QED
  BY <1>1, <1>6 DEF Goal, MintingStateInv

-----------------------------------------------------------------------------

\* The inductive invariant of all the state: what MintingInv says, and the types of
\* settings, counters and collateral, and that only callers have delegated.
THEOREM MintingStateInvariant == MintingSpec => []MintingStateInv
<1>1. MintingInit => MintingStateInv
  BY MintingStateInitial
<1>2. MintingStateInv /\ [MintingNext]_allVars => MintingStateInv'
  BY MintingStateStep
<1> QED
  BY <1>1, <1>2, PTL DEF MintingSpec

\* The types of all that the contract keeps, with those of access control and token.
THEOREM MintingTypes == MintingSpec => []MintingTypeOK
<1>1. MintingStateInv => MintingTypeOK
  BY DEF MintingStateInv, MintingInv, AccessInv, AvUSDInv, CoinInv, AvUSDTypeOK,
         SettingsInv, SettingsTypeOK, CountersTypeOK, CollateralTypeOK, MintingTypeOK
<1> QED
  BY <1>1, MintingStateInvariant, PTL

-----------------------------------------------------------------------------
(* What is paid for avUSD, and with avUSD. *)

\* MintIsPaid and CollateralLeavesForBurnOrCustody, of one step.
PaidStep ==
    minter = Minting /\ avUSDSupply' > avUSDSupply =>
      LET minted == avUSDSupply' - avUSDSupply
      IN  \E asset \in supportedAssets \ {NATIVE_TOKEN}, benefactor \in Benefactors :
             LET gained == InCustody(asset)' - InCustody(asset)
             IN  /\ IF benefactor \in custodianAddresses
                    THEN gained = 0
                    ELSE (minted - Normalized(gained, asset)) * STABLES_RATIO_MULTIPLIER
                            < (stablesDeltaLimit + 1) * minted
                 /\ \A other \in Asset \ {asset} : collateral'[other] = collateral[other]

LeavingStep ==
    \A asset \in Asset :
       LET lost   == collateral[asset][Minting] - collateral'[asset][Minting]
           burned == avUSDSupply - avUSDSupply'
       IN  lost > 0 =>
             \/ /\ burned = 0
                /\ \E c \in custodianAddresses :
                      collateral'[asset][c] = collateral[asset][c] + lost
             \/ /\ burned > 0 /\ asset \in supportedAssets
                /\ (Normalized(lost, asset) - burned) * STABLES_RATIO_MULTIPLIER
                      < (stablesDeltaLimit + 1) * burned

\* The supply after the steps that pay no order.
LEMMA SupplyElsewhere ==
    ASSUME MintingStateInv,
           \/ \E sender \in Caller : OtherCall(sender)
           \/ \E in \in CollateralInput : SendCollateral(in[1], in[2], in[3], in[4])
           \/ NewBlock
           \/ UNCHANGED allVars
    PROVE  /\ avUSDSupply \in Nat /\ avUSDSupply' \in Nat
           /\ avUSDSupply' > avUSDSupply => minter # Minting
<1>1. avUSDSupply \in Nat
  BY DEF MintingStateInv, MintingInv, AvUSDInv, CoinInv, CoinTypeOK
<1>2. ASSUME NEW sender \in Caller, OtherCall(sender)
      PROVE  avUSDSupply' \in Nat /\ (avUSDSupply' > avUSDSupply => minter # Minting)
  <2>1. Orders!Elsewhere
    BY <1>2, OtherStep DEF MintingStateInv, OtherCall
  <2> QED
    BY <2>1 DEF Orders!Elsewhere
<1>3. UNCHANGED avUSDSupply => avUSDSupply' \in Nat /\ ~(avUSDSupply' > avUSDSupply)
  BY <1>1
<1> QED
  BY <1>1, <1>2, <1>3
     DEF SendCollateral, NewBlock, allVars, avUSDVars, coinVars

LEMMA OrderSupply ==
    ASSUME MintingStateInv, NEW order \in OrderInput
    PROVE  /\ avUSDSupply \in Nat /\ order.avusd_amount \in Nat
           /\ AvUSDMint(Minting, order.beneficiary, order.avusd_amount)
                 => avUSDSupply' = avUSDSupply + order.avusd_amount
           /\ AvUSDBurnFrom(Minting, order.benefactor, order.avusd_amount)
                 => avUSDSupply' = avUSDSupply - order.avusd_amount
BY OrderFields
   DEF MintingStateInv, MintingInv, AvUSDInv, CoinInv, CoinTypeOK, AvUSDMint,
       AvUSDBurnFrom, DestroyAvUSD

\* What the custodians hold after a mint.
LEMMA CustodyPaid ==
    ASSUME SettingsTypeOK, CollateralTypeOK, UNCHANGED custodianAddresses,
           NEW asset \in Asset, NEW from \in Address, NEW amount \in Nat,
           PaidOut(Address, custodianAddresses, from,
                   collateral[asset], collateral'[asset], amount)
    PROVE  /\ InCustody(asset) \in Int
           /\ InCustody(asset)' - InCustody(asset)
                 = IF from \in custodianAddresses THEN 0 ELSE amount
<1> DEFINE table == collateral[asset]
           held == [c \in custodianAddresses |-> table[c]]
<1>1. table \in [Address -> Nat] /\ custodianAddresses \subseteq Address
  BY DEF CollateralTypeOK, SettingsTypeOK
<1>2. IsFiniteSet(custodianAddresses)
  BY <1>1, AvUSDAssumption, AccountsAssumption, FS_Subset
<1>3. Total(held) \in Nat
  <2>1. held \in [custodianAddresses -> Nat]
    BY <1>1
  <2> HIDE DEF held
  <2>2. CASE custodianAddresses = {}
    BY <2>1, <2>2, TotalNone
  <2>3. CASE custodianAddresses # {}
    BY <1>2, <2>1, <2>3, TotalBounds
  <2> QED
    BY <2>2, <2>3
<1>4. /\ InCustody(asset) = HeldBy(custodianAddresses, table)
      /\ InCustody(asset)' = HeldBy(custodianAddresses, collateral'[asset])
      /\ HeldBy(custodianAddresses, table) = Total(held)
  BY DEF InCustody, HeldBy
<1> HIDE DEF held, table
<1> QED
  BY <1>3, <1>4 DEF PaidOut, table

LEMMA MintPaid ==
    ASSUME MintingStateInv, NEW sender \in Caller, NEW order \in OrderInput,
           NEW route \in RouteInput, NEW signature \in SignatureInput,
           Mint(sender, order, route, signature)
    PROVE  PaidStep /\ LeavingStep
<1> DEFINE asset == order.collateral_asset
           b == order.benefactor
           amount == order.collateral_amount
           avusd == order.avusd_amount
<1>1. SettingsInv /\ SettingsTypeOK /\ CollateralTypeOK /\ BitmapTypeOK
  BY DEF MintingStateInv, MintingInv, SettingsInv
<1>2. /\ avUSDSupply \in Nat /\ avusd \in Nat \ {0} /\ avUSDSupply' = avUSDSupply + avusd
      /\ b \in Address /\ amount \in Nat /\ stablesDeltaLimit \in Nat
  BY <1>1, OrderSupply, OrderFields DEF Mint, VerifyOrder, SettingsTypeOK
<1>3. /\ asset \in supportedAssets \ {NATIVE_TOKEN} /\ CollateralTypeOK'
      /\ \A other \in Asset \ {asset} : collateral'[other] = collateral[other]
      /\ PaidOut(Address, custodianAddresses, b, collateral[asset], collateral'[asset], amount)
  BY <1>1, CollateralPaid DEF Mint
<1>4. asset \in Asset
  BY <1>1, <1>3 DEF SettingsTypeOK
<1>5. b \in Benefactors
  <2>1. <<b, order.nonce>> \notin Executed /\ Executed' = Executed \cup {<<b, order.nonce>>}
    BY <1>1, DeduplicateExecutes DEF Mint
  <2> QED
    BY <2>1 DEF Benefactors
<1>6. InCustody(asset)' - InCustody(asset) = IF b \in custodianAddresses THEN 0 ELSE amount
  BY <1>1, <1>2, <1>3, <1>4, CustodyPaid DEF Mint, listVars
<1>7. (avusd - Normalized(amount, asset)) * STABLES_RATIO_MULTIPLIER
         < (stablesDeltaLimit + 1) * avusd
  <2>1. /\ asset \in DOMAIN Decimals
        /\ avusd - Normalized(amount, asset) > 0
              => InBps(avusd - Normalized(amount, asset), avusd) <= stablesDeltaLimit
    BY DEF Mint, VerifyOrder, CheckRatio
  <2>2. avusd - Normalized(amount, asset) \in Int
    BY <1>2, <2>1, NormalizedNatural
  <2> HIDE DEF avusd
  <2> QED
    BY <1>2, <2>1, <2>2, WithinLimit
<1>8. PaidStep
  <2> DEFINE minted == avUSDSupply' - avUSDSupply
             gained == InCustody(asset)' - InCustody(asset)
  <2>1. minted = avusd
    BY <1>2
  <2>2. IF b \in custodianAddresses
        THEN gained = 0
        ELSE (minted - Normalized(gained, asset)) * STABLES_RATIO_MULTIPLIER
                < (stablesDeltaLimit + 1) * minted
    <3> HIDE DEF minted, gained, avusd, amount
    <3>1. gained = IF b \in custodianAddresses THEN 0 ELSE amount
      BY <1>6 DEF gained
    <3> QED
      BY <1>7, <2>1, <3>1
  <2> HIDE DEF asset, b
  <2> QED
    BY <1>3, <1>5, <2>2 DEF PaidStep
<1>9. LeavingStep
  <2>1. b # Minting /\ Minting \in Address
    BY <1>1, BenefactorSigns, MintingAssumption DEF Mint, VerifyOrder, VerifySignature
  <2>2. ASSUME NEW other \in Asset
        PROVE  ~ collateral[other][Minting] - collateral'[other][Minting] > 0
    <3>1. collateral[other][Minting] \in Nat /\ collateral'[other][Minting] \in Nat
      BY <1>1, <1>3, <2>1 DEF CollateralTypeOK
    <3>2. CASE other = asset
      <4>1. collateral'[asset][Minting] >= collateral[asset][Minting]
        BY <1>3, <2>1 DEF PaidOut
      <4> QED
        BY <3>1, <3>2, <4>1
    <3>3. CASE other # asset
      BY <1>3, <3>1, <3>3
    <3> QED
      BY <3>2, <3>3
  <2> QED
    BY <2>2 DEF LeavingStep
<1> QED
  BY <1>8, <1>9

LEMMA RedemptionPaid ==
    ASSUME MintingStateInv, NEW sender \in Caller, NEW order \in OrderInput,
           NEW signature \in SignatureInput, Redeem(sender, order, signature)
    PROVE  PaidStep /\ LeavingStep
<1> DEFINE asset == order.collateral_asset
           amount == order.collateral_amount
           avusd == order.avusd_amount
<1>1. SettingsTypeOK /\ CollateralTypeOK
  BY DEF MintingStateInv, SettingsInv
<1>2. /\ avUSDSupply \in Nat /\ avusd \in Nat \ {0} /\ avUSDSupply' = avUSDSupply - avusd
      /\ amount \in Nat /\ stablesDeltaLimit \in Nat
  BY <1>1, OrderSupply, OrderFields DEF Redeem, VerifyOrder, SettingsTypeOK
<1>3. /\ asset \in DOMAIN Decimals
      /\ Normalized(amount, asset) - avusd > 0
            => InBps(Normalized(amount, asset) - avusd, avusd) <= stablesDeltaLimit
  BY DEF Redeem, VerifyOrder, CheckRatio
<1>4. /\ asset \in Asset /\ asset \in supportedAssets \cup {NATIVE_TOKEN}
      /\ \A other \in Asset \ {asset} : collateral'[other] = collateral[other]
      /\ collateral[asset][Minting] - collateral'[asset][Minting] \in {0, amount}
  BY <1>1, CollateralRedeemed DEF Redeem
<1>5. asset \in supportedAssets
  BY <1>3, <1>4, MintingAssumption
<1>6. (Normalized(amount, asset) - avusd) * STABLES_RATIO_MULTIPLIER
         < (stablesDeltaLimit + 1) * avusd
  <2>1. Normalized(amount, asset) - avusd \in Int
    BY <1>2, <1>3, NormalizedNatural
  <2> HIDE DEF avusd
  <2> QED
    BY <1>2, <1>3, <2>1, WithinLimit
<1>7. LeavingStep
  <2> SUFFICES ASSUME NEW other \in Asset,
                      collateral[other][Minting] - collateral'[other][Minting] > 0
               PROVE  /\ avUSDSupply - avUSDSupply' > 0 /\ other \in supportedAssets
                      /\ (Normalized(collateral[other][Minting] - collateral'[other][Minting],
                                     other)
                             - (avUSDSupply - avUSDSupply')) * STABLES_RATIO_MULTIPLIER
                            < (stablesDeltaLimit + 1) * (avUSDSupply - avUSDSupply')
    BY DEF LeavingStep
  <2>1. other = asset
    <3>1. collateral[other][Minting] \in Nat
      BY <1>1, MintingAssumption DEF CollateralTypeOK
    <3>2. other # asset => collateral'[other][Minting] = collateral[other][Minting]
      BY <1>4
    <3> QED
      BY <3>1, <3>2
  <2>2. collateral[other][Minting] - collateral'[other][Minting] = amount
    BY <1>2, <1>4, <2>1
  <2>3. avUSDSupply - avUSDSupply' = avusd
    BY <1>2
  <2> HIDE DEF asset, amount, avusd
  <2> QED
    BY <1>2, <1>5, <1>6, <2>1, <2>2, <2>3
<1>8. PaidStep
  BY <1>2 DEF PaidStep
<1> QED
  BY <1>7, <1>8

LEMMA OtherPaid ==
    ASSUME MintingStateInv,
           \/ \E sender \in Caller : OtherCall(sender)
           \/ \E in \in CollateralInput : SendCollateral(in[1], in[2], in[3], in[4])
           \/ NewBlock
           \/ UNCHANGED allVars
    PROVE  PaidStep /\ LeavingStep
<1>1. /\ avUSDSupply \in Nat /\ avUSDSupply' \in Nat
      /\ avUSDSupply' > avUSDSupply => minter # Minting
      /\ CollateralTypeOK /\ Minting \in Address /\ IsFiniteSet(Address)
  BY SupplyElsewhere, MintingAssumption, AvUSDAssumption, AccountsAssumption DEF MintingStateInv
<1>2. PaidStep
  BY <1>1 DEF PaidStep
<1>3. \A asset \in Asset : collateral[asset][Minting] \in Nat
  BY <1>1 DEF CollateralTypeOK
<1>4. ASSUME UNCHANGED collateral
      PROVE  LeavingStep
  BY <1>3, <1>4 DEF LeavingStep
<1>5. ASSUME NEW in \in CollateralInput, SendCollateral(in[1], in[2], in[3], in[4])
      PROVE  LeavingStep
  <2>1. /\ in[1] \in Asset /\ in[2] \in Address /\ in[3] \in Address /\ in[4] \in Nat
        /\ in[2] # Minting /\ MoveCollateral(in[1], in[2], in[3], in[4])
    BY <1>5, MintingAssumption DEF SendCollateral
  <2>2. /\ CollateralTypeOK'
        /\ \A other \in Asset \ {in[1]} : collateral'[other] = collateral[other]
        /\ \A a \in Address \ {in[2]} : collateral'[in[1]][a] >= collateral[in[1]][a]
    BY <1>1, <2>1, MoveCollateralEffect
  <2>3. ASSUME NEW asset \in Asset
        PROVE  ~ collateral[asset][Minting] - collateral'[asset][Minting] > 0
    <3>1. collateral[asset][Minting] \in Nat /\ collateral'[asset][Minting] \in Nat
      BY <1>1, <2>2 DEF CollateralTypeOK
    <3>2. collateral'[asset][Minting] >= collateral[asset][Minting]
      BY <1>1, <2>1, <2>2, <3>1
    <3> QED
      BY <3>1, <3>2
  <2> QED
    BY <2>3 DEF LeavingStep
<1>6. ASSUME NEW wallet \in CustodianInput, NEW in \in CustodyInput,
             wallet \in custodianAddresses, in[1] # AvUSDToken,
             MoveCollateral(in[1], Minting, wallet, in[2]), UNCHANGED avUSDVars
      PROVE  LeavingStep
  <2> DEFINE before == collateral[in[1]]
             after == collateral'[in[1]]
  <2>1. in[1] \in Asset /\ in[2] \in Nat /\ wallet \in Address
    BY <1>6, MintingAssumption
  <2>2. /\ CollateralTypeOK'
        /\ \A other \in Asset \ {in[1]} : collateral'[other] = collateral[other]
        /\ before[Minting] - after[Minting] <= in[2]
        /\ Minting # wallet => after[wallet] = before[wallet] + in[2]
        /\ Minting = wallet => after[wallet] = before[wallet]
    BY <1>1, <1>6, <2>1, MoveCollateralEffect
  <2>3. avUSDSupply' = avUSDSupply
    BY <1>6 DEF avUSDVars, coinVars
  <2>4. ASSUME NEW asset \in Asset,
               collateral[asset][Minting] - collateral'[asset][Minting] > 0
        PROVE  collateral'[asset][wallet] = collateral[asset][wallet]
                  + (collateral[asset][Minting] - collateral'[asset][Minting])
    <3>1. collateral[asset][Minting] \in Nat /\ collateral'[asset][Minting] \in Nat
      BY <1>1, <2>2 DEF CollateralTypeOK
    <3>2. asset = in[1]
      BY <2>2, <2>4, <3>1
    <3>3. Minting # wallet
      BY <2>2, <2>4, <3>1, <3>2
    <3>4. before[Minting] - after[Minting] = in[2]
      <4>1. /\ before \in [Address -> Nat] /\ before[Minting] >= in[2]
            /\ after = Move(before, Minting, wallet, in[2])
        BY <1>1, <1>6, <2>1 DEF MoveCollateral, CollateralTypeOK
      <4> HIDE DEF before, after
      <4>2. after[Minting] = before[Minting] - in[2] /\ before[Minting] \in Nat
        BY <1>1, <2>1, <3>3, <4>1, MoveEffect
      <4> QED
        BY <2>1, <4>2
    <3> QED
      BY <2>2, <3>2, <3>3, <3>4
  <2> QED
    BY <1>1, <1>6, <2>3, <2>4 DEF LeavingStep
<1>7. LeavingStep
  <2>1. ASSUME NEW sender \in Caller, OtherCall(sender)
        PROVE  LeavingStep
    BY <1>4, <1>6, <2>1, OtherCallCollateral, Zenon
  <2>2. ASSUME NewBlock \/ UNCHANGED allVars
        PROVE  LeavingStep
    BY <1>4, <2>2 DEF NewBlock, allVars, mintingVars
  <2> QED
    BY <1>5, <2>1, <2>2, Zenon
<1> QED
  BY <1>2, <1>7

LEMMA MintingPaidStep ==
    ASSUME MintingStateInv, [MintingNext]_allVars
    PROVE  PaidStep /\ LeavingStep
<1>1. ASSUME NEW sender \in Caller, NEW order \in OrderInput,
             NEW signature \in SignatureInput, OrderCall(sender, order, signature)
      PROVE  PaidStep /\ LeavingStep
  BY <1>1, MintPaid, RedemptionPaid DEF OrderCall
<1> QED
  BY <1>1, OtherPaid, MintingKinds, Zenon

\* Custodians get the price, within the limit, of every avUSD that is minted, all in
\* one supported asset; no route and no rounding leaves a part of it behind.
THEOREM MintsArePaid == MintingSpec => MintIsPaid
<1>1. MintingStateInv /\ [MintingNext]_allVars => PaidStep
  BY MintingPaidStep
<1> QED
  BY <1>1, MintingStateInvariant, PTL DEF MintingSpec, MintIsPaid, PaidStep

\* Collateral leaves the contract to custodians or for avUSD burned at the price.
THEOREM CollateralLeavesPaid == MintingSpec => CollateralLeavesForBurnOrCustody
<1>1. MintingStateInv /\ [MintingNext]_allVars => LeavingStep
  BY MintingPaidStep
<1> QED
  BY <1>1, MintingStateInvariant, PTL
     DEF MintingSpec, CollateralLeavesForBurnOrCustody, LeavingStep

-----------------------------------------------------------------------------
(* The contract with its history. *)

OrderRecorded(sender, order, signature) ==
    /\ OrderCall(sender, order, signature)
    /\ signer' = signature.signer
    /\ issued' = [issued EXCEPT ![blockNumber] = @ +
                     (IF avUSDSupply' > avUSDSupply THEN avUSDSupply' - avUSDSupply ELSE 0)]
    /\ retired' = [retired EXCEPT ![blockNumber] = @ +
                     (IF avUSDSupply' < avUSDSupply THEN avUSDSupply - avUSDSupply' ELSE 0)]
    /\ UNCHANGED <<trustVars, stopVars>>
    /\ msgSender' = sender

DelegationRecorded(sender) ==
    Delegated(sender) /\ msgSender' = sender

ManagementRecorded(sender) ==
    /\ Stopped(sender) \/ Managed(sender)
    /\ signer' = Zero /\ msgSender' = sender
    /\ UNCHANGED <<trustVars, turnover>>

SendingRecorded(in) ==
    /\ SendCollateral(in[1], in[2], in[3], in[4])
    /\ msgSender' = in[2] /\ signer' = Zero
    /\ UNCHANGED <<trustVars, turnover, stopVars>>

BlockRecorded ==
    /\ NewBlock
    /\ msgSender' = Zero /\ signer' = Zero
    /\ UNCHANGED <<trustVars, turnover, stopVars>>

LEMMA HistoryKinds ==
    ASSUME HistoryNext
    PROVE  \/ \E sender \in Caller, order \in OrderInput, signature \in SignatureInput :
                 OrderRecorded(sender, order, signature)
           \/ \E sender \in Caller : DelegationRecorded(sender)
           \/ \E sender \in Caller : ManagementRecorded(sender)
           \/ \E in \in CollateralInput : SendingRecorded(in)
           \/ BlockRecorded
BY Zenon DEF HistoryNext, Ordered, OrderRecorded, DelegationRecorded, ManagementRecorded,
             SendingRecorded, BlockRecorded

\* Calls that are no orders, with or without their history.
LEMMA ManagementIsOther ==
    ASSUME NEW sender \in Caller,
           \/ DelegationRecorded(sender)
           \/ ManagementRecorded(sender)
    PROVE  OtherCall(sender)
<1>1. CASE DelegationRecorded(sender)
  <2>1. PICK other \in {in[2] : in \in {pair \in DelegationInput : pair[1] = sender}} :
           \/ SetDelegatedSigner(sender, other)
           \/ ConfirmDelegatedSigner(sender, other)
           \/ RemoveDelegatedSigner(sender, other)
    BY <1>1, Zenon DEF DelegationRecorded, Delegated
  <2>2. PICK in \in DelegationInput : other = in[2]
    OBVIOUS
  <2> QED
    BY <2>1, <2>2, Zenon DEF OtherCall, DelegationOrLimitCall
<1>2. CASE ManagementRecorded(sender)
  <2>1. \/ DisableMintRedeem(sender) \/ LimitCall(sender)
        \/ RemovalCall(sender) \/ AccessCall(sender)
        \/ ListCall(sender) \/ TokenCall(sender)
    BY <1>2, Zenon DEF ManagementRecorded, Stopped, Managed, RemovalCall
  <2> QED
    BY <2>1, Zenon DEF OtherCall, DelegationOrLimitCall
<1> QED
  BY <1>1, <1>2

\* Every step of the history is a step of the contract.
LEMMA HistoryStepIsMinting ==
    ASSUME [HistoryNext]_historyVars
    PROVE  [MintingNext]_allVars
<1>1. ASSUME NEW sender \in Caller, NEW order \in OrderInput, NEW signature \in SignatureInput,
             OrderRecorded(sender, order, signature)
      PROVE  MintingNext
  BY <1>1, Zenon DEF OrderRecorded, MintingNext
<1>2. ASSUME NEW sender \in Caller, DelegationRecorded(sender)
      PROVE  MintingNext
  <2>1. PICK other \in {in[2] : in \in {pair \in DelegationInput : pair[1] = sender}} :
           \/ SetDelegatedSigner(sender, other)
           \/ ConfirmDelegatedSigner(sender, other)
           \/ RemoveDelegatedSigner(sender, other)
    BY <1>2, Zenon DEF DelegationRecorded, Delegated
  <2>2. PICK in \in DelegationInput : in[1] = sender /\ other = in[2]
    OBVIOUS
  <2> QED
    BY <2>1, <2>2, Zenon DEF MintingNext
<1>3. ASSUME NEW sender \in Caller, ManagementRecorded(sender)
      PROVE  MintingNext
  BY <1>3, Zenon DEF ManagementRecorded, Stopped, Managed, RemovalCall, MintingNext
<1>4. ASSUME NEW in \in CollateralInput, SendingRecorded(in)
      PROVE  MintingNext
  BY <1>4, Zenon DEF SendingRecorded, MintingNext
<1>5. ASSUME BlockRecorded
      PROVE  MintingNext
  BY <1>5, Zenon DEF BlockRecorded, MintingNext
<1>6. HistoryNext => MintingNext
  BY <1>1, <1>2, <1>3, <1>4, <1>5, HistoryKinds, Zenon
<1>7. UNCHANGED historyVars => UNCHANGED allVars
  BY DEF historyVars
<1> QED
  BY <1>6, <1>7

\* What the history records: the turnover is what the counters say, a stop leaves
\* no limit, the dismissed are no members, and a status of delegation was asked for
\* by the one account and, when accepted, confirmed by the other.
TurnoverInv == issued = mintedPerBlock /\ retired = redeemedPerBlock

StopInv ==
    /\ stopped \in BOOLEAN
    /\ stopped => maxMintPerBlock = 0 /\ maxRedeemPerBlock = 0

DismissalInv == \A in \in dismissed : in \in RoleInput /\ in[2] \notin members[in[1]]

TrustInv ==
    \A d, b \in Address :
       /\ delegatedSigner[d][b] = "ACCEPTED" => <<b, d>> \in trusts
       /\ delegatedSigner[d][b] = "PENDING" => <<b, d>> \in offers

HistoryInv == MintingStateInv /\ TurnoverInv /\ StopInv /\ DismissalInv /\ TrustInv

TurnoverStep ==
    /\ issued'[blockNumber] > issued[blockNumber] =>
          issued'[blockNumber] <= maxMintPerBlock
    /\ retired'[blockNumber] > retired[blockNumber] =>
          retired'[blockNumber] <= maxRedeemPerBlock

StopStep == stopped => signer' = Zero

DismissalStep ==
    /\ issued' # issued => <<MINTER_ROLE, msgSender'>> \notin dismissed
    /\ retired' # retired => <<REDEEMER_ROLE, msgSender'>> \notin dismissed

LEMMA MintRecorded ==
    ASSUME HistoryInv, NEW sender \in Caller, NEW order \in OrderInput,
           NEW route \in RouteInput, NEW signature \in SignatureInput,
           OrderRecorded(sender, order, signature), Mint(sender, order, route, signature)
    PROVE  /\ TurnoverInv' /\ TurnoverStep /\ DismissalStep /\ ~ stopped
<1> DEFINE amount == order.avusd_amount
           before == mintedPerBlock[blockNumber]
<1>1. /\ mintedPerBlock \in [0 .. MaxBlock -> Nat] /\ redeemedPerBlock \in [0 .. MaxBlock -> Nat]
      /\ blockNumber \in 0 .. MaxBlock /\ before \in Nat
      /\ redeemedPerBlock[blockNumber] \in Nat
      /\ issued = mintedPerBlock /\ retired = redeemedPerBlock
  BY DEF HistoryInv, MintingStateInv, CountersTypeOK, TurnoverInv
<1>2. /\ avUSDSupply \in Nat /\ amount \in Nat \ {0}
      /\ avUSDSupply' = avUSDSupply + amount
  BY OrderSupply DEF HistoryInv, Mint, VerifyOrder
<1>3. /\ before + amount <= maxMintPerBlock
      /\ mintedPerBlock' = [mintedPerBlock EXCEPT ![blockNumber] = before + amount]
      /\ redeemedPerBlock' = redeemedPerBlock
  BY DEF Mint, BelowMaxMintPerBlock
<1>4. issued' = [issued EXCEPT ![blockNumber] = before + amount] /\ retired' = retired
  <2> HIDE DEF amount
  <2>1. /\ avUSDSupply' > avUSDSupply /\ ~ avUSDSupply' < avUSDSupply
        /\ avUSDSupply' - avUSDSupply = amount
    BY <1>2
  <2>2. /\ issued' = [issued EXCEPT ![blockNumber] = issued[blockNumber] + amount]
        /\ retired' = [retired EXCEPT ![blockNumber] = retired[blockNumber] + 0]
    BY <2>1 DEF OrderRecorded
  <2>3. retired[blockNumber] + 0 = retired[blockNumber]
    BY <1>1
  <2> QED
    BY <1>1, <2>2, <2>3
<1>5. TurnoverInv' /\ TurnoverStep
  BY <1>1, <1>3, <1>4 DEF TurnoverInv, TurnoverStep
<1>6. ~ stopped
  BY <1>1, <1>2, <1>3 DEF HistoryInv, StopInv
<1>7. DismissalStep
  <2>1. sender \in members[MINTER_ROLE] /\ msgSender' = sender
    BY DEF Mint, HasRole, OrderRecorded
  <2>2. <<MINTER_ROLE, sender>> \notin dismissed
    BY <2>1 DEF HistoryInv, DismissalInv
  <2> QED
    BY <1>4, <2>1, <2>2 DEF DismissalStep
<1> QED
  BY <1>5, <1>6, <1>7

LEMMA RedemptionRecorded ==
    ASSUME HistoryInv, NEW sender \in Caller, NEW order \in OrderInput,
           NEW signature \in SignatureInput,
           OrderRecorded(sender, order, signature), Redeem(sender, order, signature)
    PROVE  /\ TurnoverInv' /\ TurnoverStep /\ DismissalStep /\ ~ stopped
<1> DEFINE amount == order.avusd_amount
           before == redeemedPerBlock[blockNumber]
<1>1. /\ mintedPerBlock \in [0 .. MaxBlock -> Nat] /\ redeemedPerBlock \in [0 .. MaxBlock -> Nat]
      /\ blockNumber \in 0 .. MaxBlock /\ before \in Nat
      /\ mintedPerBlock[blockNumber] \in Nat
      /\ issued = mintedPerBlock /\ retired = redeemedPerBlock
  BY DEF HistoryInv, MintingStateInv, CountersTypeOK, TurnoverInv
<1>2. /\ avUSDSupply \in Nat /\ amount \in Nat \ {0}
      /\ avUSDSupply' = avUSDSupply - amount
  BY OrderSupply DEF HistoryInv, Redeem, VerifyOrder
<1>3. /\ before + amount <= maxRedeemPerBlock
      /\ redeemedPerBlock' = [redeemedPerBlock EXCEPT ![blockNumber] = before + amount]
      /\ mintedPerBlock' = mintedPerBlock
  BY DEF Redeem, BelowMaxRedeemPerBlock
<1>4. retired' = [retired EXCEPT ![blockNumber] = before + amount] /\ issued' = issued
  <2> HIDE DEF amount
  <2>1. /\ ~ avUSDSupply' > avUSDSupply /\ avUSDSupply' < avUSDSupply
        /\ avUSDSupply - avUSDSupply' = amount
    BY <1>2
  <2>2. /\ retired' = [retired EXCEPT ![blockNumber] = retired[blockNumber] + amount]
        /\ issued' = [issued EXCEPT ![blockNumber] = issued[blockNumber] + 0]
    BY <2>1 DEF OrderRecorded
  <2>3. issued[blockNumber] + 0 = issued[blockNumber]
    BY <1>1
  <2> QED
    BY <1>1, <2>2, <2>3
<1>5. TurnoverInv' /\ TurnoverStep
  BY <1>1, <1>3, <1>4 DEF TurnoverInv, TurnoverStep
<1>6. ~ stopped
  BY <1>1, <1>2, <1>3 DEF HistoryInv, StopInv
<1>7. DismissalStep
  <2>1. sender \in members[REDEEMER_ROLE] /\ msgSender' = sender
    BY DEF Redeem, HasRole, OrderRecorded
  <2>2. <<REDEEMER_ROLE, sender>> \notin dismissed
    BY <2>1 DEF HistoryInv, DismissalInv
  <2> QED
    BY <1>4, <2>1, <2>2 DEF DismissalStep
<1> QED
  BY <1>5, <1>6, <1>7

\* An order, whichever: what the history adds to it.
LEMMA OrderRecordedStep ==
    ASSUME HistoryInv, NEW sender \in Caller, NEW order \in OrderInput,
           NEW signature \in SignatureInput, OrderRecorded(sender, order, signature)
    PROVE  /\ TurnoverInv' /\ StopInv' /\ DismissalInv' /\ TrustInv'
           /\ TurnoverStep /\ StopStep /\ DismissalStep
<1>1. TurnoverInv' /\ TurnoverStep /\ DismissalStep /\ ~ stopped
  <2>1. OrderCall(sender, order, signature)
    BY DEF OrderRecorded
  <2>2. CASE \E route \in RouteInput : Mint(sender, order, route, signature)
    BY <2>2, MintRecorded
  <2>3. CASE Redeem(sender, order, signature)
    BY <2>3, RedemptionRecorded
  <2> QED
    BY <2>1, <2>2, <2>3 DEF OrderCall
<1>2. UNCHANGED <<accessVars, limitVars, delegatedSigner, trustVars, stopVars>>
  BY DEF OrderRecorded, OrderCall, Mint, Redeem
<1> QED
  BY <1>1, <1>2
     DEF HistoryInv, StopInv, DismissalInv, TrustInv, StopStep,
         accessVars, limitVars, trustVars, stopVars

\* Steps that touch neither limits, roles, delegations nor their records.
LEMMA HistoryAside ==
    ASSUME HistoryInv, UNCHANGED <<counterVars, turnover>>, signer' = Zero
    PROVE  /\ TurnoverInv' /\ StopStep
           /\ (CountersTypeOK => TurnoverStep) /\ DismissalStep
           /\ UNCHANGED <<limitVars, stopVars>> => StopInv'
           /\ UNCHANGED <<members, stopVars>> => DismissalInv'
           /\ UNCHANGED <<delegatedSigner, trustVars>> => TrustInv'
<1>1. TurnoverInv' /\ StopStep /\ DismissalStep
  BY DEF HistoryInv, TurnoverInv, StopStep, DismissalStep, counterVars, turnover
<1>2. CountersTypeOK => TurnoverStep
  BY DEF HistoryInv, TurnoverInv, TurnoverStep, CountersTypeOK, turnover
<1> QED
  BY <1>1, <1>2
     DEF HistoryInv, StopInv, DismissalInv, TrustInv, limitVars, trustVars, stopVars

LEMMA DelegationRecordedStep ==
    ASSUME HistoryInv, NEW sender \in Caller, DelegationRecorded(sender)
    PROVE  /\ TurnoverInv' /\ StopInv' /\ DismissalInv' /\ TrustInv'
           /\ TurnoverStep /\ StopStep /\ DismissalStep
<1>1. /\ UNCHANGED <<counterVars, turnover, accessVars, limitVars, stopVars>>
      /\ signer' = Zero
  BY DEF DelegationRecorded, Delegated, SetDelegatedSigner, ConfirmDelegatedSigner,
         RemoveDelegatedSigner
<1>2. /\ sender \in Address
      /\ delegatedSigner \in [Address -> [Address -> {"REJECTED", "PENDING", "ACCEPTED"}]]
  BY AvUSDAssumption, AccountsAssumption
     DEF HistoryInv, MintingStateInv, SettingsInv, SettingsTypeOK
<1>3. TrustInv'
  <2>1. PICK other \in {in[2] : in \in {pair \in DelegationInput : pair[1] = sender}} :
           \/ /\ SetDelegatedSigner(sender, other)
              /\ offers' = offers \cup {<<sender, other>>}
              /\ trusts' = trusts \ {<<sender, other>>}
           \/ /\ ConfirmDelegatedSigner(sender, other)
              /\ offers' = offers \ {<<other, sender>>}
              /\ trusts' = trusts \cup (offers \cap {<<other, sender>>})
           \/ /\ RemoveDelegatedSigner(sender, other)
              /\ offers' = offers \ {<<sender, other>>}
              /\ trusts' = trusts \ {<<sender, other>>}
    BY Zenon DEF DelegationRecorded, Delegated
  <2>2. other \in Address
    BY MintingAssumption
  <2>3. \A d, b \in Address :
           /\ delegatedSigner[d][b] = "ACCEPTED" => <<b, d>> \in trusts
           /\ delegatedSigner[d][b] = "PENDING" => <<b, d>> \in offers
    BY DEF HistoryInv, TrustInv
  <2>4. ASSUME NEW d \in Address, NEW b \in Address
        PROVE  /\ delegatedSigner'[d][b] = "ACCEPTED" => <<b, d>> \in trusts'
               /\ delegatedSigner'[d][b] = "PENDING" => <<b, d>> \in offers'
    <3>1. CASE /\ SetDelegatedSigner(sender, other)
               /\ offers' = offers \cup {<<sender, other>>}
               /\ trusts' = trusts \ {<<sender, other>>}
      <4>1. delegatedSigner' = [delegatedSigner EXCEPT ![other][sender] = "PENDING"]
        BY <3>1 DEF SetDelegatedSigner
      <4>2. CASE d = other /\ b = sender
        BY <1>2, <2>2, <3>1, <4>1, <4>2
      <4>3. CASE ~ (d = other /\ b = sender)
        <5>1. delegatedSigner'[d][b] = delegatedSigner[d][b]
          BY <1>2, <4>1, <4>3
        <5>2. <<b, d>> # <<sender, other>>
          BY <4>3
        <5> QED
          BY <2>3, <3>1, <5>1, <5>2
      <4> QED
        BY <4>2, <4>3
    <3>2. CASE /\ ConfirmDelegatedSigner(sender, other)
               /\ offers' = offers \ {<<other, sender>>}
               /\ trusts' = trusts \cup (offers \cap {<<other, sender>>})
      <4>1. /\ delegatedSigner' = [delegatedSigner EXCEPT ![sender][other] = "ACCEPTED"]
            /\ delegatedSigner[sender][other] = "PENDING"
        BY <3>2 DEF ConfirmDelegatedSigner
      <4>2. CASE d = sender /\ b = other
        <5>1. <<other, sender>> \in offers
          BY <1>2, <2>2, <2>3, <4>1
        <5>2. delegatedSigner'[d][b] = "ACCEPTED"
          BY <1>2, <2>2, <4>1, <4>2
        <5> QED
          BY <3>2, <4>2, <5>1, <5>2
      <4>3. CASE ~ (d = sender /\ b = other)
        <5>1. delegatedSigner'[d][b] = delegatedSigner[d][b]
          BY <1>2, <4>1, <4>3
        <5>2. <<b, d>> # <<other, sender>>
          BY <4>3
        <5> QED
          BY <2>3, <3>2, <5>1, <5>2
      <4> QED
        BY <4>2, <4>3
    <3>3. CASE /\ RemoveDelegatedSigner(sender, other)
               /\ offers' = offers \ {<<sender, other>>}
               /\ trusts' = trusts \ {<<sender, other>>}
      <4>1. delegatedSigner' = [delegatedSigner EXCEPT ![other][sender] = "REJECTED"]
        BY <3>3 DEF RemoveDelegatedSigner
      <4>2. CASE d = other /\ b = sender
        BY <1>2, <2>2, <4>1, <4>2
      <4>3. CASE ~ (d = other /\ b = sender)
        <5>1. delegatedSigner'[d][b] = delegatedSigner[d][b]
          BY <1>2, <4>1, <4>3
        <5>2. <<b, d>> # <<sender, other>>
          BY <4>3
        <5> QED
          BY <2>3, <3>3, <5>1, <5>2
      <4> QED
        BY <4>2, <4>3
    <3> QED
      BY <2>1, <3>1, <3>2, <3>3
  <2> QED
    BY <2>4 DEF TrustInv
<1> QED
  BY <1>1, <1>3, HistoryAside DEF HistoryInv, MintingStateInv, accessVars

LEMMA ManagementRecordedStep ==
    ASSUME HistoryInv, NEW sender \in Caller, ManagementRecorded(sender)
    PROVE  /\ TurnoverInv' /\ StopInv' /\ DismissalInv' /\ TrustInv'
           /\ TurnoverStep /\ StopStep /\ DismissalStep
<1>1. signer' = Zero /\ UNCHANGED <<trustVars, turnover>>
  BY DEF ManagementRecorded
<1>2. UNCHANGED counterVars
  BY ManagementIsOther, OtherCallSettings DEF HistoryInv, MintingStateInv
<1>3. UNCHANGED delegatedSigner
  BY DEF ManagementRecorded, Stopped, Managed, DisableMintRedeem, RemoveRole, LimitCall,
         SetMaxMintPerBlock, SetMaxRedeemPerBlock, SetStablesDeltaLimit, AccessCall,
         ListCall, AddSupportedAsset, RemoveSupportedAsset, AddCustodianAddress,
         RemoveCustodianAddress, TransferToCustody, TokenCall, mintingVars
<1>4. /\ TurnoverInv' /\ TrustInv' /\ StopStep /\ TurnoverStep /\ DismissalStep
      /\ UNCHANGED <<limitVars, stopVars>> => StopInv'
      /\ UNCHANGED <<members, stopVars>> => DismissalInv'
  BY <1>1, <1>2, <1>3, HistoryAside DEF HistoryInv, MintingStateInv
<1>5. /\ members \in [Role -> SUBSET Address]
      /\ stopped \in BOOLEAN /\ (stopped => maxMintPerBlock = 0 /\ maxRedeemPerBlock = 0)
      /\ \A in \in dismissed : in \in RoleInput /\ in[2] \notin members[in[1]]
  BY DEF HistoryInv, MintingStateInv, MintingInv, AccessInv, AccessTypeOK, StopInv,
         DismissalInv
<1>6. CASE DisableMintRedeem(sender) /\ stopped' = TRUE /\ UNCHANGED dismissed
  <2>1. StopInv'
    BY <1>6 DEF DisableMintRedeem, StopInv
  <2>2. DismissalInv'
    BY <1>5, <1>6 DEF DisableMintRedeem, DismissalInv, accessVars
  <2> QED
    BY <1>4, <2>1, <2>2
<1>7. ASSUME NEW in \in RoleInput, RemoveRole(sender, in[1], in[2]),
             dismissed' = dismissed \cup {in}, UNCHANGED stopped
      PROVE  StopInv' /\ DismissalInv'
  <2>1. /\ members' = [members EXCEPT ![in[1]] = members[in[1]] \ {in[2]}]
        /\ UNCHANGED mintingVars /\ in[1] \in Role
    BY <1>7, AccessAssumption, AccountsAssumption DEF RemoveRole, RevokeRoleInternal
  <2>2. StopInv'
    BY <1>5, <1>7, <2>1 DEF StopInv, mintingVars, limitVars
  <2>3. ASSUME NEW out \in dismissed'
        PROVE  out \in RoleInput /\ out[2] \notin members'[out[1]]
    <3>1. out \in RoleInput /\ out[1] \in Role
      BY <1>5, <1>7, <2>3, AccessAssumption, AccountsAssumption
    <3>2. CASE out = in
      BY <1>5, <2>1, <3>1, <3>2
    <3>3. CASE out # in
      <4>1. out[2] \notin members[out[1]]
        BY <1>5, <1>7, <2>3, <3>3
      <4>2. members'[out[1]] \subseteq members[out[1]]
        BY <1>5, <2>1, <3>1
      <4> QED
        BY <3>1, <4>1, <4>2
    <3> QED
      BY <3>2, <3>3
  <2> QED
    BY <2>2, <2>3 DEF DismissalInv
<1>8. CASE /\ LimitCall(sender)
           /\ stopped' = (stopped /\ maxMintPerBlock' = 0 /\ maxRedeemPerBlock' = 0)
           /\ UNCHANGED dismissed
  <2>1. StopInv'
    BY <1>8 DEF StopInv
  <2>2. UNCHANGED accessVars
    BY <1>8 DEF LimitCall, SetMaxMintPerBlock, SetMaxRedeemPerBlock, SetStablesDeltaLimit
  <2>3. DismissalInv'
    BY <1>5, <1>8, <2>2 DEF DismissalInv, accessVars
  <2> QED
    BY <1>4, <2>1, <2>3
<1>9. CASE /\ AccessCall(sender)
           /\ dismissed' = {in \in dismissed : in[2] \notin members'[in[1]]}
           /\ UNCHANGED stopped
  <2>1. UNCHANGED limitVars
    BY <1>9 DEF AccessCall, mintingVars
  <2>2. StopInv'
    BY <1>5, <1>9, <2>1 DEF StopInv, limitVars
  <2>3. DismissalInv'
    BY <1>5, <1>9 DEF DismissalInv
  <2> QED
    BY <1>4, <2>2, <2>3
<1>10. CASE (ListCall(sender) \/ TokenCall(sender)) /\ UNCHANGED stopVars
  <2>1. UNCHANGED <<accessVars, limitVars>>
    BY <1>10 DEF ListCall, AddSupportedAsset, RemoveSupportedAsset, AddCustodianAddress,
                 RemoveCustodianAddress, TransferToCustody, TokenCall, mintingVars
  <2> QED
    BY <1>4, <1>10, <2>1 DEF accessVars
<1> QED
  BY <1>4, <1>6, <1>7, <1>8, <1>9, <1>10, Zenon DEF ManagementRecorded, Stopped, Managed

LEMMA EnvironmentRecordedStep ==
    ASSUME HistoryInv,
           \/ \E in \in CollateralInput : SendingRecorded(in)
           \/ BlockRecorded
    PROVE  /\ TurnoverInv' /\ StopInv' /\ DismissalInv' /\ TrustInv'
           /\ TurnoverStep /\ StopStep /\ DismissalStep
<1>1. /\ signer' = Zero
      /\ UNCHANGED <<accessVars, limitVars, counterVars, delegatedSigner, trustVars,
                     turnover, stopVars>>
  BY DEF SendingRecorded, SendCollateral, BlockRecorded, NewBlock
<1> QED
  BY <1>1, HistoryAside DEF HistoryInv, MintingStateInv, accessVars

LEMMA HistoryInitial ==
    ASSUME HistoryInit
    PROVE  HistoryInv
<1>1. MintingInit /\ MintingStateInv
  BY MintingStateInitial DEF HistoryInit
<1>2. TurnoverInv /\ StopInv /\ DismissalInv
  BY <1>1 DEF HistoryInit, MintingInit, TurnoverInv, StopInv, DismissalInv
<1>3. TrustInv
  BY <1>1 DEF MintingInit, TrustInv
<1> QED
  BY <1>1, <1>2, <1>3 DEF HistoryInv

LEMMA HistoryStep ==
    ASSUME HistoryInv, HistoryNext
    PROVE  HistoryInv' /\ TurnoverStep /\ StopStep /\ DismissalStep
<1>1. MintingStateInv'
  BY HistoryStepIsMinting, MintingStateStep DEF HistoryInv
<1>2. /\ TurnoverInv' /\ StopInv' /\ DismissalInv' /\ TrustInv'
      /\ TurnoverStep /\ StopStep /\ DismissalStep
  BY HistoryKinds, OrderRecordedStep, DelegationRecordedStep, ManagementRecordedStep,
     EnvironmentRecordedStep, Zenon
<1> QED
  BY <1>1, <1>2 DEF HistoryInv

LEMMA HistoryStutter ==
    ASSUME HistoryInv, UNCHANGED historyVars
    PROVE  HistoryInv'
<1>1. MintingStateInv'
  BY MintingStateStep DEF HistoryInv, historyVars
<1>2. UNCHANGED <<accessVars, limitVars, counterVars, delegatedSigner, trustVars,
                  turnover, stopVars>>
  BY DEF historyVars, allVars, mintingVars
<1> QED
  BY <1>1, <1>2
     DEF HistoryInv, TurnoverInv, StopInv, DismissalInv, TrustInv,
         accessVars, limitVars, counterVars, trustVars, turnover, stopVars

-----------------------------------------------------------------------------

\* The history only watches: every behaviour with it is one of the contract.
THEOREM HistoryImplementsMinting == HistorySpec => MintingSpec
<1>1. HistoryInit => MintingInit
  BY DEF HistoryInit
<1>2. [HistoryNext]_historyVars => [MintingNext]_allVars
  BY HistoryStepIsMinting
<1> QED
  BY <1>1, <1>2, PTL DEF HistorySpec, MintingSpec

\* The inductive invariant of the history.
THEOREM HistoryInvariant == HistorySpec => []HistoryInv
<1>1. HistoryInit => HistoryInv
  BY HistoryInitial
<1>2. HistoryInv /\ [HistoryNext]_historyVars => HistoryInv'
  BY HistoryStep, HistoryStutter
<1> QED
  BY <1>1, <1>2, PTL DEF HistorySpec

\* What orders issue and retire in a block is within the limits in force when they
\* execute, counted on the supply itself.
THEOREM TurnoverIsLimited == HistorySpec => TurnoverWithinLimits
<1>1. HistoryInv /\ HistoryNext => TurnoverStep
  BY HistoryStep
<1> QED
  BY <1>1, HistoryInvariant, PTL DEF HistorySpec, TurnoverWithinLimits, TurnoverStep

\* A gatekeeper's stop holds until the admin raises a limit.
THEOREM StopIsEffective == HistorySpec => StopHolds
<1>1. HistoryInv /\ HistoryNext => StopStep
  BY HistoryStep
<1> QED
  BY <1>1, HistoryInvariant, PTL DEF HistorySpec, StopHolds, StopStep

\* A dismissed minter or redeemer executes no order until the admin grants the role.
THEOREM DismissalIsEffective == HistorySpec => DismissalHolds
<1>1. HistoryInv /\ HistoryNext => DismissalStep
  BY HistoryStep
<1> QED
  BY <1>1, HistoryInvariant, PTL DEF HistorySpec, DismissalHolds, DismissalStep

-----------------------------------------------------------------------------
(* On whose word collateral and avUSD leave an account. *)

Trusted(a) == msgSender' = a \/ signer' = a \/ <<a, signer'>> \in trusts

\* OnlyOnTrustedOrder, of one step.
ConsentStep ==
    \A a \in Address \ {Minting} :
       LET trusted == msgSender' = a \/ signer' = a \/ <<a, signer'>> \in trusts
           lost    == avUSDBalance[a] - avUSDBalance'[a]
           given   == avUSDAllowance[a][msgSender']
       IN  /\ (\E asset \in Asset : collateral'[asset][a] < collateral[asset][a]) => trusted
           /\ lost > 0 =>
                 \/ trusted
                 \/ /\ signer' = Zero
                    /\ \/ given = MAX_UINT
                       \/ /\ given >= lost
                          /\ avUSDAllowance'[a][msgSender'] = given - lost

\* What ConsentStep asks of one account, in two parts.
CollateralConsent(a) ==
    (\E asset \in Asset : collateral'[asset][a] < collateral[asset][a]) => Trusted(a)

AllowanceCovers(a, sender) ==
    LET lost  == avUSDBalance[a] - avUSDBalance'[a]
        given == avUSDAllowance[a][sender]
    IN  \/ given = MAX_UINT
        \/ given >= lost /\ avUSDAllowance'[a][sender] = given - lost

AvUSDConsent(a) ==
    avUSDBalance[a] - avUSDBalance'[a] > 0 =>
       Trusted(a) \/ (signer' = Zero /\ AllowanceCovers(a, msgSender'))

LEMMA ConsentOfEach ==
    ASSUME \A a \in Address \ {Minting} : CollateralConsent(a) /\ AvUSDConsent(a)
    PROVE  ConsentStep
BY DEF ConsentStep, CollateralConsent, AvUSDConsent, AllowanceCovers, Trusted

\* Collateral that stays, or grows, asks for no consent.
LEMMA NoCollateralLost ==
    ASSUME CollateralTypeOK, CollateralTypeOK', NEW a \in Address,
           \A asset \in Asset : collateral'[asset][a] >= collateral[asset][a]
    PROVE  CollateralConsent(a)
<1>1. ASSUME NEW asset \in Asset
      PROVE  ~ collateral'[asset][a] < collateral[asset][a]
  <2>1. collateral'[asset][a] \in Nat /\ collateral[asset][a] \in Nat
    BY DEF CollateralTypeOK
  <2> QED
    BY <2>1
<1> QED
  BY <1>1 DEF CollateralConsent

LEMMA NoAvUSDLost ==
    ASSUME CoinTypeOK, NEW a \in Address,
           avUSDBalance'[a] = avUSDBalance[a] \/ \E v \in Nat : avUSDBalance'[a] = avUSDBalance[a] + v
    PROVE  AvUSDConsent(a)
<1>1. avUSDBalance[a] \in Nat
  BY DEF CoinTypeOK
<1> QED
  BY <1>1 DEF AvUSDConsent

\* A spender's use of an allowance covers what it takes.
LEMMA SpendCovers ==
    ASSUME CoinTypeOK, NEW a \in Address, NEW sender \in Address, NEW amount \in Nat,
           SpendAvUSD(a, sender, amount), avUSDBalance[a] - avUSDBalance'[a] = amount
    PROVE  AllowanceCovers(a, sender)
<1>1. avUSDAllowance \in [Address -> [Address -> Nat]]
  BY DEF CoinTypeOK
<1> QED
  BY <1>1 DEF SpendAvUSD, AllowanceCovers

\* A transfer takes from one account only, and as much as is sent, or nothing.
LEMMA TransferTakes ==
    ASSUME CoinTypeOK, NEW from \in Address, NEW to \in Address, NEW amount \in Nat,
           avUSDBalance[from] >= amount, NEW a \in Address,
           avUSDBalance' = Move(avUSDBalance, from, to, amount)
    PROVE  \/ avUSDBalance'[a] = avUSDBalance[a]
           \/ avUSDBalance'[a] = avUSDBalance[a] + amount
           \/ a = from /\ avUSDBalance[a] - avUSDBalance'[a] = amount
<1> DEFINE table == avUSDBalance
           moved == Move(table, from, to, amount)
<1>1. table \in [Address -> Nat] /\ IsFiniteSet(Address) /\ table[from] \in Nat
  BY AvUSDAssumption, AccountsAssumption DEF CoinTypeOK
<1> HIDE DEF table
<1>2. /\ \A b \in Address \ {from, to} : moved[b] = table[b]
      /\ from # to => moved[from] = table[from] - amount /\ moved[to] = table[to] + amount
      /\ from = to => moved[to] = table[to]
  <2>1. table[from] >= amount
    BY DEF table
  <2> QED
    BY <1>1, <2>1, MoveEffect
<1>3. avUSDBalance' = moved
  BY DEF table
<1> HIDE DEF moved
<1> QED
  BY <1>1, <1>2, <1>3 DEF table

\* Calls of the token take avUSD from the caller, or within an allowance.
LEMMA AvUSDCallConsent ==
    ASSUME CoinTypeOK, NEW sender \in Caller, AvUSDCall(sender),
           signer' = Zero, msgSender' = sender, NEW a \in Address
    PROVE  AvUSDConsent(a)
<1> SUFFICES ASSUME a # sender
             PROVE  AvUSDConsent(a)
  BY DEF AvUSDConsent, Trusted
<1>1. sender \in Address /\ avUSDBalance \in [Address -> Nat] /\ avUSDBalance[a] \in Nat
  BY AvUSDAssumption, AccountsAssumption DEF CoinTypeOK
<1>2. ASSUME NEW account \in Address, NEW amount \in Nat, DestroyAvUSD(account, amount)
      PROVE  IF a = account THEN avUSDBalance[a] - avUSDBalance'[a] = amount
                            ELSE avUSDBalance'[a] = avUSDBalance[a]
  BY <1>1, <1>2 DEF DestroyAvUSD
<1>3. ASSUME NEW amount \in AvUSDAmount, AvUSDBurn(sender, amount)
      PROVE  AvUSDConsent(a)
  <2>1. avUSDBalance'[a] = avUSDBalance[a]
    BY <1>1, <1>2, <1>3, AvUSDAssumption, AccountsAssumption DEF AvUSDBurn
  <2> QED
    BY <2>1, NoAvUSDLost
<1>4. ASSUME NEW amount \in AvUSDAmount, NEW from \in Address, AvUSDBurnFrom(sender, from, amount)
      PROVE  AvUSDConsent(a)
  <2>1. amount \in Nat /\ DestroyAvUSD(from, amount) /\ SpendAvUSD(from, sender, amount)
    BY <1>4, AvUSDAssumption, AccountsAssumption DEF AvUSDBurnFrom
  <2>2. CASE a = from
    <3>1. AllowanceCovers(a, sender)
      BY <1>1, <1>2, <2>1, <2>2, SpendCovers
    <3> QED
      BY <3>1 DEF AvUSDConsent
  <2>3. CASE a # from
    BY <1>2, <2>1, <2>3, NoAvUSDLost
  <2> QED
    BY <2>2, <2>3
<1>5. ASSUME NEW amount \in AvUSDAmount, NEW to \in AvUSDRecipient,
             AvUSDTransfer(sender, to, amount)
      PROVE  AvUSDConsent(a)
  <2>1. /\ amount \in Nat /\ to \in Address /\ avUSDBalance[sender] >= amount
        /\ avUSDBalance' = Move(avUSDBalance, sender, to, amount)
    BY <1>5, AvUSDAssumption, AccountsAssumption DEF AvUSDTransfer
  <2>2. avUSDBalance'[a] = avUSDBalance[a] \/ avUSDBalance'[a] = avUSDBalance[a] + amount
    BY <1>1, <2>1, TransferTakes
  <2> QED
    BY <2>1, <2>2, NoAvUSDLost
<1>6. ASSUME NEW amount \in AvUSDAmount, NEW to \in AvUSDRecipient, NEW from \in Address,
             AvUSDTransferFrom(sender, from, to, amount)
      PROVE  AvUSDConsent(a)
  <2>1. /\ amount \in Nat /\ to \in Address /\ avUSDBalance[from] >= amount
        /\ avUSDBalance' = Move(avUSDBalance, from, to, amount)
        /\ SpendAvUSD(from, sender, amount)
    BY <1>6, AvUSDAssumption, AccountsAssumption DEF AvUSDTransferFrom
  <2>2. \/ avUSDBalance'[a] = avUSDBalance[a]
        \/ avUSDBalance'[a] = avUSDBalance[a] + amount
        \/ a = from /\ avUSDBalance[a] - avUSDBalance'[a] = amount
    BY <1>1, <2>1, TransferTakes
  <2>3. CASE avUSDBalance'[a] = avUSDBalance[a] \/ avUSDBalance'[a] = avUSDBalance[a] + amount
    BY <2>1, <2>3, NoAvUSDLost
  <2>4. CASE a = from /\ avUSDBalance[a] - avUSDBalance'[a] = amount
    <3>1. AllowanceCovers(a, sender)
      BY <1>1, <2>1, <2>4, SpendCovers
    <3> QED
      BY <3>1 DEF AvUSDConsent
  <2> QED
    BY <2>2, <2>3, <2>4
<1>7. ASSUME UNCHANGED avUSDBalance
      PROVE  AvUSDConsent(a)
  BY <1>7, NoAvUSDLost
<1>8. ASSUME NEW in, AvUSDApprove(sender, in[2], in[3])
      PROVE  AvUSDConsent(a)
  BY <1>7, <1>8 DEF AvUSDApprove
<1>9. ASSUME NEW newMinter, SetMinter(sender, newMinter)
      PROVE  AvUSDConsent(a)
  BY <1>7, <1>9 DEF SetMinter, coinVars
<1>10. ASSUME NEW newOwner, TransferOwnership(sender, newOwner)
       PROVE  AvUSDConsent(a)
  BY <1>7, <1>10 DEF TransferOwnership, coinVars
<1>11. ASSUME AcceptOwnership(sender)
       PROVE  AvUSDConsent(a)
  BY <1>7, <1>11 DEF AcceptOwnership, coinVars
<1> QED
  BY <1>3, <1>4, <1>5, <1>6, <1>8, <1>9, <1>10, <1>11, Zenon DEF AvUSDCall

\* The signer of an order is its benefactor, or one the benefactor trusts.
LEMMA SignerIsTrusted ==
    ASSUME TrustInv, NEW order \in OrderInput, NEW signature \in SignatureInput,
           VerifySignature(order, signature), signer' = signature.signer
    PROVE  Trusted(order.benefactor)
<1>1. order.benefactor \in Address /\ signature.signer \in Address
  BY OrderFields, MintingAssumption DEF Signature
<1> QED
  BY <1>1 DEF TrustInv, VerifySignature, Trusted

LEMMA MintConsent ==
    ASSUME HistoryInv, NEW order \in OrderInput, NEW signature \in SignatureInput,
           NEW route \in RouteInput, NEW sender \in Caller,
           Mint(sender, order, route, signature), signer' = signature.signer,
           NEW a \in Address
    PROVE  CollateralConsent(a) /\ AvUSDConsent(a)
<1> DEFINE asset == order.collateral_asset
           b == order.benefactor
<1>1. /\ SettingsInv /\ SettingsTypeOK /\ CollateralTypeOK /\ CoinTypeOK /\ TrustInv
      /\ b \in Address /\ order.avusd_amount \in Nat
  BY OrderFields
     DEF HistoryInv, MintingStateInv, MintingInv, SettingsInv, AvUSDInv, CoinInv
<1>2. Trusted(b)
  BY <1>1, SignerIsTrusted DEF Mint, VerifyOrder
<1>3. /\ CollateralTypeOK'
      /\ \A other \in Asset \ {asset} : collateral'[other] = collateral[other]
      /\ PaidOut(Address, custodianAddresses, b, collateral[asset], collateral'[asset],
                 order.collateral_amount)
  BY <1>1, CollateralPaid DEF Mint
<1>4. CollateralConsent(a)
  <2>1. CASE a = b
    BY <1>2, <2>1 DEF CollateralConsent
  <2>2. CASE a # b
    <3>1. ASSUME NEW other \in Asset
          PROVE  collateral'[other][a] >= collateral[other][a]
      <4>1. collateral[other][a] \in Nat
        BY <1>1 DEF CollateralTypeOK
      <4>2. CASE other = asset
        BY <1>3, <2>2, <4>2 DEF PaidOut
      <4>3. CASE other # asset
        BY <1>3, <4>1, <4>3
      <4> QED
        BY <4>2, <4>3
    <3> QED
      BY <1>1, <1>3, <3>1, NoCollateralLost
  <2> QED
    BY <2>1, <2>2
<1>5. AvUSDConsent(a)
  <2>1. avUSDBalance' = [avUSDBalance EXCEPT ![order.beneficiary] = @ + order.avusd_amount]
    BY DEF Mint, AvUSDMint
  <2>2. \/ avUSDBalance'[a] = avUSDBalance[a]
        \/ avUSDBalance'[a] = avUSDBalance[a] + order.avusd_amount
    BY <1>1, <2>1 DEF CoinTypeOK
  <2> QED
    BY <1>1, <2>2, NoAvUSDLost
<1> QED
  BY <1>4, <1>5

LEMMA RedemptionConsent ==
    ASSUME HistoryInv, NEW order \in OrderInput, NEW signature \in SignatureInput,
           NEW sender \in Caller,
           Redeem(sender, order, signature), signer' = signature.signer,
           NEW a \in Address \ {Minting}
    PROVE  CollateralConsent(a) /\ AvUSDConsent(a)
<1> DEFINE asset == order.collateral_asset
           b == order.benefactor
<1>1. /\ SettingsTypeOK /\ CollateralTypeOK /\ CoinTypeOK /\ TrustInv
      /\ b \in Address /\ order.avusd_amount \in Nat
  BY OrderFields
     DEF HistoryInv, MintingStateInv, MintingInv, SettingsInv, AvUSDInv, CoinInv
<1>2. Trusted(b)
  BY <1>1, SignerIsTrusted DEF Redeem, VerifyOrder
<1>3. CollateralConsent(a)
  <2>1. /\ CollateralTypeOK'
        /\ \A other \in Asset \ {asset} : collateral'[other] = collateral[other]
        /\ collateral'[asset][a] >= collateral[asset][a]
    BY <1>1, CollateralRedeemed DEF Redeem
  <2>2. ASSUME NEW other \in Asset
        PROVE  collateral'[other][a] >= collateral[other][a]
    <3>1. collateral[other][a] \in Nat
      BY <1>1 DEF CollateralTypeOK
    <3> QED
      BY <2>1, <3>1
  <2> QED
    BY <1>1, <2>1, <2>2, NoCollateralLost
<1>4. AvUSDConsent(a)
  <2>1. CASE a = b
    BY <1>2, <2>1 DEF AvUSDConsent
  <2>2. CASE a # b
    <3>1. avUSDBalance' = [avUSDBalance EXCEPT ![b] = @ - order.avusd_amount]
      BY DEF Redeem, AvUSDBurnFrom, DestroyAvUSD
    <3>2. avUSDBalance'[a] = avUSDBalance[a]
      BY <1>1, <2>2, <3>1 DEF CoinTypeOK
    <3> QED
      BY <1>1, <3>2, NoAvUSDLost
  <2> QED
    BY <2>1, <2>2
<1> QED
  BY <1>3, <1>4

\* Calls that execute no order.
LEMMA OtherCallConsent ==
    ASSUME HistoryInv, NEW sender \in Caller, OtherCall(sender),
           signer' = Zero, msgSender' = sender, NEW a \in Address \ {Minting}
    PROVE  CollateralConsent(a) /\ AvUSDConsent(a)
<1>1. /\ CollateralTypeOK /\ CoinTypeOK /\ CollateralTypeOK' /\ Minting \in Address
  BY MintingAssumption, OtherCallState
     DEF HistoryInv, MintingStateInv, MintingInv, AvUSDInv, CoinInv
<1>2. CollateralConsent(a)
  <2>1. CASE UNCHANGED collateral
    BY <1>1, <2>1, NoCollateralLost DEF CollateralTypeOK, CollateralConsent
  <2>2. ASSUME NEW wallet \in CustodianInput, NEW in \in CustodyInput, in[1] # AvUSDToken,
               MoveCollateral(in[1], Minting, wallet, in[2])
        PROVE  CollateralConsent(a)
    <3>1. in[1] \in Asset /\ in[2] \in Nat /\ wallet \in Address
      BY <2>2, MintingAssumption
    <3>2. /\ \A other \in Asset \ {in[1]} : collateral'[other] = collateral[other]
          /\ collateral'[in[1]][a] >= collateral[in[1]][a]
      BY <1>1, <2>2, <3>1, MoveCollateralEffect
    <3>3. ASSUME NEW asset \in Asset
          PROVE  collateral'[asset][a] >= collateral[asset][a]
      <4>1. collateral[asset][a] \in Nat
        BY <1>1 DEF CollateralTypeOK
      <4> QED
        BY <3>2, <4>1
    <3> QED
      BY <1>1, <3>3, NoCollateralLost
  <2> QED
    BY <2>1, <2>2, OtherCallCollateral, Zenon
<1>3. AvUSDConsent(a)
  <2>1. \/ AvUSDCall(sender)
        \/ MinterCall(sender)
        \/ UNCHANGED avUSDVars
        \/ \E wallet \in CustodianInput, in \in CustodyInput :
              AvUSDTransfer(Minting, wallet, in[2])
    BY DEF OtherCall, DelegationOrLimitCall, SetDelegatedSigner, ConfirmDelegatedSigner,
           RemoveDelegatedSigner, LimitCall, SetMaxMintPerBlock, SetMaxRedeemPerBlock,
           SetStablesDeltaLimit, DisableMintRedeem, ListCall, AddSupportedAsset,
           RemoveSupportedAsset, AddCustodianAddress, RemoveCustodianAddress,
           TransferToCustody, RemovalCall, RemoveRole, AccessCall, TokenCall
  <2>2. CASE AvUSDCall(sender)
    BY <1>1, <2>2, AvUSDCallConsent
  <2>5. CASE MinterCall(sender)
    <3>1. AvUSDInv' /\ avUSDBalance'[a] >= avUSDBalance[a]
      BY <2>5, MinterCallKeeps DEF HistoryInv, MintingStateInv, MintingInv
    <3>2. avUSDBalance[a] \in Nat /\ avUSDBalance'[a] \in Nat
      BY <1>1, <3>1 DEF AvUSDInv, CoinInv, CoinTypeOK
    <3>3. avUSDBalance'[a] = avUSDBalance[a] + (avUSDBalance'[a] - avUSDBalance[a])
      BY <3>2
    <3>4. avUSDBalance'[a] - avUSDBalance[a] \in Nat
      BY <3>1, <3>2
    <3> QED
      BY <1>1, <3>3, <3>4, NoAvUSDLost
  <2>3. CASE UNCHANGED avUSDVars
    BY <1>1, <2>3, NoAvUSDLost DEF avUSDVars, coinVars
  <2>4. ASSUME NEW wallet \in CustodianInput, NEW in \in CustodyInput,
               AvUSDTransfer(Minting, wallet, in[2])
        PROVE  AvUSDConsent(a)
    <3>1. wallet \in Address /\ in[2] \in Nat
      BY MintingAssumption
    <3>2. /\ avUSDBalance[Minting] >= in[2]
          /\ avUSDBalance' = Move(avUSDBalance, Minting, wallet, in[2])
      BY <2>4 DEF AvUSDTransfer
    <3>3. avUSDBalance'[a] = avUSDBalance[a] \/ avUSDBalance'[a] = avUSDBalance[a] + in[2]
      BY <1>1, <3>1, <3>2, TransferTakes
    <3> QED
      BY <1>1, <3>1, <3>3, NoAvUSDLost
  <2> QED
    BY <2>1, <2>2, <2>3, <2>4, <2>5
<1> QED
  BY <1>2, <1>3

LEMMA EnvironmentConsent ==
    ASSUME HistoryInv, NEW a \in Address,
           \/ \E in \in CollateralInput : SendingRecorded(in)
           \/ BlockRecorded
    PROVE  CollateralConsent(a) /\ AvUSDConsent(a)
<1>1. CollateralTypeOK /\ CoinTypeOK
  BY DEF HistoryInv, MintingStateInv, MintingInv, AvUSDInv, CoinInv
<1>2. AvUSDConsent(a)
  <2>1. UNCHANGED avUSDBalance
    BY DEF SendingRecorded, SendCollateral, BlockRecorded, NewBlock, avUSDVars, coinVars
  <2> QED
    BY <1>1, <2>1, NoAvUSDLost
<1>3. ASSUME NEW in \in CollateralInput, SendingRecorded(in)
      PROVE  CollateralConsent(a)
  <2>1. CASE a = in[2]
    BY <1>3, <2>1 DEF SendingRecorded, CollateralConsent, Trusted
  <2>2. CASE a # in[2]
    <3>1. /\ in[1] \in Asset /\ in[2] \in Address /\ in[3] \in Address /\ in[4] \in Nat
          /\ MoveCollateral(in[1], in[2], in[3], in[4])
      BY <1>3, MintingAssumption DEF SendingRecorded, SendCollateral
    <3>2. /\ CollateralTypeOK'
          /\ \A other \in Asset \ {in[1]} : collateral'[other] = collateral[other]
          /\ collateral'[in[1]][a] >= collateral[in[1]][a]
      BY <1>1, <2>2, <3>1, MoveCollateralEffect
    <3>3. ASSUME NEW asset \in Asset
          PROVE  collateral'[asset][a] >= collateral[asset][a]
      <4>1. collateral[asset][a] \in Nat
        BY <1>1 DEF CollateralTypeOK
      <4> QED
        BY <3>2, <4>1
    <3> QED
      BY <1>1, <3>2, <3>3, NoCollateralLost
  <2> QED
    BY <2>1, <2>2
<1>4. ASSUME BlockRecorded
      PROVE  CollateralConsent(a)
  <2>1. UNCHANGED collateral
    BY <1>4 DEF BlockRecorded, NewBlock
  <2>2. CollateralTypeOK'
    BY <1>1, <2>1 DEF CollateralTypeOK
  <2> QED
    BY <1>1, <2>1, <2>2, NoCollateralLost DEF CollateralTypeOK
<1> QED
  BY <1>2, <1>3, <1>4, Zenon

LEMMA EachConsents ==
    ASSUME HistoryInv, HistoryNext
    PROVE  ConsentStep
<1> SUFFICES ASSUME NEW a \in Address \ {Minting}
             PROVE  CollateralConsent(a) /\ AvUSDConsent(a)
  BY ConsentOfEach
<1>1. ASSUME NEW sender \in Caller, NEW order \in OrderInput, NEW signature \in SignatureInput,
             OrderRecorded(sender, order, signature)
      PROVE  CollateralConsent(a) /\ AvUSDConsent(a)
  <2>1. OrderCall(sender, order, signature) /\ signer' = signature.signer
    BY <1>1 DEF OrderRecorded
  <2> QED
    BY <2>1, MintConsent, RedemptionConsent DEF OrderCall
<1>2. ASSUME NEW sender \in Caller, DelegationRecorded(sender) \/ ManagementRecorded(sender)
      PROVE  CollateralConsent(a) /\ AvUSDConsent(a)
  <2>1. OtherCall(sender)
    BY <1>2, ManagementIsOther
  <2>2. signer' = Zero /\ msgSender' = sender
    BY <1>2 DEF DelegationRecorded, Delegated, ManagementRecorded
  <2> QED
    BY <2>1, <2>2, OtherCallConsent
<1> QED
  BY <1>1, <1>2, EnvironmentConsent, HistoryKinds, Zenon

\* Nobody's collateral or avUSD leaves but by its own call, by an order it signed or
\* that a signer it trusts has signed, or within an allowance it gave.
THEOREM OrdersAreTrusted == HistorySpec => OnlyOnTrustedOrder
<1>1. HistoryInv /\ HistoryNext => ConsentStep
  BY EachConsents
<1> QED
  BY <1>1, HistoryInvariant, PTL DEF HistorySpec, OnlyOnTrustedOrder, ConsentStep
=============================================================================
