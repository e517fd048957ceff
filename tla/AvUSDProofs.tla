----------------------------- MODULE AvUSDProofs -----------------------------
(***************************************************************************)
(* Machine-checked theorems about the token: in every reachable state the  *)
(* types hold and the supply is the sum of the balances.  The lemma about  *)
(* each operation serves whatever contract calls it.                       *)
(***************************************************************************)
EXTENDS AvUSD, VaultMathProofs

-----------------------------------------------------------------------------
(* Operations. *)

LEMMA CoinFrame ==
    ASSUME CoinInv, UNCHANGED coinVars
    PROVE  CoinInv'
BY DEF CoinInv, CoinTypeOK, AvUSDSupplyIsBalances, coinVars

LEMMA OwnershipFrame ==
    ASSUME OwnershipTypeOK, UNCHANGED ownershipVars
    PROVE  OwnershipTypeOK'
BY DEF OwnershipTypeOK, ownershipVars

LEMMA BalanceBelowSupply ==
    ASSUME CoinInv, NEW a \in Address
    PROVE  avUSDBalance[a] \in Nat /\ avUSDBalance[a] <= avUSDSupply
<1>1. avUSDBalance \in [Address -> Nat] /\ IsFiniteSet(Address)
  BY AvUSDAssumption, AccountsAssumption DEF CoinInv, CoinTypeOK
<1>2. avUSDBalance[a] <= Total(avUSDBalance)
  BY <1>1, TotalBounds
<1> QED
  BY <1>1, <1>2 DEF CoinInv, AvUSDSupplyIsBalances

LEMMA BalanceUpdate ==
    ASSUME CoinInv, NEW a \in Address, NEW v \in Nat
    PROVE  Total([avUSDBalance EXCEPT ![a] = v]) = avUSDSupply - avUSDBalance[a] + v
<1>1. avUSDBalance \in [Address -> Nat] /\ IsFiniteSet(Address)
  BY AvUSDAssumption, AccountsAssumption DEF CoinInv, CoinTypeOK
<1>2. Total([avUSDBalance EXCEPT ![a] = v]) = Total(avUSDBalance) - avUSDBalance[a] + v
  BY <1>1, TotalUpdate
<1> QED
  BY <1>2 DEF CoinInv, AvUSDSupplyIsBalances

LEMMA SpendType ==
    ASSUME CoinInv, NEW account \in Address, NEW spender \in Address,
           NEW amount \in Nat, SpendAvUSD(account, spender, amount)
    PROVE  avUSDAllowance' \in [Address -> [Address -> Nat]]
<1>1. avUSDAllowance \in [Address -> [Address -> Nat]]
  BY DEF CoinInv, CoinTypeOK
<1>2. CASE UNCHANGED avUSDAllowance
  BY <1>1, <1>2
<1>3. CASE /\ avUSDAllowance[account][spender] >= amount
           /\ avUSDAllowance' = [avUSDAllowance EXCEPT
                 ![account][spender] = avUSDAllowance[account][spender] - amount]
  BY <1>1, <1>3
<1> QED
  BY <1>2, <1>3 DEF SpendAvUSD

LEMMA MintKeeps ==
    ASSUME CoinInv, NEW sender, NEW to \in Address, NEW amount \in Nat,
           AvUSDMint(sender, to, amount)
    PROVE  CoinInv' /\ avUSDSupply' = avUSDSupply + amount /\ UNCHANGED ownershipVars
<1>1. /\ avUSDBalance' = [avUSDBalance EXCEPT ![to] = avUSDBalance[to] + amount]
      /\ avUSDSupply' = avUSDSupply + amount
      /\ UNCHANGED <<avUSDAllowance, ownershipVars>>
  BY DEF AvUSDMint
<1>2. /\ avUSDBalance \in [Address -> Nat] /\ avUSDSupply \in Nat
      /\ avUSDAllowance \in [Address -> [Address -> Nat]]
      /\ avUSDBalance[to] \in Nat /\ avUSDBalance[to] + amount \in Nat
  BY DEF CoinInv, CoinTypeOK
<1>3. Total(avUSDBalance') = avUSDSupply - avUSDBalance[to] + (avUSDBalance[to] + amount)
  BY <1>1, <1>2, BalanceUpdate
<1> QED
  BY <1>1, <1>2, <1>3 DEF CoinInv, CoinTypeOK, AvUSDSupplyIsBalances

LEMMA DestroyKeeps ==
    ASSUME CoinInv, NEW account \in Address, NEW amount \in Nat,
           DestroyAvUSD(account, amount),
           avUSDAllowance' \in [Address -> [Address -> Nat]]
    PROVE  /\ CoinInv' /\ UNCHANGED ownershipVars
           /\ avUSDSupply' = avUSDSupply - amount /\ amount <= avUSDSupply
<1>1. /\ avUSDBalance[account] >= amount
      /\ avUSDBalance' = [avUSDBalance EXCEPT ![account] = avUSDBalance[account] - amount]
      /\ avUSDSupply' = avUSDSupply - amount
      /\ UNCHANGED ownershipVars
  BY DEF DestroyAvUSD
<1>2. /\ avUSDBalance \in [Address -> Nat] /\ avUSDSupply \in Nat
      /\ avUSDBalance[account] <= avUSDSupply
      /\ avUSDBalance[account] - amount \in Nat
  BY <1>1, BalanceBelowSupply DEF CoinInv, CoinTypeOK
<1>3. Total(avUSDBalance')
         = avUSDSupply - avUSDBalance[account] + (avUSDBalance[account] - amount)
  BY <1>1, <1>2, BalanceUpdate
<1> QED
  BY <1>1, <1>2, <1>3 DEF CoinInv, CoinTypeOK, AvUSDSupplyIsBalances

LEMMA BurnKeeps ==
    ASSUME CoinInv, NEW sender \in Address, NEW account \in Address, NEW amount \in Nat,
           \/ AvUSDBurn(account, amount)
           \/ AvUSDBurnFrom(sender, account, amount)
    PROVE  /\ CoinInv' /\ UNCHANGED ownershipVars
           /\ avUSDSupply' = avUSDSupply - amount /\ amount <= avUSDSupply
<1>1. DestroyAvUSD(account, amount)
  BY DEF AvUSDBurn, AvUSDBurnFrom
<1>2. avUSDAllowance' \in [Address -> [Address -> Nat]]
  BY SpendType DEF AvUSDBurn, AvUSDBurnFrom, CoinInv, CoinTypeOK
<1> QED
  BY <1>1, <1>2, DestroyKeeps

LEMMA TransferKeeps ==
    ASSUME CoinInv, NEW sender \in Address, NEW from \in Address, NEW to \in Address,
           NEW amount \in Nat,
           \/ AvUSDTransfer(from, to, amount)
           \/ AvUSDTransferFrom(sender, from, to, amount)
    PROVE  CoinInv' /\ UNCHANGED <<avUSDSupply, ownershipVars>>
<1>1. /\ avUSDBalance' = Move(avUSDBalance, from, to, amount)
      /\ amount <= avUSDBalance[from]
      /\ UNCHANGED <<avUSDSupply, ownershipVars>>
  BY BalanceBelowSupply DEF AvUSDTransfer, AvUSDTransferFrom
<1>2. avUSDAllowance' \in [Address -> [Address -> Nat]]
  BY SpendType DEF AvUSDTransfer, AvUSDTransferFrom, CoinInv, CoinTypeOK
<1>3. /\ avUSDBalance \in [Address -> Nat] /\ avUSDSupply \in Nat
      /\ IsFiniteSet(Address) /\ avUSDSupply = Total(avUSDBalance)
  BY AvUSDAssumption, AccountsAssumption DEF CoinInv, CoinTypeOK, AvUSDSupplyIsBalances
<1>4. avUSDBalance' \in [Address -> Nat] /\ Total(avUSDBalance') = Total(avUSDBalance)
  BY <1>1, <1>3, MoveTotal
<1> QED
  BY <1>1, <1>2, <1>3, <1>4 DEF CoinInv, CoinTypeOK, AvUSDSupplyIsBalances

LEMMA ApproveKeeps ==
    ASSUME CoinInv, NEW sender \in Address, NEW spender \in Address, NEW amount \in Nat,
           AvUSDApprove(sender, spender, amount)
    PROVE  CoinInv' /\ UNCHANGED <<avUSDSupply, ownershipVars>>
BY DEF AvUSDApprove, CoinInv, CoinTypeOK, AvUSDSupplyIsBalances

LEMMA OwnerCallKeeps ==
    ASSUME AvUSDInv, NEW sender \in Caller,
           \/ \E newMinter \in NewMinter : SetMinter(sender, newMinter)
           \/ \E newOwner \in NewTokenOwner : TransferOwnership(sender, newOwner)
           \/ AcceptOwnership(sender)
    PROVE  AvUSDInv' /\ UNCHANGED avUSDSupply
<1>1. CoinInv /\ OwnershipTypeOK /\ sender \in Address \ {Zero} /\ Zero \in Address
  BY AvUSDAssumption, AccountsAssumption DEF AvUSDInv
<1>2. ASSUME NEW newMinter \in NewMinter, SetMinter(sender, newMinter)
      PROVE  UNCHANGED coinVars /\ OwnershipTypeOK'
  BY <1>1, <1>2, AvUSDAssumption, AccountsAssumption DEF SetMinter, OwnershipTypeOK
<1>3. ASSUME NEW newOwner \in NewTokenOwner, TransferOwnership(sender, newOwner)
      PROVE  UNCHANGED coinVars /\ OwnershipTypeOK'
  BY <1>1, <1>3, AvUSDAssumption, AccountsAssumption DEF TransferOwnership, OwnershipTypeOK
<1>4. ASSUME AcceptOwnership(sender)
      PROVE  UNCHANGED coinVars /\ OwnershipTypeOK'
  BY <1>1, <1>4 DEF AcceptOwnership, OwnershipTypeOK
<1>5. UNCHANGED coinVars /\ OwnershipTypeOK'
  BY <1>2, <1>3, <1>4
<1> QED
  BY <1>1, <1>5, CoinFrame DEF AvUSDInv, coinVars

\* Calls by holders, spenders and the owner keep the invariant, and never raise
\* the supply.
LEMMA AvUSDCallKeeps ==
    ASSUME AvUSDInv, NEW sender \in Caller, AvUSDCall(sender)
    PROVE  AvUSDInv' /\ avUSDSupply' \in 0 .. avUSDSupply
<1>1. CoinInv /\ OwnershipTypeOK /\ sender \in Address /\ avUSDSupply \in Nat
  BY AvUSDAssumption, AccountsAssumption DEF AvUSDInv, CoinInv, CoinTypeOK
<1>2. ASSUME NEW amount \in AvUSDAmount, NEW account \in Address,
             AvUSDBurn(sender, amount) \/ AvUSDBurnFrom(sender, account, amount)
      PROVE  AvUSDInv' /\ avUSDSupply' \in 0 .. avUSDSupply
  <2>1. amount \in Nat
    BY AvUSDAssumption, AccountsAssumption
  <2>2. /\ CoinInv' /\ UNCHANGED ownershipVars
        /\ avUSDSupply' = avUSDSupply - amount /\ amount <= avUSDSupply
    BY <1>1, <1>2, <2>1, BurnKeeps
  <2> QED
    BY <1>1, <2>1, <2>2, OwnershipFrame DEF AvUSDInv
<1>3. ASSUME NEW amount \in AvUSDAmount, NEW to \in AvUSDRecipient, NEW from \in Address,
             \/ AvUSDTransfer(sender, to, amount)
             \/ AvUSDTransferFrom(sender, from, to, amount)
      PROVE  AvUSDInv' /\ avUSDSupply' \in 0 .. avUSDSupply
  <2>1. amount \in Nat /\ to \in Address
    BY AvUSDAssumption, AccountsAssumption
  <2>2. CoinInv' /\ UNCHANGED <<avUSDSupply, ownershipVars>>
    BY <1>1, <1>3, <2>1, TransferKeeps
  <2> QED
    BY <1>1, <2>2, OwnershipFrame DEF AvUSDInv
<1>4. ASSUME NEW in \in ApprovalInput, AvUSDApprove(sender, in[2], in[3])
      PROVE  AvUSDInv' /\ avUSDSupply' \in 0 .. avUSDSupply
  <2>1. in[2] \in Address /\ in[3] \in Nat
    BY AvUSDAssumption, AccountsAssumption
  <2>2. CoinInv' /\ UNCHANGED <<avUSDSupply, ownershipVars>>
    BY <1>1, <1>4, <2>1, ApproveKeeps
  <2> QED
    BY <1>1, <2>2, OwnershipFrame DEF AvUSDInv
<1>5. ASSUME \/ \E newMinter \in NewMinter : SetMinter(sender, newMinter)
             \/ \E newOwner \in NewTokenOwner : TransferOwnership(sender, newOwner)
             \/ AcceptOwnership(sender)
      PROVE  AvUSDInv' /\ avUSDSupply' \in 0 .. avUSDSupply
  BY <1>1, <1>5, OwnerCallKeeps
<1> QED
  BY <1>1, <1>2, <1>3, <1>4, <1>5 DEF AvUSDCall

\* An account that is the minter issues and changes nothing else.
LEMMA MinterCallKeeps ==
    ASSUME AvUSDInv, NEW sender \in Caller, MinterCall(sender)
    PROVE  /\ AvUSDInv' /\ avUSDSupply' \in Nat /\ sender = minter
           /\ UNCHANGED ownershipVars
           /\ \A a \in Address : avUSDBalance'[a] >= avUSDBalance[a]
<1>1. PICK to \in AvUSDRecipient, amount \in AvUSDAmount : AvUSDMint(sender, to, amount)
  BY DEF MinterCall
<1>2. /\ to \in Address /\ amount \in Nat /\ CoinInv /\ OwnershipTypeOK
      /\ avUSDBalance \in [Address -> Nat]
  BY AvUSDAssumption, AccountsAssumption DEF AvUSDInv, CoinInv, CoinTypeOK
<1>3. CoinInv' /\ UNCHANGED ownershipVars
  BY <1>1, <1>2, MintKeeps
<1>4. AvUSDInv' /\ avUSDSupply' \in Nat
  BY <1>2, <1>3, OwnershipFrame DEF AvUSDInv, CoinInv, CoinTypeOK
<1>5. ASSUME NEW a \in Address
      PROVE  avUSDBalance'[a] >= avUSDBalance[a]
  BY <1>1, <1>2 DEF AvUSDMint
<1> QED
  BY <1>1, <1>3, <1>4, <1>5 DEF AvUSDMint

LEMMA AvUSDNextKeeps ==
    ASSUME AvUSDInv, [AvUSDNext]_avUSDVars
    PROVE  AvUSDInv'
<1>1. CASE UNCHANGED avUSDVars
  BY <1>1, CoinFrame, OwnershipFrame DEF AvUSDInv, avUSDVars
<1>2. ASSUME NEW sender \in Caller, AvUSDCall(sender)
      PROVE  AvUSDInv'
  BY <1>2, AvUSDCallKeeps
<1>3. ASSUME NEW sender \in Caller, MinterCall(sender)
      PROVE  AvUSDInv'
  BY <1>3, MinterCallKeeps
<1> QED
  BY <1>1, <1>2, <1>3 DEF AvUSDNext

LEMMA AvUSDInitial ==
    ASSUME AvUSDInit
    PROVE  AvUSDInv
<1>1. CoinInv
  BY TotalZero DEF AvUSDInit, CoinInv, CoinTypeOK, AvUSDSupplyIsBalances
<1>2. OwnershipTypeOK
  BY AvUSDAssumption, AccountsAssumption DEF AvUSDInit, OwnershipTypeOK
<1> QED
  BY <1>1, <1>2 DEF AvUSDInv

-----------------------------------------------------------------------------

\* The inductive invariant of the token: types, and the supply is the sum.
THEOREM AvUSDInvariant == AvUSDSpec => []AvUSDInv
<1>1. AvUSDInit => AvUSDInv
  BY AvUSDInitial
<1>2. AvUSDInv /\ [AvUSDNext]_avUSDVars => AvUSDInv'
  BY AvUSDNextKeeps
<1> QED
  BY <1>1, <1>2, PTL DEF AvUSDSpec

\* The token's types hold in every reachable state.
THEOREM AvUSDTypes == AvUSDSpec => []AvUSDTypeOK
<1>1. AvUSDInv => AvUSDTypeOK
  BY DEF AvUSDInv, CoinInv, CoinTypeOK, OwnershipTypeOK, AvUSDTypeOK
<1> QED
  BY <1>1, AvUSDInvariant, PTL

\* Whoever mints, burns, spends and transfers, the supply is the sum of the
\* balances.
THEOREM AvUSDSupply == AvUSDSpec => []AvUSDSupplyIsBalances
<1>1. AvUSDInv => AvUSDSupplyIsBalances
  BY DEF AvUSDInv, CoinInv
<1> QED
  BY <1>1, AvUSDInvariant, PTL

-----------------------------------------------------------------------------
(* Ownership. *)

\* A call of the token is a step of the two-step handover of its ownership.
LEMMA AvUSDCallHandover ==
    ASSUME OwnershipTypeOK, NEW sender \in Caller, AvUSDCall(sender)
    PROVE  [TokenHandover!Next]_(TokenHandover!vars)
<1> USE DEF TokenHandover!Next, TokenHandover!Nominate, TokenHandover!TakeOver,
            TokenHandover!vars
<1>1. sender # Zero /\ Zero \in Address /\ tokenOwner \in Address \ {Zero}
  BY AvUSDAssumption, AccountsAssumption DEF OwnershipTypeOK
<1>2. CASE UNCHANGED <<tokenOwner, pendingOwner>>
  BY <1>2
<1>3. ASSUME NEW newOwner \in NewTokenOwner, TransferOwnership(sender, newOwner)
      PROVE  TokenHandover!Nominate
  <2>1. newOwner \in Address /\ pendingOwner' = newOwner /\ tokenOwner' = tokenOwner
    BY <1>3, AvUSDAssumption, AccountsAssumption DEF TransferOwnership
  <2> QED
    BY <1>1, <2>1
<1>4. ASSUME AcceptOwnership(sender)
      PROVE  TokenHandover!TakeOver \/ UNCHANGED TokenHandover!vars
  <2>1. /\ pendingOwner # Zero /\ tokenOwner' = pendingOwner /\ pendingOwner' = Zero
    BY <1>1, <1>4 DEF AcceptOwnership
  <2>2. CASE pendingOwner = tokenOwner
    BY <1>1, <2>1, <2>2
  <2>3. CASE pendingOwner # tokenOwner
    BY <1>1, <2>1, <2>3
  <2> QED
    BY <2>2, <2>3
<1>5. \/ UNCHANGED <<tokenOwner, pendingOwner>>
      \/ \E newOwner \in NewTokenOwner : TransferOwnership(sender, newOwner)
      \/ AcceptOwnership(sender)
  BY DEF AvUSDCall, AvUSDBurn, AvUSDBurnFrom, DestroyAvUSD, AvUSDTransfer,
         AvUSDTransferFrom, AvUSDApprove, SetMinter, ownershipVars
<1> QED
  BY <1>2, <1>3, <1>4, <1>5

LEMMA AvUSDInitialHandover ==
    ASSUME AvUSDInit
    PROVE  TokenHandover!Init
BY AvUSDAssumption, AccountsAssumption DEF AvUSDInit, TokenHandover!Init

\* The ownership of avUSD passes only to the last nominee, who accepts, and a
\* nomination is used once.
THEOREM AvUSDOwnership == AvUSDSpec => OwnershipPromise
<1>1. AvUSDInit => TokenHandover!Init
  BY AvUSDInitialHandover
<1>2. AvUSDInv /\ [AvUSDNext]_avUSDVars => [TokenHandover!Next]_(TokenHandover!vars)
  <2> SUFFICES ASSUME AvUSDInv, [AvUSDNext]_avUSDVars
               PROVE  [TokenHandover!Next]_(TokenHandover!vars)
    OBVIOUS
  <2>1. CASE UNCHANGED avUSDVars
    BY <2>1 DEF avUSDVars, ownershipVars, TokenHandover!vars
  <2>2. ASSUME NEW sender \in Caller, AvUSDCall(sender)
        PROVE  [TokenHandover!Next]_(TokenHandover!vars)
    BY <2>2, AvUSDCallHandover DEF AvUSDInv
  <2>3. ASSUME NEW sender \in Caller, MinterCall(sender)
        PROVE  UNCHANGED TokenHandover!vars
    BY <2>3 DEF MinterCall, AvUSDMint, ownershipVars, TokenHandover!vars
  <2> QED
    BY <2>1, <2>2, <2>3 DEF AvUSDNext
<1> QED
  BY <1>1, <1>2, AvUSDInvariant, PTL DEF AvUSDSpec, OwnershipPromise, TokenHandover!Spec
=============================================================================
