------------------------ MODULE AvUSDMintingProofs ------------------------
(***************************************************************************)
(* Machine-checked theorems about the first minting contract: every WAVAX  *)
(* stays backed by a native coin, the counters of the blocks account for   *)
(* the supply, mints are paid whole, unwrapped or not, and what was proved *)
(* of the second version - orders execute at most once, both handovers are *)
(* undisturbed, the state keeps its types - holds of the first.            *)
(***************************************************************************)
EXTENDS AvUSDMinting, AvUSDMintingV2Proofs

Blocks == 0 .. MaxBlock

\* A table of the accounts, whatever its entries.
IsTable(table) == \E V : table \in [Address -> V]

\* WAVAX is backed; of the other assets nothing but where they are kept is needed.
WavaxInv ==
    /\ collateral = [asset \in Asset |-> collateral[asset]]
    /\ collateral[WAVAX] \in [Address -> Nat]
    /\ IsTable(collateral[NATIVE_TOKEN])
    /\ collateral[NATIVE_TOKEN][WAVAX] \in Nat
    /\ WavaxBacked

CounterInv ==
    /\ mintedPerBlock \in [Blocks -> Nat] /\ redeemedPerBlock \in [Blocks -> Nat]
    /\ blockNumber \in Blocks /\ elsewhere \in Int
    /\ SupplyIsCounted

V1Inv == MintingInv /\ WavaxInv /\ CounterInv

-----------------------------------------------------------------------------
(* WAVAX and its coins. *)

LEMMA UpdateTable ==
    ASSUME NEW table, IsTable(table), NEW a \in Address, NEW v
    PROVE  LET new == [table EXCEPT ![a] = v]
           IN  /\ IsTable(new) /\ new[a] = v
               /\ \A b \in Address \ {a} : new[b] = table[b]
<1>1. PICK V : table \in [Address -> V]
  BY DEF IsTable
<1>2. [table EXCEPT ![a] = v] \in [Address -> V \cup {v}]
  BY <1>1
<1> QED
  BY <1>1, <1>2 DEF IsTable

\* Moving an amount between two accounts leaves a third alone.
LEMMA MoveTable ==
    ASSUME NEW table, IsTable(table), NEW from \in Address, NEW to \in Address, NEW amount
    PROVE  LET moved == Move(table, from, to, amount)
           IN  /\ IsTable(moved)
               /\ \A b \in Address \ {from, to} : moved[b] = table[b]
               /\ from # to => /\ moved[from] = table[from] - amount
                              /\ moved[to] = table[to] + amount
<1> DEFINE debited == [table EXCEPT ![from] = table[from] - amount]
           moved   == [debited EXCEPT ![to] = debited[to] + amount]
<1>1. /\ IsTable(debited) /\ debited[from] = table[from] - amount
      /\ \A b \in Address \ {from} : debited[b] = table[b]
  BY UpdateTable
<1> HIDE DEF debited
<1>2. /\ IsTable(moved) /\ moved[to] = debited[to] + amount
      /\ \A b \in Address \ {to} : moved[b] = debited[b]
  BY <1>1, UpdateTable
<1>3. Move(table, from, to, amount) = moved
  BY DEF Move, debited
<1> HIDE DEF moved
<1> QED
  BY <1>1, <1>2, <1>3

LEMMA WavaxFrame ==
    ASSUME WavaxInv, UNCHANGED collateral
    PROVE  WavaxInv'
BY DEF WavaxInv, WavaxBacked

\* Steps that leave the balances of WAVAX and its coins alone.
LEMMA WavaxAside ==
    ASSUME WavaxInv, collateral' = [asset \in Asset |-> collateral'[asset]],
           collateral'[WAVAX] = collateral[WAVAX],
           IsTable(collateral'[NATIVE_TOKEN]),
           collateral'[NATIVE_TOKEN][WAVAX] = collateral[NATIVE_TOKEN][WAVAX]
    PROVE  WavaxInv'
BY DEF WavaxInv, WavaxBacked

\* The balances of WAVAX change by as much as its coins, or less.
LEMMA WavaxTogether ==
    ASSUME WavaxInv, NEW wavax \in [Address -> Nat], NEW native, NEW coins \in Nat,
           IsTable(native), native[WAVAX] = coins,
           Total(wavax) <= coins,
           collateral' = [collateral EXCEPT ![WAVAX] = wavax, ![NATIVE_TOKEN] = native]
    PROVE  WavaxInv'
<1>1. /\ WAVAX \in Asset /\ NATIVE_TOKEN \in Asset /\ WAVAX # NATIVE_TOKEN
      /\ WAVAX \in Address
  BY WavaxAssumption, MintingAssumption
<1>2. collateral'[WAVAX] = wavax /\ collateral'[NATIVE_TOKEN] = native
  BY <1>1 DEF WavaxInv
<1>3. collateral' = [asset \in Asset |-> collateral'[asset]]
  BY <1>1 DEF WavaxInv
<1> QED
  BY <1>1, <1>2, <1>3 DEF WavaxInv, WavaxBacked

LEMMA WavaxSum ==
    ASSUME WavaxInv
    PROVE  Total(collateral[WAVAX]) \in Nat /\ IsFiniteSet(Address) /\ WAVAX \in Address
<1>1. IsFiniteSet(Address) /\ WAVAX \in Address
  BY AvUSDAssumption, AccountsAssumption, WavaxAssumption, MintingAssumption
<1> QED
  BY <1>1, TotalBounds DEF WavaxInv

\* Transfers of an asset keep it backed unless they take the coins of WAVAX.
LEMMA MoveKeepsWavax ==
    ASSUME WavaxInv, NEW asset, NEW from \in Address, NEW to \in Address,
           NEW amount \in Nat, from # WAVAX \/ asset # NATIVE_TOKEN,
           MoveCollateral(asset, from, to, amount)
    PROVE  WavaxInv'
<1>1. /\ WAVAX \in Asset /\ NATIVE_TOKEN \in Asset /\ WAVAX # NATIVE_TOKEN
      /\ IsFiniteSet(Address) /\ WAVAX \notin Payable
  BY WavaxAssumption, MintingAssumption, AvUSDAssumption, AccountsAssumption
<1>2. /\ collateral' = [collateral EXCEPT ![asset] = Move(collateral[asset], from, to, amount)]
      /\ collateral[asset][from] >= amount /\ (asset = NATIVE_TOKEN => to \in Payable)
  BY DEF MoveCollateral
<1>3. collateral' = [a \in Asset |-> collateral'[a]]
  BY <1>2 DEF WavaxInv
<1>4. CASE asset = WAVAX
  <2>1. /\ collateral'[WAVAX] = Move(collateral[WAVAX], from, to, amount)
        /\ collateral'[NATIVE_TOKEN] = collateral[NATIVE_TOKEN]
    BY <1>1, <1>2, <1>4 DEF WavaxInv
  <2>2. collateral'[WAVAX] \in [Address -> Nat]
        /\ Total(collateral'[WAVAX]) = Total(collateral[WAVAX])
    BY <1>1, <1>2, <1>4, <2>1, MoveTotal DEF WavaxInv
  <2> QED
    BY <1>3, <2>1, <2>2 DEF WavaxInv, WavaxBacked
<1>5. CASE asset = NATIVE_TOKEN
  <2>1. /\ collateral'[WAVAX] = collateral[WAVAX]
        /\ collateral'[NATIVE_TOKEN] = Move(collateral[NATIVE_TOKEN], from, to, amount)
    BY <1>1, <1>2, <1>5 DEF WavaxInv
  <2>2. from # WAVAX /\ to # WAVAX
    BY <1>1, <1>2, <1>5
  <2>3. /\ IsTable(collateral'[NATIVE_TOKEN])
        /\ collateral'[NATIVE_TOKEN][WAVAX] = collateral[NATIVE_TOKEN][WAVAX]
    BY <2>1, <2>2, WavaxSum, MoveTable DEF WavaxInv
  <2> QED
    BY <1>3, <2>1, <2>3, WavaxAside
<1>6. CASE asset # WAVAX /\ asset # NATIVE_TOKEN
  <2>1. /\ collateral'[WAVAX] = collateral[WAVAX]
        /\ collateral'[NATIVE_TOKEN] = collateral[NATIVE_TOKEN]
    BY <1>1, <1>2, <1>6 DEF WavaxInv
  <2> QED
    BY <1>3, <2>1, WavaxAside DEF WavaxInv
<1> QED
  BY <1>4, <1>5, <1>6

\* Wrapping and unwrapping move both by as much.
LEMMA WrapKeepsWavax ==
    ASSUME WavaxInv, NEW sender \in Caller, NEW amount \in Nat,
           Deposit(sender, amount) \/ Withdraw(sender, amount)
    PROVE  WavaxInv'
<1> DEFINE bal == collateral[WAVAX]
           nat == collateral[NATIVE_TOKEN]
<1>1. /\ sender \in Address /\ sender # WAVAX /\ WAVAX \in Address /\ IsFiniteSet(Address)
      /\ bal \in [Address -> Nat] /\ bal[sender] \in Nat
      /\ IsTable(nat) /\ nat[WAVAX] \in Nat
      /\ Total(bal) \in Nat /\ Total(bal) <= nat[WAVAX]
  BY AvUSDAssumption, AccountsAssumption, WavaxAssumption, WavaxSum DEF WavaxInv, WavaxBacked
<1>2. CASE Deposit(sender, amount)
  <2> DEFINE wavax  == [bal EXCEPT ![sender] = bal[sender] + amount]
             native == Move(nat, sender, WAVAX, amount)
  <2>1. collateral' = [collateral EXCEPT ![WAVAX] = wavax, ![NATIVE_TOKEN] = native]
    BY <1>2, WavaxAssumption, MintingAssumption DEF Deposit, WavaxInv
  <2>2. wavax \in [Address -> Nat] /\ Total(wavax) = Total(bal) + amount
    <3>1. Total(wavax) = Total(bal) - bal[sender] + (bal[sender] + amount)
      BY <1>1, TotalUpdate
    <3> QED
      BY <1>1, <3>1
  <2>3. /\ IsTable(native)
        /\ native[WAVAX] = nat[WAVAX] + amount
    BY <1>1, MoveTable
  <2> HIDE DEF wavax, native, bal, nat
  <2>4. native[WAVAX] \in Nat /\ Total(wavax) <= native[WAVAX]
    BY <1>1, <2>2, <2>3
  <2> QED
    BY <2>1, <2>2, <2>3, <2>4, WavaxTogether DEF bal, nat
<1>3. CASE Withdraw(sender, amount)
  <2> DEFINE wavax  == [bal EXCEPT ![sender] = bal[sender] - amount]
             native == Move(nat, WAVAX, sender, amount)
  <2>1. /\ collateral' = [collateral EXCEPT ![WAVAX] = wavax, ![NATIVE_TOKEN] = native]
        /\ bal[sender] >= amount /\ nat[WAVAX] >= amount
    BY <1>3, WavaxAssumption, MintingAssumption DEF Withdraw, Unwrapped, WavaxInv
  <2>2. wavax \in [Address -> Nat] /\ Total(wavax) = Total(bal) - amount
    <3>1. bal[sender] - amount \in Nat
      BY <1>1, <2>1
    <3>2. Total(wavax) = Total(bal) - bal[sender] + (bal[sender] - amount)
      BY <1>1, <3>1, TotalUpdate
    <3> QED
      BY <1>1, <3>1, <3>2
  <2>3. /\ IsTable(native)
        /\ native[WAVAX] = nat[WAVAX] - amount
    BY <1>1, MoveTable
  <2> HIDE DEF wavax, native, bal, nat
  <2>4. native[WAVAX] \in Nat /\ Total(wavax) <= native[WAVAX]
    BY <1>1, <2>1, <2>2, <2>3
  <2> QED
    BY <2>1, <2>2, <2>3, <2>4, WavaxTogether DEF bal, nat
<1> QED
  BY <1>2, <1>3

\* A route pays nothing to an account that accepts no native coins.
LEMMA PaidToNobody ==
    ASSUME NEW route, NEW parts, NEW account,
           \A i \in DOMAIN parts : route.addresses[i] # account
    PROVE  PaidTo(account, route, parts) = 0
<1>1. {j \in DOMAIN parts : route.addresses[j] = account} = {}
  OBVIOUS
<1>2. [i \in {j \in DOMAIN parts : route.addresses[j] = account} |-> parts[i]]
         = [i \in {} |-> 0]
  BY <1>1
<1> QED
  BY <1>2, TotalZero DEF PaidTo

\* A mint that unwraps on the way takes as many coins as it takes WAVAX.
LEMMA EthKeepsWavax ==
    ASSUME WavaxInv, NEW order \in OrderInput, NEW route \in RouteInput,
           TransferEthCollateral(order, route)
    PROVE  WavaxInv'
<1> DEFINE bal    == collateral[WAVAX]
           nat    == collateral[NATIVE_TOKEN]
           b      == order.benefactor
           amount == order.collateral_amount
           parts  == Parts(amount, route.ratios)
           wavax  == [bal EXCEPT ![b] = bal[b] - amount]
           unwrapped == [nat EXCEPT ![WAVAX] = nat[WAVAX] - amount]
           native == [a \in Address |-> unwrapped[a] + PaidTo(a, route, parts)]
<1>1. /\ b \in Address /\ amount \in Nat /\ WAVAX \in Address /\ IsFiniteSet(Address)
      /\ bal \in [Address -> Nat] /\ bal[b] \in Nat
      /\ IsTable(nat) /\ nat[WAVAX] \in Nat
      /\ Total(bal) \in Nat /\ Total(bal) <= nat[WAVAX]
  BY MintingAssumption, WavaxSum DEF WavaxInv, WavaxBacked, Order
<1>2. /\ collateral' = [collateral EXCEPT ![WAVAX] = wavax, ![NATIVE_TOKEN] = native]
      /\ bal[b] >= amount /\ nat[WAVAX] >= amount
      /\ \A i \in DOMAIN parts : route.addresses[i] \in Payable
  BY WavaxAssumption, MintingAssumption DEF TransferEthCollateral, WavaxInv
<1>3. wavax \in [Address -> Nat] /\ Total(wavax) = Total(bal) - amount
  <2>1. bal[b] - amount \in Nat
    BY <1>1, <1>2
  <2>2. Total(wavax) = Total(bal) - bal[b] + (bal[b] - amount)
    BY <1>1, <2>1, TotalUpdate
  <2> QED
    BY <1>1, <2>1, <2>2
<1>4. unwrapped[WAVAX] = nat[WAVAX] - amount
  <2>1. PICK V : nat \in [Address -> V]
    BY <1>1 DEF IsTable
  <2> QED
    BY <1>1, <2>1
<1>5. PaidTo(WAVAX, route, parts) = 0
  BY <1>2, WavaxAssumption, PaidToNobody
<1>6. IsTable(native)
  <2>1. native \in [Address -> {unwrapped[a] + PaidTo(a, route, parts) : a \in Address}]
    OBVIOUS
  <2> QED
    BY <2>1 DEF IsTable
<1>7. native[WAVAX] = nat[WAVAX] - amount
  <2>1. native[WAVAX] = unwrapped[WAVAX] + PaidTo(WAVAX, route, parts)
    BY <1>1
  <2> HIDE DEF native, unwrapped, parts
  <2> QED
    BY <1>1, <1>4, <1>5, <2>1
<1> HIDE DEF wavax, native, bal, nat, parts, unwrapped
<1>8. native[WAVAX] \in Nat /\ Total(wavax) <= native[WAVAX]
  BY <1>1, <1>2, <1>3, <1>7
<1> QED
  BY <1>2, <1>3, <1>6, <1>8, WavaxTogether

-----------------------------------------------------------------------------
(* The counters of the blocks. *)

LEMMA CounterSums ==
    ASSUME CounterInv
    PROVE  /\ Total(mintedPerBlock) \in Nat /\ Total(redeemedPerBlock) \in Nat
           /\ IsFiniteSet(Blocks)
<1>1. IsFiniteSet(Blocks) /\ 0 \in Blocks
  BY MintingAssumption, FS_Interval DEF Blocks
<1> QED
  BY <1>1, TotalBounds DEF CounterInv

\* Between orders the counters stay, and what the token issues or burns is not theirs.
LEMMA CountersKept ==
    ASSUME CounterInv, UNCHANGED counterVars, blockNumber' \in Blocks,
           avUSDSupply \in Nat, avUSDSupply' \in Nat,
           elsewhere' = elsewhere + (avUSDSupply' - avUSDSupply)
    PROVE  CounterInv'
BY CounterSums DEF CounterInv, counterVars, SupplyIsCounted

LEMMA MintCounted ==
    ASSUME CounterInv, NEW amount \in Nat, BelowMaxMintPerBlock(amount),
           UNCHANGED <<blockNumber, elsewhere>>, avUSDSupply \in Nat,
           avUSDSupply' = avUSDSupply + amount
    PROVE  CounterInv'
<1> DEFINE before == mintedPerBlock[blockNumber]
<1>1. /\ before \in Nat /\ redeemedPerBlock' = redeemedPerBlock
      /\ mintedPerBlock' = [mintedPerBlock EXCEPT ![blockNumber] = before + amount]
  BY DEF BelowMaxMintPerBlock, CounterInv
<1>2. mintedPerBlock' \in [Blocks -> Nat]
  BY <1>1 DEF CounterInv
<1>3. IsFiniteSet(Blocks) /\ mintedPerBlock \in [Blocks -> Nat] /\ blockNumber \in Blocks
  BY CounterSums DEF CounterInv
<1>4. Total(mintedPerBlock') = Total(mintedPerBlock) - before + (before + amount)
  <2>1. before + amount \in Nat
    BY <1>1
  <2>2. Total([mintedPerBlock EXCEPT ![blockNumber] = before + amount])
           = Total(mintedPerBlock) - before + (before + amount)
    BY <1>3, <2>1, TotalUpdate
  <2> QED
    BY <1>1, <2>2
<1> HIDE DEF before
<1> QED
  BY <1>1, <1>2, <1>4, CounterSums DEF CounterInv, SupplyIsCounted

LEMMA RedemptionCounted ==
    ASSUME CounterInv, NEW amount \in Nat, BelowMaxRedeemPerBlock(amount),
           UNCHANGED <<blockNumber, elsewhere>>, avUSDSupply \in Nat,
           avUSDSupply' = avUSDSupply - amount
    PROVE  CounterInv'
<1> DEFINE before == redeemedPerBlock[blockNumber]
<1>1. /\ before \in Nat /\ mintedPerBlock' = mintedPerBlock
      /\ redeemedPerBlock' = [redeemedPerBlock EXCEPT ![blockNumber] = before + amount]
  BY DEF BelowMaxRedeemPerBlock, CounterInv
<1>2. redeemedPerBlock' \in [Blocks -> Nat]
  BY <1>1 DEF CounterInv
<1>3. IsFiniteSet(Blocks) /\ redeemedPerBlock \in [Blocks -> Nat] /\ blockNumber \in Blocks
  BY CounterSums DEF CounterInv
<1>4. Total(redeemedPerBlock') = Total(redeemedPerBlock) - before + (before + amount)
  <2>1. before + amount \in Nat
    BY <1>1
  <2>2. Total([redeemedPerBlock EXCEPT ![blockNumber] = before + amount])
           = Total(redeemedPerBlock) - before + (before + amount)
    BY <1>3, <2>1, TotalUpdate
  <2> QED
    BY <1>1, <2>2
<1> HIDE DEF before
<1> QED
  BY <1>1, <1>2, <1>4, CounterSums DEF CounterInv, SupplyIsCounted

-----------------------------------------------------------------------------
(* Steps. *)

LEMMA MintV1Step ==
    ASSUME V1Inv, NEW sender \in Caller, NEW order \in OrderInput,
           NEW route \in RouteInput, NEW signature \in SignatureInput,
           MintV1(sender, order, route, signature), UNCHANGED elsewhere
    PROVE  WavaxInv' /\ CounterInv'
<1>1. /\ order.beneficiary \in Address /\ order.avusd_amount \in Nat
      /\ WavaxInv /\ CounterInv /\ CoinInv /\ avUSDSupply \in Nat
  BY MintingAssumption
     DEF Order, V1Inv, MintingInv, AvUSDInv, CoinInv, CoinTypeOK
<1>2. CounterInv'
  <2>1. avUSDSupply' = avUSDSupply + order.avusd_amount
    BY <1>1, MintKeeps DEF MintV1
  <2> QED
    BY <1>1, <2>1, MintCounted DEF MintV1
<1>3. CASE TransferEthCollateral(order, route)
  BY <1>1, <1>2, <1>3, EthKeepsWavax
<1>4. CASE TransferCollateral(order, route) /\ order.collateral_asset # WAVAX
  <2> DEFINE asset == order.collateral_asset
  <2>1. /\ asset # NATIVE_TOKEN /\ asset # WAVAX
        /\ WAVAX \in Asset /\ NATIVE_TOKEN \in Asset
    BY <1>4, MintingAssumption, WavaxAssumption DEF TransferCollateral
  <2>2. PICK after : collateral' = [collateral EXCEPT ![asset] = after]
    BY <1>4 DEF TransferCollateral
  <2>3. /\ collateral' = [a \in Asset |-> collateral'[a]]
        /\ collateral'[WAVAX] = collateral[WAVAX]
        /\ collateral'[NATIVE_TOKEN] = collateral[NATIVE_TOKEN]
    BY <1>1, <2>1, <2>2 DEF WavaxInv
  <2> QED
    BY <1>1, <1>2, <2>3, WavaxAside DEF WavaxInv
<1> QED
  BY <1>2, <1>3, <1>4 DEF MintV1

LEMMA RedeemV1Step ==
    ASSUME V1Inv, NEW sender \in Caller, NEW order \in OrderInput,
           NEW signature \in SignatureInput, RedeemV1(sender, order, signature),
           UNCHANGED elsewhere
    PROVE  WavaxInv' /\ CounterInv'
<1>1. /\ order.beneficiary \in Address /\ order.benefactor \in Address
      /\ order.avusd_amount \in Nat /\ order.collateral_amount \in Nat
      /\ Minting \in Address /\ Minting # WAVAX
      /\ WavaxInv /\ CounterInv /\ CoinInv /\ avUSDSupply \in Nat
  BY MintingAssumption, WavaxAssumption
     DEF Order, V1Inv, MintingInv, AvUSDInv, CoinInv, CoinTypeOK
<1>2. CounterInv'
  <2>1. avUSDSupply' = avUSDSupply - order.avusd_amount
    BY <1>1, BurnKeeps DEF RedeemV1
  <2> QED
    BY <1>1, <2>1, RedemptionCounted DEF RedeemV1
<1>3. WavaxInv'
  BY <1>1, MoveKeepsWavax DEF RedeemV1, TransferToBeneficiary
<1> QED
  BY <1>2, <1>3

LEMMA OrderV1Step ==
    ASSUME V1Inv, NEW sender \in Caller, NEW order \in OrderInput,
           NEW signature \in SignatureInput, OrderCallV1(sender, order, signature),
           UNCHANGED elsewhere
    PROVE  /\ V1Inv' /\ UNCHANGED <<accessVars, ownershipVars>>
           /\ Orders!Execute(<<order.benefactor, order.nonce>>)
           /\ <<order.benefactor, order.nonce>> \in OrderId
<1>1. /\ DeduplicateOrder(order.benefactor, order.nonce)
      /\ order.avusd_amount # 0 /\ UNCHANGED accessVars
      /\ \/ AvUSDMint(Minting, order.beneficiary, order.avusd_amount)
         \/ AvUSDBurnFrom(Minting, order.benefactor, order.avusd_amount)
  BY DEF OrderCallV1, MintV1, RedeemV1, VerifyOrderV1
<1>2. WavaxInv' /\ CounterInv'
  BY MintV1Step, RedeemV1Step DEF OrderCallV1
<1> QED
  BY <1>1, <1>2, OrderEffect DEF V1Inv

LEMMA WavaxCallStep ==
    ASSUME WavaxInv, NEW sender \in Caller, WavaxCall(sender)
    PROVE  WavaxInv' /\ UNCHANGED otherVars
<1>1. ASSUME NEW in \in WrapInput,
             Deposit(sender, in[2]) \/ Withdraw(sender, in[2])
      PROVE  WavaxInv' /\ UNCHANGED otherVars
  <2>1. in[2] \in Nat
    BY WavaxAssumption
  <2> QED
    BY <1>1, <2>1, WrapKeepsWavax DEF Deposit, Withdraw
<1>2. ASSUME NEW in \in WavaxApproval, ApproveWavax(sender, in[2], in[3])
      PROVE  WavaxInv' /\ UNCHANGED otherVars
  BY <1>2, WavaxFrame DEF ApproveWavax, allVars, mintingVars, otherVars
<1>3. ASSUME NEW in \in WavaxTransfer,
             TransferFromWavax(sender, in[2], in[3], in[4])
      PROVE  WavaxInv' /\ UNCHANGED otherVars
  <2>1. /\ in[2] \in Address /\ in[3] \in Address /\ in[4] \in Nat
        /\ WAVAX \in Asset /\ IsFiniteSet(Address) /\ WAVAX # NATIVE_TOKEN
        /\ NATIVE_TOKEN \in Asset
    BY WavaxAssumption, AvUSDAssumption, AccountsAssumption, MintingAssumption
  <2>2. /\ collateral' = [collateral EXCEPT
               ![WAVAX] = Move(collateral[WAVAX], in[2], in[3], in[4])]
        /\ collateral[WAVAX][in[2]] >= in[4] /\ UNCHANGED otherVars
    BY <1>3 DEF TransferFromWavax
  <2>3. /\ collateral' = [a \in Asset |-> collateral'[a]]
        /\ collateral'[WAVAX] = Move(collateral[WAVAX], in[2], in[3], in[4])
        /\ collateral'[NATIVE_TOKEN] = collateral[NATIVE_TOKEN]
    BY <2>1, <2>2 DEF WavaxInv
  <2>4. /\ collateral'[WAVAX] \in [Address -> Nat]
        /\ Total(collateral'[WAVAX]) = Total(collateral[WAVAX])
    BY <2>1, <2>2, <2>3, MoveTotal DEF WavaxInv
  <2> QED
    BY <2>2, <2>3, <2>4 DEF WavaxInv, WavaxBacked
<1> QED
  BY <1>1, <1>2, <1>3 DEF WavaxCall

\* The calls both versions share: the manager's transfers to custody move
\* collateral, holders of avUSD burn it, and another account that is the minter
\* issues it.
LEMMA SharedStep ==
    ASSUME V1Inv, NEW sender \in Caller, SharedCall(sender),
           elsewhere' = elsewhere + (avUSDSupply' - avUSDSupply)
    PROVE  /\ V1Inv' /\ Orders!Elsewhere
           /\ [Handover!Next]_(Handover!vars)
           /\ [TokenHandover!Next]_(TokenHandover!vars)
<1>1. \/ DelegationOrLimitCall(sender)
      \/ ListCall(sender) \/ RemovalCall(sender)
      \/ AccessCall(sender) \/ TokenCall(sender)
  BY DEF SharedCall, DelegationOrLimitCall
<1>2. /\ MintingInv' /\ Orders!Elsewhere
      /\ [Handover!Next]_(Handover!vars)
      /\ [TokenHandover!Next]_(TokenHandover!vars)
  BY <1>1, OtherStep DEF V1Inv
<1>3. UNCHANGED <<counterVars, blockNumber>>
  BY <1>1 DEF DelegationOrLimitCall, SetDelegatedSigner, ConfirmDelegatedSigner,
              RemoveDelegatedSigner, LimitCall, SetMaxMintPerBlock, SetMaxRedeemPerBlock,
              SetStablesDeltaLimit, DisableMintRedeem, ListCall, AddSupportedAsset,
              RemoveSupportedAsset, AddCustodianAddress, RemoveCustodianAddress,
              TransferToCustody, RemovalCall, RemoveRole, AccessCall, TokenCall, mintingVars
<1>4. CounterInv'
  BY <1>2, <1>3, CountersKept
     DEF V1Inv, MintingInv, AvUSDInv, CoinInv, CoinTypeOK, CounterInv, Orders!Elsewhere
<1>5. \/ UNCHANGED collateral
      \/ \E wallet \in CustodianInput, in \in CustodyInput :
            MoveCollateral(in[1], Minting, wallet, in[2])
  BY <1>1 DEF DelegationOrLimitCall, SetDelegatedSigner, ConfirmDelegatedSigner,
              RemoveDelegatedSigner, LimitCall, SetMaxMintPerBlock, SetMaxRedeemPerBlock,
              SetStablesDeltaLimit, DisableMintRedeem, ListCall, AddSupportedAsset,
              RemoveSupportedAsset, AddCustodianAddress, RemoveCustodianAddress,
              TransferToCustody, RemovalCall, RemoveRole, AccessCall, TokenCall, mintingVars
<1>6. WavaxInv'
  <2>1. CASE UNCHANGED collateral
    BY <2>1, WavaxFrame DEF V1Inv
  <2>2. ASSUME NEW wallet \in CustodianInput, NEW in \in CustodyInput,
               MoveCollateral(in[1], Minting, wallet, in[2])
        PROVE  WavaxInv'
    <3>1. /\ wallet \in Address /\ Minting \in Address /\ Minting # WAVAX
          /\ in[2] \in Nat
      BY MintingAssumption, WavaxAssumption
    <3> QED
      BY <2>2, <3>1, MoveKeepsWavax DEF V1Inv
  <2> QED
    BY <1>5, <2>1, <2>2
<1> QED
  BY <1>2, <1>4, <1>6 DEF V1Inv

LEMMA V1Initial ==
    ASSUME V1Init
    PROVE  V1Inv /\ Orders!Init /\ Handover!Init /\ TokenHandover!Init
<1>1. MintingInit
  BY DEF V1Init
<1>2. MintingInv /\ Orders!Init /\ Handover!Init /\ TokenHandover!Init
  BY <1>1, MintingInitial
<1>3. WavaxInv
  <2>1. /\ collateral = InitialCollateral /\ InitialCollateral \in [Asset -> [Address -> Nat]]
        /\ WAVAX \in Asset /\ NATIVE_TOKEN \in Asset
        /\ collateral[WAVAX] = [a \in Address |-> 0]
        /\ collateral[NATIVE_TOKEN][WAVAX] = 0
    BY <1>1, MintingAssumption, WavaxAssumption DEF MintingInit
  <2>2. Total(collateral[WAVAX]) = 0
    BY <2>1, TotalZero
  <2>3. collateral = [a \in Asset |-> collateral[a]] /\ collateral[WAVAX] \in [Address -> Nat]
    BY <2>1
  <2>4. IsTable(collateral[NATIVE_TOKEN])
    <3>1. collateral[NATIVE_TOKEN] \in [Address -> Nat]
      BY <2>1
    <3> QED
      BY <3>1 DEF IsTable
  <2> QED
    BY <2>1, <2>2, <2>3, <2>4 DEF WavaxInv, WavaxBacked
<1>4. CounterInv
  <2>1. /\ mintedPerBlock = [b \in Blocks |-> 0] /\ redeemedPerBlock = [b \in Blocks |-> 0]
        /\ blockNumber = 0 /\ avUSDSupply = 0 /\ MaxBlock \in Nat /\ elsewhere = 0
    BY <1>1, <1>2, MintingAssumption DEF V1Init, MintingInit, AvUSDInit, Blocks
  <2>2. Total(mintedPerBlock) = 0 /\ Total(redeemedPerBlock) = 0
    BY <2>1, TotalZero
  <2> QED
    BY <2>1, <2>2 DEF CounterInv, SupplyIsCounted, Blocks
<1> QED
  BY <1>2, <1>3, <1>4 DEF V1Inv

\* Steps of others than the minting contract and the token.
LEMMA AsideStep ==
    ASSUME V1Inv, WavaxInv', UNCHANGED <<accessVars, avUSDVars, orderBitmaps, counterVars>>,
           blockNumber' \in Blocks, UNCHANGED elsewhere
    PROVE  /\ V1Inv' /\ UNCHANGED Orders!vars
           /\ UNCHANGED Handover!vars /\ UNCHANGED TokenHandover!vars
<1>1. AvUSDInv' /\ AccessInv' /\ BitmapTypeOK'
  BY CoinFrame, OwnershipFrame, AccessNextInv
     DEF V1Inv, MintingInv, AvUSDInv, avUSDVars, BitmapTypeOK
<1>2. UNCHANGED Orders!vars /\ UNCHANGED Handover!vars /\ UNCHANGED TokenHandover!vars
  BY DEF Orders!vars, Handover!vars, TokenHandover!vars, Executed, OrderId,
         accessVars, avUSDVars, coinVars, ownershipVars
<1>3. CounterInv'
  BY DEF V1Inv, CounterInv, SupplyIsCounted, counterVars, avUSDVars, coinVars
<1> QED
  BY <1>1, <1>2, <1>3 DEF V1Inv, MintingInv

LEMMA EnvironmentStep ==
    ASSUME V1Inv, EnvironmentV1
    PROVE  /\ WavaxInv' /\ UNCHANGED <<accessVars, avUSDVars, orderBitmaps, counterVars>>
           /\ blockNumber' \in Blocks
<1>1. ASSUME NEW in \in CollateralInput, SendCollateral(in[1], in[2], in[3], in[4])
      PROVE  /\ WavaxInv' /\ UNCHANGED <<accessVars, avUSDVars, orderBitmaps, counterVars>>
             /\ blockNumber' \in Blocks
  <2>1. /\ in[2] \in Address /\ in[3] \in Address /\ in[4] \in Nat /\ in[2] # WAVAX
    BY MintingAssumption, WavaxAssumption
  <2>2. WavaxInv'
    BY <1>1, <2>1, MoveKeepsWavax DEF SendCollateral, V1Inv
  <2> QED
    BY <1>1, <2>2 DEF SendCollateral, V1Inv, CounterInv
<1>2. CASE NewBlock
  BY <1>2, WavaxFrame, MintingAssumption DEF NewBlock, V1Inv, CounterInv, Blocks
<1> QED
  BY <1>1, <1>2 DEF EnvironmentV1

LEMMA V1Step ==
    ASSUME V1Inv, [V1Next]_v1Vars
    PROVE  /\ V1Inv' /\ [Orders!Next]_(Orders!vars)
           /\ [Handover!Next]_(Handover!vars)
           /\ [TokenHandover!Next]_(TokenHandover!vars)
<1> DEFINE Goal == /\ V1Inv' /\ [Orders!Next]_(Orders!vars)
                   /\ [Handover!Next]_(Handover!vars)
                   /\ [TokenHandover!Next]_(TokenHandover!vars)
<1> SUFFICES Goal
  OBVIOUS
<1>1. ASSUME NEW sender \in Caller, NEW order \in OrderInput,
             NEW signature \in SignatureInput, OrderCallV1(sender, order, signature),
             UNCHANGED elsewhere
      PROVE  Goal
  <2>1. /\ V1Inv' /\ UNCHANGED <<accessVars, ownershipVars>>
        /\ Orders!Execute(<<order.benefactor, order.nonce>>)
        /\ <<order.benefactor, order.nonce>> \in OrderId
    BY <1>1, OrderV1Step
  <2>2. UNCHANGED Handover!vars /\ UNCHANGED TokenHandover!vars
    BY <2>1 DEF accessVars, ownershipVars, Handover!vars, TokenHandover!vars
  <2> QED
    BY <2>1, <2>2 DEF Orders!Next
<1>2. ASSUME NEW sender \in Caller, WavaxCall(sender),
             elsewhere' = elsewhere + (avUSDSupply' - avUSDSupply)
      PROVE  Goal
  <2>1. /\ WavaxInv' /\ blockNumber' \in Blocks
        /\ UNCHANGED <<accessVars, avUSDVars, orderBitmaps, counterVars>>
    BY <1>2, WavaxCallStep DEF V1Inv, otherVars, CounterInv
  <2>2. /\ avUSDSupply \in Nat /\ elsewhere \in Int
        /\ avUSDSupply' = avUSDSupply
    BY <2>1 DEF V1Inv, MintingInv, AvUSDInv, CoinInv, CoinTypeOK, CounterInv, avUSDVars,
                coinVars
  <2>3. UNCHANGED elsewhere
    BY <1>2, <2>2
  <2> QED
    BY <2>1, <2>3, AsideStep
<1>3. ASSUME NEW sender \in Caller, SharedCall(sender),
             elsewhere' = elsewhere + (avUSDSupply' - avUSDSupply)
      PROVE  Goal
  BY <1>3, SharedStep DEF Orders!Next
<1>4. CASE EnvironmentV1 /\ UNCHANGED elsewhere
  BY <1>4, EnvironmentStep, AsideStep
<1>5. CASE UNCHANGED v1Vars
  <2>1. /\ WavaxInv' /\ blockNumber' \in Blocks /\ UNCHANGED elsewhere
        /\ UNCHANGED <<accessVars, avUSDVars, orderBitmaps, counterVars>>
    BY <1>5, WavaxFrame DEF v1Vars, allVars, mintingVars, V1Inv, CounterInv
  <2> QED
    BY <2>1, AsideStep
<1> HIDE DEF Goal
<1>6. CASE V1Next
  BY <1>1, <1>2, <1>3, <1>4, <1>6, Zenon DEF V1Next
<1> QED
  BY <1>5, <1>6

-----------------------------------------------------------------------------

\* The inductive invariant: that of the second version, the backing of WAVAX and
\* the sums of the counters.
THEOREM V1Invariant == V1Spec => []V1Inv
<1>1. V1Init => V1Inv
  BY V1Initial
<1>2. V1Inv /\ [V1Next]_v1Vars => V1Inv'
  BY V1Step
<1> QED
  BY <1>1, <1>2, PTL DEF V1Spec

\* Whatever is wrapped, unwrapped, transferred and minted with, the WAVAX contract
\* holds at least as many native coins as there is WAVAX.
THEOREM V1WavaxBacked == V1Spec => []WavaxBacked
<1>1. V1Inv => WavaxBacked
  BY DEF V1Inv, WavaxInv
<1> QED
  BY <1>1, V1Invariant, PTL

\* No avUSD exists that the counters of minting, less those of redeeming, do not
\* account for.
THEOREM V1SupplyIsCounted == V1Spec => []SupplyIsCounted
<1>1. V1Inv => SupplyIsCounted
  BY DEF V1Inv, CounterInv
<1> QED
  BY <1>1, V1Invariant, PTL

\* An order executes at most once, also when it is paid by unwrapping.
THEOREM V1OrdersExecuteOnce == V1Spec => ImplementsOrderExecution
<1>1. V1Init => Orders!Init
  BY V1Initial
<1>2. V1Inv /\ [V1Next]_v1Vars => [Orders!Next]_(Orders!vars)
  BY V1Step
<1> QED
  BY <1>1, <1>2, V1Invariant, PTL DEF V1Spec, ImplementsOrderExecution, Orders!Spec

\* Neither handover is disturbed: of the admin role of the contract, and of the
\* ownership of the token.
THEOREM V1Handovers == V1Spec => HandoverPromise /\ OwnershipPromise
<1>1. V1Init => Handover!Init /\ TokenHandover!Init
  BY V1Initial
<1>2. V1Inv /\ [V1Next]_v1Vars
         => [Handover!Next]_(Handover!vars) /\ [TokenHandover!Next]_(TokenHandover!vars)
  BY V1Step
<1> QED
  BY <1>1, <1>2, V1Invariant, PTL
     DEF V1Spec, HandoverPromise, OwnershipPromise, Handover!Spec, TokenHandover!Spec

-----------------------------------------------------------------------------
(* What is paid for the avUSD of the first version. *)

\* The types of all the state hold of the first version too; and the WAVAX contract
\* is no custodian, so that what it unwraps is never its own again.
V1StateInv == V1Inv /\ MintingStateInv /\ WAVAX \notin custodianAddresses

\* A table that nothing but natural amounts are paid to.
LEMMA PaidToNatural ==
    ASSUME NEW n \in Nat, NEW route, NEW parts \in [1 .. n -> Nat], NEW a
    PROVE  /\ PaidTo(a, route, parts) \in Nat
           /\ PaidTo(a, route, parts) = PaidIn(a, route.addresses, parts, n)
<1>1. PaidTo(a, route, parts) = PaidIn(a, route.addresses, parts, n)
  <2>1. DOMAIN parts = 1 .. n
    OBVIOUS
  <2> QED
    BY <2>1 DEF PaidTo, PaidIn
<1>2. PaidIn(a, route.addresses, parts, n) \in Nat
  <2>1. n \in 0 .. n
    OBVIOUS
  <2> QED
    BY <2>1, PaidInSteps DEF PaysByPart
<1> QED
  BY <1>1, <1>2

\* A mint that unwraps takes the amount in WAVAX from its benefactor and adds as
\* many native coins to what the custodians hold; nobody but WAVAX loses a coin.
UnwrapsAndPays(b, amount) ==
    /\ \A other \in Asset \ {WAVAX, NATIVE_TOKEN} : collateral'[other] = collateral[other]
    /\ \A a \in Address \ {b} : collateral'[WAVAX][a] = collateral[WAVAX][a]
    /\ collateral[WAVAX][b] - collateral'[WAVAX][b] = amount
    /\ \A a \in Address \ {WAVAX} :
          collateral'[NATIVE_TOKEN][a] >= collateral[NATIVE_TOKEN][a]
    /\ InCustody(NATIVE_TOKEN)' - InCustody(NATIVE_TOKEN) = amount

LEMMA EthPaid ==
    ASSUME SettingsTypeOK, CollateralTypeOK, WAVAX \notin custodianAddresses,
           UNCHANGED custodianAddresses, NEW order \in OrderInput, NEW route \in RouteInput,
           VerifyRoute(route), TransferEthCollateral(order, route)
    PROVE  CollateralTypeOK' /\ UnwrapsAndPays(order.benefactor, order.collateral_amount)
<1> DEFINE bal    == collateral[WAVAX]
           nat    == collateral[NATIVE_TOKEN]
           b      == order.benefactor
           amount == order.collateral_amount
           n      == Len(route.addresses)
           to     == route.addresses
           parts  == Parts(amount, route.ratios)
           wavax  == [bal EXCEPT ![b] = bal[b] - amount]
           unwrapped == [nat EXCEPT ![WAVAX] = nat[WAVAX] - amount]
           native == [a \in Address |-> unwrapped[a] + PaidTo(a, route, parts)]
           C      == custodianAddresses
           base   == [c \in C |-> nat[c]]
<1>1. /\ b \in Address /\ amount \in Nat /\ WAVAX \in Address /\ IsFiniteSet(Address)
      /\ WAVAX \in Asset /\ NATIVE_TOKEN \in Asset /\ WAVAX # NATIVE_TOKEN
      /\ bal \in [Address -> Nat] /\ nat \in [Address -> Nat]
      /\ C \subseteq Address /\ WAVAX \notin C
  BY MintingAssumption, WavaxAssumption, AvUSDAssumption, AccountsAssumption
     DEF Order, CollateralTypeOK, SettingsTypeOK
<1>2. /\ n \in Nat /\ to \in [1 .. n -> Address] /\ parts \in [1 .. n -> Nat]
      /\ \A i \in 1 .. n : to[i] \in C
      /\ Total(parts) = amount
  BY <1>1, PartsAddUp
<1>3. /\ collateral' = [collateral EXCEPT ![WAVAX] = wavax, ![NATIVE_TOKEN] = native]
      /\ bal[b] >= amount /\ nat[WAVAX] >= amount
  BY <1>1 DEF TransferEthCollateral, CollateralTypeOK
<1>4. wavax \in [Address -> Nat] /\ bal[b] - wavax[b] = amount
      /\ \A a \in Address \ {b} : wavax[a] = bal[a]
  <2>1. bal[b] \in Nat /\ bal[b] - amount \in Nat
    BY <1>1, <1>3
  <2> HIDE DEF bal, b, amount
  <2> QED
    BY <1>1, <2>1
<1>5. unwrapped \in [Address -> Nat] /\ \A a \in Address \ {WAVAX} : unwrapped[a] = nat[a]
  <2>1. nat[WAVAX] \in Nat /\ nat[WAVAX] - amount \in Nat
    BY <1>1, <1>3
  <2> HIDE DEF nat, amount
  <2> QED
    BY <1>1, <2>1
<1>6. ASSUME NEW a \in Address
      PROVE  /\ native[a] = unwrapped[a] + PaidTo(a, route, parts)
             /\ native[a] \in Nat /\ native[a] >= unwrapped[a]
  <2>1. unwrapped[a] \in Nat /\ PaidTo(a, route, parts) \in Nat
    BY <1>2, <1>5, PaidToNatural
  <2>2. native[a] = unwrapped[a] + PaidTo(a, route, parts)
    OBVIOUS
  <2> HIDE DEF native, unwrapped, parts
  <2> QED
    BY <2>1, <2>2
<1>7. native \in [Address -> Nat]
  <2> DEFINE e(a) == unwrapped[a] + PaidTo(a, route, parts)
  <2>1. \A a \in Address : e(a) \in Nat
    BY <1>6
  <2> HIDE DEF e
  <2>2. [a \in Address |-> e(a)] \in [Address -> Nat]
    BY <2>1
  <2> QED
    BY <2>2 DEF e
<1> HIDE DEF wavax, native
<1>8. /\ collateral'[WAVAX] = wavax /\ collateral'[NATIVE_TOKEN] = native
      /\ \A other \in Asset \ {WAVAX, NATIVE_TOKEN} : collateral'[other] = collateral[other]
      /\ CollateralTypeOK'
  BY <1>1, <1>3, <1>4, <1>7 DEF CollateralTypeOK
<1>9. InCustody(NATIVE_TOKEN)' - InCustody(NATIVE_TOKEN) = amount
  <2>1. IsFiniteSet(C) /\ base \in [C -> Nat]
    BY <1>1, FS_Subset
  <2>2. Total(base) \in Nat
    <3>1. CASE C = {}
      <4>1. DOMAIN base = {}
        BY <3>1
      <4> QED
        BY <4>1, TotalNone
    <3>2. CASE C # {}
      <4> HIDE DEF base, C
      <4> QED
        BY <2>1, <3>2, TotalBounds
    <3> QED
      BY <3>1, <3>2
  <2>3. Total(HeldWith(C, base, to, parts, n)) = Total(base) + Total(parts)
    <3>1. to \in [1 .. n -> C]
      BY <1>2
    <3> HIDE DEF C, base, to, parts, n
    <3> QED
      BY <1>2, <2>1, <2>2, <3>1, RouteTotal
  <2>4. \A c \in C : native[c] = base[c] + PaidIn(c, to, parts, n)
    <3>1. ASSUME NEW c \in C
          PROVE  native[c] = base[c] + PaidIn(c, to, parts, n)
      <4>1. c \in Address /\ c # WAVAX /\ base[c] = nat[c]
        BY <1>1
      <4>2. PaidTo(c, route, parts) = PaidIn(c, to, parts, n)
        BY <1>2, PaidToNatural
      <4> HIDE DEF base, unwrapped, parts, n, to
      <4> QED
        BY <1>5, <1>6, <4>1, <4>2
    <3> QED
      BY <3>1
  <2>5. [c \in C |-> native[c]] = HeldWith(C, base, to, parts, n)
    BY <2>4 DEF HeldWith
  <2>6. /\ InCustody(NATIVE_TOKEN) = Total(base)
        /\ InCustody(NATIVE_TOKEN)' = Total([c \in C |-> native[c]])
    BY <1>8 DEF InCustody
  <2>7. Total(parts) = amount /\ amount \in Nat
    BY <1>1, <1>2
  <2>8. InCustody(NATIVE_TOKEN)' = Total(base) + Total(parts)
    BY <2>3, <2>5, <2>6, Zenon
  <2> HIDE DEF base, parts, amount
  <2> QED
    BY <2>2, <2>6, <2>7, <2>8
<1>10. \A a \in Address \ {WAVAX} : native[a] >= nat[a]
  <2> HIDE DEF unwrapped, nat
  <2> QED
    BY <1>5, <1>6
<1> HIDE DEF unwrapped, parts
<1> QED
  BY <1>4, <1>8, <1>9, <1>10 DEF UnwrapsAndPays

LEMMA MintV1Collateral ==
    ASSUME V1StateInv, NEW sender \in Caller, NEW order \in OrderInput,
           NEW route \in RouteInput, NEW signature \in SignatureInput,
           MintV1(sender, order, route, signature)
    PROVE  CollateralTypeOK'
<1>1. SettingsTypeOK /\ CollateralTypeOK /\ WAVAX \notin custodianAddresses
  BY DEF V1StateInv, MintingStateInv, SettingsInv
<1>2. /\ VerifyRoute(route) /\ UNCHANGED custodianAddresses
      /\ TransferEthCollateral(order, route) \/ TransferCollateral(order, route)
  BY DEF MintV1, listVars
<1> QED
  BY <1>1, <1>2, EthPaid, CollateralPaid

LEMMA OrderV1State ==
    ASSUME V1StateInv, NEW sender \in Caller, NEW order \in OrderInput,
           NEW signature \in SignatureInput, OrderCallV1(sender, order, signature)
    PROVE  SettingsInv' /\ CountersTypeOK' /\ CollateralTypeOK' /\ WAVAX \notin custodianAddresses'
<1>1. order.avusd_amount \in Nat
  BY OrderFields
<1>2. SettingsInv /\ SettingsTypeOK /\ CountersTypeOK /\ CollateralTypeOK
  BY DEF V1StateInv, MintingStateInv, SettingsInv
<1>3. /\ UNCHANGED <<listVars, limitVars, delegatedSigner, blockNumber>>
      /\ \/ BelowMaxMintPerBlock(order.avusd_amount)
         \/ BelowMaxRedeemPerBlock(order.avusd_amount)
  BY DEF OrderCallV1, MintV1, RedeemV1
<1>4. SettingsInv' /\ CountersTypeOK'
  BY <1>1, <1>2, <1>3, SettingsFrame, CountersTyped
<1>5. CollateralTypeOK'
  BY <1>2, MintV1Collateral, CollateralRedeemed DEF OrderCallV1, RedeemV1
<1> QED
  BY <1>3, <1>4, <1>5 DEF V1StateInv, listVars

\* Deposits, withdrawals and transfers of WAVAX keep the balances natural.
LEMMA WavaxCallState ==
    ASSUME CollateralTypeOK, NEW sender \in Caller, WavaxCall(sender)
    PROVE  CollateralTypeOK'
<1> DEFINE bal == collateral[WAVAX]
           nat == collateral[NATIVE_TOKEN]
<1>1. /\ sender \in Address /\ WAVAX \in Address /\ IsFiniteSet(Address)
      /\ WAVAX \in Asset /\ NATIVE_TOKEN \in Asset /\ WAVAX # NATIVE_TOKEN
      /\ bal \in [Address -> Nat] /\ nat \in [Address -> Nat] /\ bal[sender] \in Nat
  <2>1. /\ sender \in Address /\ WAVAX \in Address /\ IsFiniteSet(Address)
        /\ WAVAX \in Asset /\ NATIVE_TOKEN \in Asset /\ WAVAX # NATIVE_TOKEN
    BY AvUSDAssumption, AccountsAssumption, WavaxAssumption, MintingAssumption
  <2> QED
    BY <2>1 DEF CollateralTypeOK
<1>2. ASSUME NEW wavax \in [Address -> Nat], NEW native \in [Address -> Nat],
             collateral' = [collateral EXCEPT ![WAVAX] = wavax, ![NATIVE_TOKEN] = native]
      PROVE  CollateralTypeOK'
  BY <1>1, <1>2 DEF CollateralTypeOK
<1>3. ASSUME NEW amount \in Nat, Deposit(sender, amount)
      PROVE  CollateralTypeOK'
  <2> DEFINE wavax  == [bal EXCEPT ![sender] = bal[sender] + amount]
             native == Move(nat, sender, WAVAX, amount)
  <2>1. /\ collateral' = [collateral EXCEPT ![WAVAX] = wavax, ![NATIVE_TOKEN] = native]
        /\ amount <= nat[sender]
    BY <1>1, <1>3 DEF Deposit, CollateralTypeOK
  <2>2. wavax \in [Address -> Nat]
    BY <1>1
  <2>3. native \in [Address -> Nat]
    <3> HIDE DEF nat
    <3> QED
      BY <1>1, <2>1, MoveTotal
  <2> HIDE DEF wavax, native
  <2> QED
    BY <1>2, <2>1, <2>2, <2>3
<1>4. ASSUME NEW amount \in Nat, Withdraw(sender, amount)
      PROVE  CollateralTypeOK'
  <2> DEFINE wavax  == [bal EXCEPT ![sender] = bal[sender] - amount]
             native == Move(nat, WAVAX, sender, amount)
  <2>1. /\ collateral' = [collateral EXCEPT ![WAVAX] = wavax, ![NATIVE_TOKEN] = native]
        /\ bal[sender] >= amount /\ amount <= nat[WAVAX]
    BY <1>1, <1>4 DEF Withdraw, Unwrapped, CollateralTypeOK
  <2>2. wavax \in [Address -> Nat]
    <3>1. bal[sender] - amount \in Nat
      BY <1>1, <2>1
    <3> HIDE DEF bal
    <3> QED
      BY <1>1, <3>1
  <2>3. native \in [Address -> Nat]
    <3> HIDE DEF nat
    <3> QED
      BY <1>1, <2>1, MoveTotal
  <2> HIDE DEF wavax, native
  <2> QED
    BY <1>2, <2>1, <2>2, <2>3
<1>5. ASSUME NEW in \in WavaxTransfer, TransferFromWavax(sender, in[2], in[3], in[4])
      PROVE  CollateralTypeOK'
  <2> DEFINE wavax == Move(bal, in[2], in[3], in[4])
  <2>1. in[2] \in Address /\ in[3] \in Address /\ in[4] \in Nat
    BY WavaxAssumption
  <2>2. /\ collateral' = [collateral EXCEPT ![WAVAX] = wavax]
        /\ in[4] <= bal[in[2]]
    BY <1>1, <1>5, <2>1 DEF TransferFromWavax, CollateralTypeOK
  <2>3. wavax \in [Address -> Nat]
    <3> HIDE DEF bal
    <3> QED
      BY <1>1, <2>1, <2>2, MoveTotal
  <2> HIDE DEF wavax
  <2> QED
    BY <1>1, <2>2, <2>3 DEF CollateralTypeOK
<1>6. ASSUME UNCHANGED collateral
      PROVE  CollateralTypeOK'
  BY <1>6 DEF CollateralTypeOK
<1>7. ASSUME NEW in \in WrapInput
      PROVE  in[2] \in Nat
  BY WavaxAssumption
<1>8. ASSUME NEW guy, NEW wad, ApproveWavax(sender, guy, wad)
      PROVE  CollateralTypeOK'
  BY <1>6, <1>8 DEF ApproveWavax, allVars, mintingVars
<1> QED
  BY <1>3, <1>4, <1>5, <1>7, <1>8, Zenon DEF WavaxCall

\* Who is custodian.
LEMMA CustodiansKnown ==
    ASSUME WAVAX \notin custodianAddresses, NEW sender \in Caller, OtherCall(sender)
    PROVE  WAVAX \notin custodianAddresses'
<1>1. WAVAX \notin CustodianInput
  BY WavaxAssumption
<1>2. CASE DelegationOrLimitCall(sender)
  BY <1>2 DEF DelegationOrLimitCall, SetDelegatedSigner, ConfirmDelegatedSigner,
              RemoveDelegatedSigner, LimitCall, SetMaxMintPerBlock, SetMaxRedeemPerBlock,
              SetStablesDeltaLimit, DisableMintRedeem, listVars
<1>3. CASE ListCall(sender)
  BY <1>1, <1>3 DEF ListCall, AddSupportedAsset, RemoveSupportedAsset, AddCustodianAddress,
                    RemoveCustodianAddress, TransferToCustody, listVars
<1>4. CASE RemovalCall(sender) \/ AccessCall(sender) \/ TokenCall(sender)
  BY <1>4 DEF RemovalCall, RemoveRole, AccessCall, TokenCall, mintingVars, listVars
<1> QED
  BY <1>2, <1>3, <1>4 DEF OtherCall

LEMMA SharedCallIsOther ==
    ASSUME NEW sender \in Caller, SharedCall(sender)
    PROVE  OtherCall(sender)
BY Zenon DEF SharedCall, OtherCall, DelegationOrLimitCall

LEMMA V1StateInitial ==
    ASSUME V1Init
    PROVE  V1StateInv
<1>1. V1Inv /\ MintingStateInv
  BY V1Initial, MintingStateInitial DEF V1Init
<1>2. WAVAX \notin custodianAddresses
  BY WavaxAssumption DEF V1Init, MintingInit
<1> QED
  BY <1>1, <1>2 DEF V1StateInv

LEMMA V1StateStep ==
    ASSUME V1StateInv, [V1Next]_v1Vars
    PROVE  V1StateInv'
<1> DEFINE Goal == /\ SettingsInv' /\ CountersTypeOK' /\ CollateralTypeOK'
                   /\ WAVAX \notin custodianAddresses'
<1>1. V1Inv'
  BY V1Step DEF V1StateInv
<1>2. SettingsInv /\ CountersTypeOK /\ CollateralTypeOK /\ WAVAX \notin custodianAddresses
  BY DEF V1StateInv, MintingStateInv
<1>3. ASSUME NEW sender \in Caller, NEW order \in OrderInput,
             NEW signature \in SignatureInput, OrderCallV1(sender, order, signature)
      PROVE  Goal
  BY <1>3, OrderV1State
<1>4. ASSUME NEW sender \in Caller, WavaxCall(sender)
      PROVE  Goal
  <2>1. CollateralTypeOK'
    BY <1>2, <1>4, WavaxCallState
  <2>2. UNCHANGED otherVars
    BY <1>4, WavaxCallStep DEF V1StateInv, V1Inv
  <2>3. SettingsInv'
    BY <1>2, <2>2, SettingsFrame DEF otherVars
  <2> QED
    BY <1>2, <2>1, <2>2, <2>3 DEF otherVars, listVars, counterVars, CountersTypeOK
<1>5. ASSUME NEW sender \in Caller, SharedCall(sender)
      PROVE  Goal
  BY <1>2, <1>5, SharedCallIsOther, OtherCallState, CustodiansKnown
<1>6. ASSUME EnvironmentV1
      PROVE  Goal
  <2>1. UNCHANGED listVars
    BY <1>6 DEF EnvironmentV1, SendCollateral, NewBlock
  <2> QED
    BY <1>2, <1>6, <2>1, EnvironmentState DEF EnvironmentV1, listVars
<1>7. ASSUME UNCHANGED v1Vars
      PROVE  Goal
  <2>1. UNCHANGED allVars /\ UNCHANGED listVars
    BY <1>7 DEF v1Vars, allVars, mintingVars
  <2> QED
    BY <1>2, <2>1, EnvironmentState DEF listVars
<1> HIDE DEF Goal
<1>8. Goal
  BY <1>3, <1>4, <1>5, <1>6, <1>7, Zenon DEF V1Next
<1>9. V1Inv' => MintingInv'
  BY DEF V1Inv
<1> QED
  BY <1>1, <1>8, <1>9 DEF Goal, V1StateInv, MintingStateInv

\* MintIsPaidWhole, of one step.
PaidWholeStep ==
    minter = Minting /\ avUSDSupply' > avUSDSupply =>
      \E asset \in supportedAssets \ {NATIVE_TOKEN}, benefactor \in Benefactors :
         LET paid     == IF asset = WAVAX THEN NATIVE_TOKEN ELSE asset
             gained   == InCustody(paid)' - InCustody(paid)
             lost     == collateral[asset][benefactor] - collateral'[asset][benefactor]
         IN  /\ IF benefactor \in custodianAddresses /\ asset = paid
                THEN gained = 0
                ELSE lost > 0 /\ gained = lost
             /\ \A a \in Address \ {benefactor} :
                   collateral'[asset][a] >= collateral[asset][a]
             /\ \A a \in Address \ {benefactor, WAVAX} :
                   collateral'[paid][a] >= collateral[paid][a]
             /\ \A other \in Asset \ {asset, paid} : collateral'[other] = collateral[other]

LEMMA MintV1Paid ==
    ASSUME V1StateInv, NEW sender \in Caller, NEW order \in OrderInput,
           NEW route \in RouteInput, NEW signature \in SignatureInput,
           MintV1(sender, order, route, signature)
    PROVE  PaidWholeStep
<1> DEFINE b == order.benefactor
           amount == order.collateral_amount
<1>1. /\ SettingsTypeOK /\ CollateralTypeOK /\ BitmapTypeOK
      /\ WAVAX \notin custodianAddresses /\ UNCHANGED custodianAddresses
      /\ WAVAX \in Asset /\ WAVAX # NATIVE_TOKEN
      /\ b \in Address /\ amount \in Nat /\ amount > 0
  BY OrderFields, WavaxAssumption
     DEF V1StateInv, MintingStateInv, MintingInv, SettingsInv, MintV1, VerifyOrderV1, listVars
<1>2. b \in Benefactors
  <2>1. <<b, order.nonce>> \notin Executed /\ Executed' = Executed \cup {<<b, order.nonce>>}
    BY <1>1, DeduplicateExecutes DEF MintV1
  <2> QED
    BY <2>1 DEF Benefactors
<1>3. CASE TransferEthCollateral(order, route)
  <2>1. UnwrapsAndPays(b, amount)
    BY <1>1, <1>3, EthPaid DEF MintV1
  <2>2. WAVAX \in supportedAssets \ {NATIVE_TOKEN}
    BY <1>1, <1>3 DEF TransferEthCollateral
  <2>3. \A a \in Address \ {b} : collateral'[WAVAX][a] >= collateral[WAVAX][a]
    <3>1. ASSUME NEW a \in Address \ {b}
          PROVE  collateral'[WAVAX][a] >= collateral[WAVAX][a]
      <4>1. collateral[WAVAX][a] \in Nat /\ collateral'[WAVAX][a] = collateral[WAVAX][a]
        BY <1>1, <2>1 DEF UnwrapsAndPays, CollateralTypeOK
      <4> QED
        BY <4>1
    <3> QED
      BY <3>1
  <2> DEFINE lost   == collateral[WAVAX][b] - collateral'[WAVAX][b]
             gained == InCustody(NATIVE_TOKEN)' - InCustody(NATIVE_TOKEN)
  <2>4. lost = amount /\ gained = amount
    BY <2>1 DEF UnwrapsAndPays
  <2>5. lost > 0 /\ gained = lost
    <3> HIDE DEF lost, gained, amount
    <3> QED
      BY <1>1, <2>4
  <2>6. /\ \A a \in Address \ {b, WAVAX} :
              collateral'[NATIVE_TOKEN][a] >= collateral[NATIVE_TOKEN][a]
        /\ \A other \in Asset \ {WAVAX, NATIVE_TOKEN} : collateral'[other] = collateral[other]
    BY <2>1 DEF UnwrapsAndPays
  <2> HIDE DEF b
  <2> QED
    BY <1>1, <1>2, <2>2, <2>3, <2>5, <2>6 DEF PaidWholeStep
<1>4. CASE TransferCollateral(order, route) /\ order.collateral_asset # WAVAX
  <2> DEFINE asset == order.collateral_asset
             lost   == collateral[asset][b] - collateral'[asset][b]
             gained == InCustody(asset)' - InCustody(asset)
  <2>1. /\ asset \in supportedAssets \ {NATIVE_TOKEN} /\ CollateralTypeOK'
        /\ \A other \in Asset \ {asset} : collateral'[other] = collateral[other]
        /\ PaidOut(Address, custodianAddresses, b, collateral[asset], collateral'[asset], amount)
    BY <1>1, <1>4, CollateralPaid DEF MintV1
  <2>2. asset \in Asset
    BY <1>1, <2>1 DEF SettingsTypeOK
  <2>3. gained = IF b \in custodianAddresses THEN 0 ELSE amount
    BY <1>1, <2>1, <2>2, CustodyPaid
  <2>4. b \notin custodianAddresses => lost = amount
    <3>1. collateral[asset][b] \in Nat
      BY <1>1, <2>2 DEF CollateralTypeOK
    <3>2. b \notin custodianAddresses => collateral'[asset][b] = collateral[asset][b] - amount
      BY <2>1 DEF PaidOut
    <3> HIDE DEF asset, b, amount
    <3> QED
      BY <1>1, <3>1, <3>2
  <2>5. IF b \in custodianAddresses THEN gained = 0 ELSE lost > 0 /\ gained = lost
    <3> HIDE DEF lost, gained, amount, b
    <3> QED
      BY <1>1, <2>3, <2>4
  <2>6. \A a \in Address \ {b} : collateral'[asset][a] >= collateral[asset][a]
    BY <2>1 DEF PaidOut
  <2> HIDE DEF asset, b
  <2> QED
    BY <1>1, <1>2, <1>4, <2>1, <2>5, <2>6 DEF PaidWholeStep, asset
<1> QED
  BY <1>3, <1>4 DEF MintV1

\* While the contract is the minter, nothing but a mint raises the supply.
LEMMA MintsOnlyV1 ==
    ASSUME V1StateInv, [V1Next]_v1Vars,
           ~ \E sender \in Caller, order \in OrderInput, signature \in SignatureInput,
                route \in RouteInput : MintV1(sender, order, route, signature)
    PROVE  ~ (minter = Minting /\ avUSDSupply' > avUSDSupply)
<1>1. avUSDSupply \in Nat /\ MintingStateInv
  BY DEF V1StateInv, MintingStateInv, MintingInv, AvUSDInv, CoinInv, CoinTypeOK
<1>2. ASSUME NEW sender \in Caller, NEW order \in OrderInput,
             NEW signature \in SignatureInput, RedeemV1(sender, order, signature)
      PROVE  ~ (minter = Minting /\ avUSDSupply' > avUSDSupply)
  BY <1>1, <1>2, OrderSupply DEF RedeemV1
<1>3. ASSUME UNCHANGED avUSDVars
      PROVE  ~ (minter = Minting /\ avUSDSupply' > avUSDSupply)
  BY <1>1, <1>3 DEF avUSDVars, coinVars
<1>4. ASSUME NEW sender \in Caller, WavaxCall(sender)
      PROVE  ~ (minter = Minting /\ avUSDSupply' > avUSDSupply)
  <2>1. UNCHANGED otherVars
    BY <1>4, WavaxCallStep DEF V1StateInv, V1Inv
  <2> QED
    BY <1>3, <2>1 DEF otherVars
<1>5. ASSUME NEW sender \in Caller, SharedCall(sender)
      PROVE  ~ (minter = Minting /\ avUSDSupply' > avUSDSupply)
  BY <1>1, <1>5, SharedCallIsOther, SupplyElsewhere
<1>6. ASSUME EnvironmentV1 \/ UNCHANGED v1Vars
      PROVE  ~ (minter = Minting /\ avUSDSupply' > avUSDSupply)
  BY <1>3, <1>6 DEF EnvironmentV1, SendCollateral, NewBlock, v1Vars, allVars
<1> QED
  BY <1>2, <1>4, <1>5, <1>6, Zenon DEF V1Next, OrderCallV1

LEMMA V1PaidStep ==
    ASSUME V1StateInv, [V1Next]_v1Vars
    PROVE  PaidWholeStep
<1>1. CASE \E sender \in Caller, order \in OrderInput, signature \in SignatureInput,
              route \in RouteInput : MintV1(sender, order, route, signature)
  BY <1>1, MintV1Paid
<1>2. CASE ~ \E sender \in Caller, order \in OrderInput, signature \in SignatureInput,
                route \in RouteInput : MintV1(sender, order, route, signature)
  <2>1. ~ (minter = Minting /\ avUSDSupply' > avUSDSupply)
    BY <1>2, MintsOnlyV1
  <2> QED
    BY <2>1 DEF PaidWholeStep
<1> QED
  BY <1>1, <1>2

-----------------------------------------------------------------------------

\* The inductive invariant with the types of all the state: what is proved of the
\* state of the second version holds of the first, whose mints unwrap WAVAX.
THEOREM V1StateInvariant == V1Spec => []V1StateInv
<1>1. V1Init => V1StateInv
  BY V1StateInitial
<1>2. V1StateInv /\ [V1Next]_v1Vars => V1StateInv'
  BY V1StateStep
<1> QED
  BY <1>1, <1>2, PTL DEF V1Spec

\* The custodians of a mint receive exactly what leaves its benefactor, in the asset
\* or unwrapped, however the route splits it and however often it names them.
THEOREM V1MintsArePaid == V1Spec => MintIsPaidWhole
<1>1. V1StateInv /\ [V1Next]_v1Vars => PaidWholeStep
  BY V1PaidStep
<1> QED
  BY <1>1, V1StateInvariant, PTL DEF V1Spec, MintIsPaidWhole, PaidWholeStep
=============================================================================
