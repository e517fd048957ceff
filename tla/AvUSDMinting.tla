---------------------------- MODULE AvUSDMinting ----------------------------
(***************************************************************************)
(* contracts/AvUSDMinting.sol, the first version of the minting contract,  *)
(* with the WAVAX of contracts/WETH9.sol that it unwraps.  What the second *)
(* version took over from it word for word - roles, lists, limits, nonces, *)
(* routes, delegation, custody - is the text of AvUSDMintingV2; here is    *)
(* what differs: no price check, no contract wallets, no delta limit, and  *)
(* mints paid in WAVAX, which reach the custodians as the native coin.     *)
(***************************************************************************)
EXTENDS AvUSDMintingV2

CONSTANTS
    WAVAX,          \* the wrapped native coin, one of the assets
    WrapInput,      \* <<account, amount>>: calls of deposit and withdraw
    WavaxApproval,  \* <<owner, spender, amount>>: calls of approve
    WavaxTransfer   \* <<sender, from, to, amount>>: calls of transferFrom

\* Native coins sent to the WAVAX contract would be deposits: neither custodians
\* nor beneficiaries are that contract.
ASSUME WavaxAssumption ==
    /\ WAVAX \in Asset \ (Caller \cup {NATIVE_TOKEN, Minting})
    /\ WAVAX \notin Payable \cup InitialCustodians \cup CustodianInput
    /\ Minting \in Payable
    /\ DeltaInput = {}
    /\ WrapInput \subseteq Caller \X Nat
    /\ WavaxApproval \subseteq Caller \X Address \X Nat
    /\ WavaxTransfer \subseteq Caller \X (Address \ {WAVAX}) \X Address \X Nat
    /\ \A in \in CollateralInput : in[1] # WAVAX /\ in[2] # WAVAX
    /\ InitialCollateral[WAVAX] = [a \in Address |-> 0]
    /\ InitialCollateral[NATIVE_TOKEN][WAVAX] = 0

VARIABLES
    wavaxAllowance,    \* WETH9.allowance[src][guy]
    elsewhere          \* history: what calls of the token, no orders, added to the supply

v1Vars == <<allVars, wavaxAllowance, elsewhere>>

\* What neither WETH9 nor its callers touch.
otherVars == <<accessVars, avUSDVars, listVars, limitVars, counterVars, orderBitmaps,
               delegatedSigner, blockNumber>>

-----------------------------------------------------------------------------
(* WETH9: its balances are collateral[WAVAX], its coins those of its address. *)

\* deposit, and receive: the native coins of the call are wrapped.
Deposit(sender, amount) ==
    /\ collateral[NATIVE_TOKEN][sender] >= amount
    /\ collateral' = [collateral EXCEPT
          ![NATIVE_TOKEN] = Move(@, sender, WAVAX, amount),
          ![WAVAX][sender] = @ + amount]
    /\ UNCHANGED <<otherVars, wavaxAllowance>>

\* withdraw: the balances after `sender' unwrapped wad of its coins.
Unwrapped(sender, wad) ==
    [collateral EXCEPT
        ![WAVAX][sender] = @ - wad,
        ![NATIVE_TOKEN] = Move(@, WAVAX, sender, wad)]

Withdraw(sender, wad) ==
    /\ sender \in Payable
    /\ collateral[WAVAX][sender] >= wad
    /\ collateral[NATIVE_TOKEN][WAVAX] >= wad
    /\ collateral' = Unwrapped(sender, wad)
    /\ UNCHANGED <<otherVars, wavaxAllowance>>

ApproveWavax(sender, guy, wad) ==
    /\ wavaxAllowance' = [wavaxAllowance EXCEPT ![sender][guy] = wad]
    /\ UNCHANGED allVars

\* The allowance part of transferFrom.
SpendWavax(sender, src, wad) ==
    \/ /\ src = sender \/ wavaxAllowance[src][sender] = MAX_UINT
       /\ UNCHANGED wavaxAllowance
    \/ /\ src # sender /\ wavaxAllowance[src][sender] # MAX_UINT
       /\ wavaxAllowance[src][sender] >= wad
       /\ wavaxAllowance' = [wavaxAllowance EXCEPT ![src][sender] = @ - wad]

\* Mutant of TransferFromWavax: both balances are read before either is written.
TransferFromStale(sender, src, dst, wad) ==
    LET srcBalance == collateral[WAVAX][src]
        dstBalance == collateral[WAVAX][dst]
    IN  /\ srcBalance >= wad
        /\ SpendWavax(sender, src, wad)
        /\ collateral' = [collateral EXCEPT ![WAVAX][src] = srcBalance - wad,
                                            ![WAVAX][dst] = dstBalance + wad]
        /\ UNCHANGED otherVars

\* transferFrom, and transfer when src is the sender; address(0) is no exception.
TransferFromWavax(sender, src, dst, wad) ==
    /\ collateral[WAVAX][src] >= wad
    /\ SpendWavax(sender, src, wad)
    /\ collateral' = [collateral EXCEPT ![WAVAX] = Move(@, src, dst, wad)]
    /\ UNCHANGED otherVars

-----------------------------------------------------------------------------
(* Orders. *)

\* verifyOrder: the signature is by the benefactor's key or a delegate's; nothing
\* is asked of the price.
VerifyOrderV1(order, signature) ==
    /\ \/ signature.signer = order.benefactor
       \/ delegatedSigner[signature.signer][order.benefactor] = "ACCEPTED"
    /\ order.beneficiary # Zero
    /\ order.collateral_amount # 0 /\ order.avusd_amount # 0
    /\ blockNumber <= order.expiry

\* What a route pays to an account that it may name several times.
PaidTo(account, route, parts) ==
    Total([i \in {j \in DOMAIN parts : route.addresses[j] = account} |-> parts[i]])

\* Mutant of TransferEthCollateral: nothing is unwrapped; the WAVAX stays with the
\* contract, and its own native coins are sent.
PayFromReserve(order, route) ==
    LET amount == order.collateral_amount
        parts  == Parts(amount, route.ratios)
        native == [collateral[NATIVE_TOKEN] EXCEPT ![Minting] = @ - amount]
    IN  /\ WAVAX \in supportedAssets
        /\ collateral[WAVAX][order.benefactor] >= amount
        /\ SpendWavax(Minting, order.benefactor, amount)
        /\ collateral[NATIVE_TOKEN][Minting] >= amount
        /\ \A i \in DOMAIN parts : route.addresses[i] \in Payable
        /\ collateral' = [collateral EXCEPT
              ![WAVAX] = Move(@, order.benefactor, Minting, amount),
              ![NATIVE_TOKEN] = [a \in Address |-> native[a] + PaidTo(a, route, parts)]]

\* _transferEthCollateral: this contract takes the WAVAX, unwraps it, and sends
\* the native coins along the route.  One recipient that refuses reverts all.
\* The order of the sends does not matter: the coins just unwrapped cover them.
TransferEthCollateral(order, route) ==
    LET amount == order.collateral_amount
        parts  == Parts(amount, route.ratios)
        native == [collateral[NATIVE_TOKEN] EXCEPT ![WAVAX] = @ - amount]
    IN  /\ WAVAX \in supportedAssets
        /\ collateral[WAVAX][order.benefactor] >= amount
        /\ SpendWavax(Minting, order.benefactor, amount)
        /\ collateral[NATIVE_TOKEN][WAVAX] >= amount
        /\ \A i \in DOMAIN parts : route.addresses[i] \in Payable
        /\ collateral' = [collateral EXCEPT
              ![WAVAX][order.benefactor] = @ - amount,
              ![NATIVE_TOKEN] = [a \in Address |-> native[a] + PaidTo(a, route, parts)]]

MintV1(sender, order, route, signature) ==
    /\ HasRole(MINTER_ROLE, sender)
    /\ BelowMaxMintPerBlock(order.avusd_amount)
    /\ order.order_type = "MINT"
    /\ VerifyOrderV1(order, signature)
    /\ VerifyRoute(route)
    /\ DeduplicateOrder(order.benefactor, order.nonce)
    /\ \/ /\ order.collateral_asset = WAVAX
          /\ TransferEthCollateral(order, route)
       \/ /\ order.collateral_asset # WAVAX
          /\ TransferCollateral(order, route)
          /\ UNCHANGED wavaxAllowance
    /\ AvUSDMint(Minting, order.beneficiary, order.avusd_amount)
    /\ UNCHANGED <<accessVars, listVars, limitVars, delegatedSigner, blockNumber>>

RedeemV1(sender, order, signature) ==
    /\ HasRole(REDEEMER_ROLE, sender)
    /\ BelowMaxRedeemPerBlock(order.avusd_amount)
    /\ order.order_type = "REDEEM"
    /\ VerifyOrderV1(order, signature)
    /\ DeduplicateOrder(order.benefactor, order.nonce)
    /\ AvUSDBurnFrom(Minting, order.benefactor, order.avusd_amount)
    /\ TransferToBeneficiary(order.beneficiary, order.collateral_asset,
                             order.collateral_amount)
    /\ UNCHANGED <<accessVars, listVars, limitVars, delegatedSigner, blockNumber,
                   wavaxAllowance>>

-----------------------------------------------------------------------------

V1Init ==
    /\ MintingInit
    /\ wavaxAllowance = [a \in Address |-> [b \in Address |-> 0]]
    /\ elsewhere = 0

OrderCallV1(sender, order, signature) ==
    \/ \E route \in RouteInput : MintV1(sender, order, route, signature)
    \/ RedeemV1(sender, order, signature)

WavaxCall(sender) ==
    \/ \E in \in WrapInput : /\ in[1] = sender
                             /\ Deposit(sender, in[2]) \/ Withdraw(sender, in[2])
    \/ \E in \in WavaxApproval : in[1] = sender /\ ApproveWavax(sender, in[2], in[3])
    \/ \E in \in WavaxTransfer :
          in[1] = sender /\ TransferFromWavax(sender, in[2], in[3], in[4])

\* The calls whose code both versions share.
SharedCall(sender) ==
    /\ \/ \E in \in DelegationInput :
             /\ in[1] = sender
             /\ \/ SetDelegatedSigner(sender, in[2])
                \/ ConfirmDelegatedSigner(sender, in[2])
                \/ RemoveDelegatedSigner(sender, in[2])
       \/ LimitCall(sender)
       \/ DisableMintRedeem(sender)
       \/ ListCall(sender)
       \/ RemovalCall(sender)
       \/ AccessCall(sender)
       \/ TokenCall(sender)
    /\ UNCHANGED wavaxAllowance

EnvironmentV1 ==
    /\ \/ \E in \in CollateralInput : SendCollateral(in[1], in[2], in[3], in[4])
       \/ NewBlock
    /\ UNCHANGED wavaxAllowance

\* Holders burn, and an account that is the minter issues; the history of that
\* guards nothing.
V1Next ==
    \/ \E sender \in Caller :
          \/ /\ \E order \in OrderInput, signature \in SignatureInput :
                   OrderCallV1(sender, order, signature)
             /\ UNCHANGED elsewhere
          \/ /\ WavaxCall(sender) \/ SharedCall(sender)
             /\ elsewhere' = elsewhere + (avUSDSupply' - avUSDSupply)
    \/ EnvironmentV1 /\ UNCHANGED elsewhere

V1Spec == V1Init /\ [][V1Next]_v1Vars

-----------------------------------------------------------------------------
(* Properties. *)

\* Every WAVAX can be unwrapped: deposits, withdrawals, transfers and the mints
\* that unwrap on the way leave as many coins in the WAVAX contract as it owes.
WavaxBacked == Total(collateral[WAVAX]) <= collateral[NATIVE_TOKEN][WAVAX]

\* The block limits are all that bounds what V1 orders issue: what orders added to
\* the supply, whoever else was the minter or burned in between, is what the blocks
\* counted as minted, less what they counted as redeemed.
SupplyIsCounted ==
    avUSDSupply - elsewhere = Total(mintedPerBlock) - Total(redeemedPerBlock)

\* Whatever rounding the route asks for, the custodians of a mint receive, in the
\* asset or unwrapped, exactly what leaves its benefactor - one that is a custodian
\* itself pays others of them; nobody else pays for it, the contract's own native
\* coins included, and no other asset moves.
MintIsPaidWhole ==
    [][minter = Minting /\ avUSDSupply' > avUSDSupply =>
         \E asset \in supportedAssets \ {NATIVE_TOKEN}, benefactor \in Benefactors :
            LET paid     == IF asset = WAVAX THEN NATIVE_TOKEN ELSE asset
                gained   == InCustody(paid)' - InCustody(paid)
                lost     == collateral[asset][benefactor] - collateral'[asset][benefactor]
            IN  /\ IF benefactor \in custodianAddresses /\ asset = paid
                   THEN gained = 0
                   ELSE lost > 0 /\ gained = lost
                /\ \A a \in Address \ {benefactor} :
                      collateral'[asset][a] >= collateral[asset][a]
                /\ \A a \in Address \ {benefactor, WAVAX} :
                      collateral'[paid][a] >= collateral[paid][a]
                /\ \A other \in Asset \ {asset, paid} : collateral'[other] = collateral[other]
      ]_v1Vars
=============================================================================
