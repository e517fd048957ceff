------------------------ MODULE AvUSDMintingV2History ------------------------
(***************************************************************************)
(* The minting contract with history variables: who sent the last          *)
(* transaction, whose signature it carried, whom each account trusts to    *)
(* sign for it, what was really issued and retired in each block, and      *)
(* which stops and dismissals of a gatekeeper are in force.                *)
(***************************************************************************)
EXTENDS AvUSDMintingV2

VARIABLES
    msgSender,   \* Zero when the last step was no call
    signer,      \* the signer of the order the last step executed, or Zero
    offers,      \* <<b, d>>: b asked d to sign for it, and has not taken it back
    trusts,      \* <<b, d>>: and d has confirmed since
    issued, retired,  \* by orders, in each block
    stopped,     \* a gatekeeper disabled orders, and neither limit was raised since
    dismissed    \* <<role, account>>: a gatekeeper removed it, no admin granted it since

trustVars   == <<offers, trusts>>
turnover    == <<issued, retired>>
stopVars    == <<stopped, dismissed>>
historyVars == <<allVars, msgSender, signer, trustVars, turnover, stopVars>>

HistoryInit ==
    /\ MintingInit
    /\ msgSender = Zero /\ signer = Zero
    /\ offers = {} /\ trusts = {}
    /\ issued = [b \in 0 .. MaxBlock |-> 0]
    /\ retired = [b \in 0 .. MaxBlock |-> 0]
    /\ stopped = FALSE /\ dismissed = {}

\* Turnover is read off the supply, not off the contract's counters.
Ordered(sender) ==
    \E order \in OrderInput, signature \in SignatureInput :
       /\ OrderCall(sender, order, signature)
       /\ signer' = signature.signer
       /\ issued' = [issued EXCEPT ![blockNumber] = @ +
                        (IF avUSDSupply' > avUSDSupply THEN avUSDSupply' - avUSDSupply ELSE 0)]
       /\ retired' = [retired EXCEPT ![blockNumber] = @ +
                        (IF avUSDSupply' < avUSDSupply THEN avUSDSupply - avUSDSupply' ELSE 0)]
       /\ UNCHANGED <<trustVars, stopVars>>

Delegated(sender) ==
    \E other \in {in[2] : in \in {pair \in DelegationInput : pair[1] = sender}} :
       /\ \/ /\ SetDelegatedSigner(sender, other)
             /\ offers' = offers \cup {<<sender, other>>}
             /\ trusts' = trusts \ {<<sender, other>>}
          \/ /\ ConfirmDelegatedSigner(sender, other)
             /\ offers' = offers \ {<<other, sender>>}
             /\ trusts' = trusts \cup (offers \cap {<<other, sender>>})
          \/ /\ RemoveDelegatedSigner(sender, other)
             /\ offers' = offers \ {<<sender, other>>}
             /\ trusts' = trusts \ {<<sender, other>>}
       /\ signer' = Zero
       /\ UNCHANGED <<turnover, stopVars>>

Stopped(sender) ==
    \/ DisableMintRedeem(sender) /\ stopped' = TRUE /\ UNCHANGED dismissed
    \/ \E in \in RoleInput :
          /\ RemoveRole(sender, in[1], in[2])
          /\ dismissed' = dismissed \cup {in}
          /\ UNCHANGED stopped

Managed(sender) ==
    \/ /\ LimitCall(sender)
       /\ stopped' = (stopped /\ maxMintPerBlock' = 0 /\ maxRedeemPerBlock' = 0)
       /\ UNCHANGED dismissed
    \/ /\ AccessCall(sender)
       /\ dismissed' = {in \in dismissed : in[2] \notin members'[in[1]]}
       /\ UNCHANGED stopped
    \/ ListCall(sender) /\ UNCHANGED stopVars
    \/ TokenCall(sender) /\ UNCHANGED stopVars

HistoryNext ==
    \/ \E sender \in Caller :
          /\ \/ Ordered(sender)
             \/ Delegated(sender)
             \/ /\ Stopped(sender) \/ Managed(sender)
                /\ signer' = Zero
                /\ UNCHANGED <<trustVars, turnover>>
          /\ msgSender' = sender
    \/ \E in \in CollateralInput :
          /\ SendCollateral(in[1], in[2], in[3], in[4])
          /\ msgSender' = in[2] /\ signer' = Zero
          /\ UNCHANGED <<trustVars, turnover, stopVars>>
    \/ /\ NewBlock
       /\ msgSender' = Zero /\ signer' = Zero
       /\ UNCHANGED <<trustVars, turnover, stopVars>>

HistorySpec == HistoryInit /\ [][HistoryNext]_historyVars

-----------------------------------------------------------------------------

\* Collateral and avUSD leave an account by its own call, by an order it signed, or
\* by an order of a signer it trusts at that moment - it asked the signer, who
\* confirmed after that, and it has not taken it back; avUSD also within an
\* allowance, which is used up accordingly unless it is infinite.
OnlyOnTrustedOrder ==
    [][\A a \in Address \ {Minting} :
          LET trusted == msgSender' = a \/ signer' = a \/ <<a, signer'>> \in trusts
              lost    == avUSDBalance[a] - avUSDBalance'[a]
              given   == avUSDAllowance[a][msgSender']
          IN  /\ (\E asset \in Asset : collateral'[asset][a] < collateral[asset][a]) => trusted
              /\ lost > 0 =>
                    \/ trusted
                    \/ /\ signer' = Zero
                       /\ \/ given = MAX_UINT
                          \/ /\ given >= lost
                             /\ avUSDAllowance'[a][msgSender'] = given - lost
      ]_historyVars

\* What orders really issue or retire in a block, whatever limits are set in
\* mid-block, is within the limit at the moment an order executes.
TurnoverWithinLimits ==
    [][/\ issued'[blockNumber] > issued[blockNumber] =>
             issued'[blockNumber] <= maxMintPerBlock
       /\ retired'[blockNumber] > retired[blockNumber] =>
             retired'[blockNumber] <= maxRedeemPerBlock]_historyVars

\* After a gatekeeper's stop no order executes until the admin raises a limit.
StopHolds == [][stopped => signer' = Zero]_historyVars

\* An account a gatekeeper dismissed as minter or redeemer issues or retires
\* nothing by orders until the admin grants it the role again.
DismissalHolds ==
    [][/\ issued' # issued => <<MINTER_ROLE, msgSender'>> \notin dismissed
       /\ retired' # retired => <<REDEEMER_ROLE, msgSender'>> \notin dismissed]_historyVars
=============================================================================
