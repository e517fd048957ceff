----------------------------- MODULE AvUSDSystem -----------------------------
(***************************************************************************)
(* The token and the cooldown vault as they are deployed together: what    *)
(* the vault and the silo hold is their balance in AvUSD, deposits and     *)
(* rewards use up an allowance, and all avUSD is minted by the minter.  A  *)
(* history variable remembers who sent the last transaction, for the       *)
(* properties that say on whose word a step may happen.                    *)
(***************************************************************************)
EXTENDS StakedAvUSDV2

CONSTANTS
    InitialTokenOwner,   \* the argument of the token's constructor
    ApprovalInput,       \* <<owner, spender, amount>> of the approvals of avUSD
    NewMinter,           \* the arguments setMinter is called with
    NewTokenOwner        \* the arguments transferOwnership is called with

ASSUME SystemAssumption ==
    /\ \A a \in Address : InitialAvUSD[a] = 0
    /\ 1 .. MaxAvUSD \subseteq Issuance
    /\ MAX_UINT # 0
    /\ InitialTokenOwner \in Address \ {Zero}
    /\ ApprovalInput \subseteq Caller \X Address \X Nat
    /\ NewMinter \subseteq Address
    /\ NewTokenOwner \subseteq Address

VARIABLES
    avUSDSupply,
    avUSDAllowance,      \* avUSDAllowance[owner][spender]
    minter,
    tokenOwner, pendingOwner,
    msgSender            \* msg.sender of the last transaction, Zero for a tick

\* The token, which the vault and the silo call as well.
Token == INSTANCE AvUSD WITH
            avUSDBalance   <- avUSD,
            Caller         <- Caller \cup {Vault, Silo},
            AvUSDAmount    <- Issuance,
            AvUSDRecipient <- Recipient \cup {Vault}

\* The part of the token that the vault alone does not know.
tokenVars  == <<avUSDSupply, avUSDAllowance, minter, tokenOwner, pendingOwner>>
systemVars == <<v2Vars, tokenVars, msgSender>>

-----------------------------------------------------------------------------

\* What a call of the vault takes from its sender it pulls with transferFrom;
\* what the vault and the silo pay they send with transfer.
PaysToken(sender) ==
    LET amount == avUSD[sender] - avUSD'[sender]
    IN  IF amount > 0
        THEN Token!AvUSDTransferFrom(Vault, sender, Vault, amount)
        ELSE UNCHANGED tokenVars

VaultCall(sender) == CallV2(sender) /\ PaysToken(sender)

TokenCall(sender) ==
    /\ Token!AvUSDCall(sender) \/ Token!MinterCall(sender)
    /\ UNCHANGED <<accessVars, shareVars, vestingVars, now, cooldownVars>>

SystemInit == InitV2 /\ Token!AvUSDInit /\ msgSender = Zero

SystemNext ==
    \/ \E sender \in Caller :
          /\ VaultCall(sender) \/ TokenCall(sender)
          /\ msgSender' = sender
    \/ /\ Tick
       /\ UNCHANGED <<cooldownVars, tokenVars>>
       /\ msgSender' = Zero

SystemSpec == SystemInit /\ [][SystemNext]_systemVars

-----------------------------------------------------------------------------
(* Properties. *)

\* The composition is both the cooldown vault and the token: every transaction
\* is a step of each, or leaves it alone. What the vault assumes of the avUSD
\* it does not move itself, that nobody can take any from it or from the silo,
\* is so, because they give no allowance; and its payments are transfers.
ImplementsParts == SpecV2 /\ Token!AvUSDSpec

\* An infinite allowance stays; any other covers the amount and shrinks by it.
Spent(given, left, amount) ==
    \/ given = MAX_UINT /\ left = MAX_UINT
    \/ given >= amount /\ left = given - amount

\* Shares leave an account only by its own call, within an allowance it gave
\* that is used up accordingly, or by the admin's seizure from a fully
\* restricted account or rescue from the vault. avUSD leaves an account only by
\* its own call or within an allowance; the vault, as shares are burned; and
\* the silo, as the sender's claim is settled by that amount.
OnlyByConsent ==
    [][\A a \in Address :
          /\ balanceOf'[a] < balanceOf[a] =>
                \/ msgSender' = a
                \/ Spent(allowance[a][msgSender'], allowance'[a][msgSender'],
                         balanceOf[a] - balanceOf'[a])
                \/ /\ FullRestricted(a) \/ a = Vault
                   /\ msgSender' = owner
          /\ avUSD'[a] < avUSD[a] =>
                \/ msgSender' = a
                \/ Spent(avUSDAllowance[a][msgSender'], avUSDAllowance'[a][msgSender'],
                         avUSD[a] - avUSD'[a])
                \/ a = Vault /\ totalSupply' < totalSupply
                \/ a = Silo /\ Pending[msgSender'] - Pending'[msgSender']
                                  = avUSD[a] - avUSD'[a]]_systemVars

\* No blacklist manager can restrict the account that is the admin at that
\* moment, even across a handover; only the admin can restrict itself.
OwnerRestrictsOnlyItself ==
    [][(/\ SoftRestricted(owner)' \/ FullRestricted(owner)'
        /\ ~SoftRestricted(owner') /\ ~FullRestricted(owner'))
       => msgSender' = owner]_systemVars

\* Only accounts that can call it have given allowances of avUSD: not the vault,
\* not the silo.
OnlyCallersApprove ==
    \A a \in Address \ Caller, b \in Address : avUSDAllowance[a][b] = 0

\* What every transaction preserves together: the invariants of the vault and of
\* the token, and that nobody may spend for the contracts.
SystemInv == V2Inv /\ Token!AvUSDInv /\ OnlyCallersApprove
=============================================================================
