-------------------------------- MODULE AvUSD --------------------------------
(***************************************************************************)
(* contracts/AvUSD.sol: the stablecoin, an ERC-20 with burning and permit, *)
(* one minter, and an owner that changes hands in two steps.  The module   *)
(* gives its operations; AvUSDMintingV2 composes them.                     *)
(***************************************************************************)
EXTENDS Accounts, VaultMath

CONSTANTS
    InitialTokenOwner,   \* the constructor's argument
    AvUSDAmount,         \* the amounts calls are made with
    AvUSDRecipient,      \* the addresses avUSD is sent to
    ApprovalInput,       \* <<owner, spender, amount>> of the calls of approve
    NewMinter,           \* the arguments setMinter is called with
    NewTokenOwner,       \* the arguments transferOwnership is called with
    MaxAvUSD             \* bound of the supply

ASSUME AvUSDAssumption ==
    /\ IsFiniteSet(Address)
    /\ InitialTokenOwner \in Address \ {Zero}
    /\ AvUSDAmount \subseteq Nat
    /\ AvUSDRecipient \subseteq Address
    /\ ApprovalInput \subseteq Caller \X Address \X Nat
    /\ NewMinter \subseteq Address
    /\ NewTokenOwner \subseteq Address
    /\ MaxAvUSD \in Nat

VARIABLES
    avUSDBalance,      \* avUSD held by each address
    avUSDSupply,
    avUSDAllowance,    \* avUSDAllowance[owner][spender]
    minter,
    tokenOwner, pendingOwner

coinVars      == <<avUSDBalance, avUSDSupply, avUSDAllowance>>
ownershipVars == <<minter, tokenOwner, pendingOwner>>
avUSDVars     == <<coinVars, ownershipVars>>

-----------------------------------------------------------------------------

\* Mutant of SpendAvUSD: the allowance is not consulted.
SpendsAny(account, spender, amount) == UNCHANGED avUSDAllowance

SpendAvUSD(account, spender, amount) ==
    \/ /\ avUSDAllowance[account][spender] = MAX_UINT
       /\ UNCHANGED avUSDAllowance
    \/ /\ avUSDAllowance[account][spender] # MAX_UINT
       /\ avUSDAllowance[account][spender] >= amount
       /\ avUSDAllowance' = [avUSDAllowance EXCEPT ![account][spender] = @ - amount]

\* _burn
DestroyAvUSD(account, amount) ==
    /\ avUSDBalance[account] >= amount
    /\ avUSDBalance' = [avUSDBalance EXCEPT ![account] = @ - amount]
    /\ avUSDSupply' = avUSDSupply - amount
    /\ UNCHANGED ownershipVars

AvUSDMint(sender, to, amount) ==
    /\ sender = minter
    /\ to # Zero
    /\ avUSDBalance' = [avUSDBalance EXCEPT ![to] = @ + amount]
    /\ avUSDSupply' = avUSDSupply + amount
    /\ UNCHANGED <<avUSDAllowance, ownershipVars>>

AvUSDBurn(sender, amount) ==
    /\ DestroyAvUSD(sender, amount)
    /\ UNCHANGED avUSDAllowance

AvUSDBurnFrom(sender, account, amount) ==
    /\ SpendAvUSD(account, sender, amount)
    /\ DestroyAvUSD(account, amount)

AvUSDTransfer(sender, to, amount) ==
    /\ to # Zero
    /\ avUSDBalance[sender] >= amount
    /\ avUSDBalance' = Move(avUSDBalance, sender, to, amount)
    /\ UNCHANGED <<avUSDSupply, avUSDAllowance, ownershipVars>>

AvUSDTransferFrom(sender, from, to, amount) ==
    /\ to # Zero
    /\ SpendAvUSD(from, sender, amount)
    /\ avUSDBalance[from] >= amount
    /\ avUSDBalance' = Move(avUSDBalance, from, to, amount)
    /\ UNCHANGED <<avUSDSupply, ownershipVars>>

\* Mutant of AvUSDApprove: owner and spender are swapped.
ApproveSwapped(sender, spender, amount) ==
    /\ spender # Zero
    /\ avUSDAllowance' = [avUSDAllowance EXCEPT ![spender][sender] = amount]
    /\ UNCHANGED <<avUSDBalance, avUSDSupply, ownershipVars>>

\* approve, and permit with the owner's signature.
AvUSDApprove(sender, spender, amount) ==
    /\ spender # Zero
    /\ avUSDAllowance' = [avUSDAllowance EXCEPT ![sender][spender] = amount]
    /\ UNCHANGED <<avUSDBalance, avUSDSupply, ownershipVars>>

SetMinter(sender, newMinter) ==
    /\ sender = tokenOwner
    /\ minter' = newMinter
    /\ UNCHANGED <<coinVars, tokenOwner, pendingOwner>>

\* Mutant of TransferOwnership: Ownable in the place of Ownable2Step.
TransferOwnershipAtOnce(sender, newOwner) ==
    /\ sender = tokenOwner /\ newOwner # Zero
    /\ tokenOwner' = newOwner
    /\ UNCHANGED <<coinVars, minter, pendingOwner>>

\* Ownable2Step; renounceOwnership reverts.
TransferOwnership(sender, newOwner) ==
    /\ sender = tokenOwner
    /\ pendingOwner' = newOwner
    /\ UNCHANGED <<coinVars, minter, tokenOwner>>

AcceptOwnership(sender) ==
    /\ sender = pendingOwner
    /\ tokenOwner' = sender
    /\ pendingOwner' = Zero
    /\ UNCHANGED <<coinVars, minter>>

-----------------------------------------------------------------------------

AvUSDInit ==
    /\ avUSDBalance = [a \in Address |-> 0]
    /\ avUSDSupply = 0
    /\ avUSDAllowance = [a \in Address |-> [b \in Address |-> 0]]
    /\ minter = Zero
    /\ tokenOwner = InitialTokenOwner
    /\ pendingOwner = Zero

\* Calls of holders, their spenders, and the owner.
AvUSDCall(sender) ==
    \/ \E amount \in AvUSDAmount :
          \/ AvUSDBurn(sender, amount)
          \/ \E from \in Address : AvUSDBurnFrom(sender, from, amount)
          \/ \E to \in AvUSDRecipient :
                \/ AvUSDTransfer(sender, to, amount)
                \/ \E from \in Address : AvUSDTransferFrom(sender, from, to, amount)
    \/ \E in \in ApprovalInput :
          in[1] = sender /\ AvUSDApprove(sender, in[2], in[3])
    \/ \E newMinter \in NewMinter : SetMinter(sender, newMinter)
    \/ \E newOwner \in NewTokenOwner : TransferOwnership(sender, newOwner)
    \/ AcceptOwnership(sender)

\* A minter that is an account of its own; a minting contract mints by its orders.
MinterCall(sender) ==
    \E to \in AvUSDRecipient, amount \in AvUSDAmount :
       /\ avUSDSupply + amount <= MaxAvUSD
       /\ AvUSDMint(sender, to, amount)

AvUSDNext == \E sender \in Caller : AvUSDCall(sender) \/ MinterCall(sender)

AvUSDSpec == AvUSDInit /\ [][AvUSDNext]_avUSDVars

-----------------------------------------------------------------------------
(* Properties. *)

CoinTypeOK ==
    /\ avUSDBalance \in [Address -> Nat]
    /\ avUSDSupply \in Nat
    /\ avUSDAllowance \in [Address -> [Address -> Nat]]

OwnershipTypeOK ==
    /\ minter \in Address /\ pendingOwner \in Address
    /\ tokenOwner \in Address \ {Zero}

\* Types of the token's state.
AvUSDTypeOK == CoinTypeOK /\ OwnershipTypeOK

\* Through mints, burns, burns by a spender and transfers the supply of avUSD
\* is the sum of the balances.
AvUSDSupplyIsBalances == avUSDSupply = Total(avUSDBalance)

\* Ownership, too, changes hands in two steps, between one holder and the last
\* nominee; an owner that nominates itself has withdrawn the nomination.
TokenHandover == INSTANCE SingleAdmin WITH
                holders <- {tokenOwner},
                nominee <- IF pendingOwner = tokenOwner THEN Zero ELSE pendingOwner
OwnershipPromise == TokenHandover!Spec

\* What every operation preserves: of the coins, and of the ownership.
CoinInv  == CoinTypeOK /\ AvUSDSupplyIsBalances
AvUSDInv == CoinInv /\ OwnershipTypeOK
=============================================================================
