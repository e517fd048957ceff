----------------------------- MODULE StakedAvUSD -----------------------------
(***************************************************************************)
(* contracts/StakedAvUSD.sol: the ERC-4626 vault that issues savUSD shares *)
(* for staked avUSD, vests rewards linearly, and restricts accounts.  One  *)
(* action is one transaction that succeeds; a call that reverts is not a   *)
(* step.  Several transactions may share a block timestamp; Tick advances  *)
(* it.  avUSD itself is an unrestricted ERC-20 outside this contract, which *)
(* its holders move, and which is minted and burned; AvUSDSystem puts the  *)
(* token of AvUSD in its place.                                            *)
(***************************************************************************)
EXTENDS SingleAdminAccessControl, VaultMath

CONSTANTS
    REWARDER_ROLE, BLACKLIST_MANAGER_ROLE,
    SOFT_RESTRICTED_STAKER_ROLE, FULL_RESTRICTED_STAKER_ROLE,
    VESTING_PERIOD,     \* 8 hours, in the model's unit of time
    MIN_SHARES,         \* 1 ether, in the model's unit of shares
    Vault,              \* address(this)
    InitialOwner, InitialRewarder,   \* constructor arguments
    InitialAvUSD,       \* who holds how much avUSD at deployment
    Amount,             \* the amounts calls are made with
    Approval,           \* the amounts approve is called with
    Recipient,          \* the addresses value is sent to
    Spender,            \* the addresses approve is called for
    Issuance,           \* the amounts of avUSD others mint and burn
    MaxAvUSD,           \* bound of the avUSD in existence
    MaxTime             \* bound of the clock

ASSUME StakedAssumption ==
    /\ Vault \in Address \ (Caller \cup {Zero})
    /\ {REWARDER_ROLE, BLACKLIST_MANAGER_ROLE, SOFT_RESTRICTED_STAKER_ROLE,
        FULL_RESTRICTED_STAKER_ROLE} \subseteq Role \ {DEFAULT_ADMIN_ROLE}
    /\ REWARDER_ROLE \notin {BLACKLIST_MANAGER_ROLE,
          SOFT_RESTRICTED_STAKER_ROLE, FULL_RESTRICTED_STAKER_ROLE}
    /\ BLACKLIST_MANAGER_ROLE \notin
          {SOFT_RESTRICTED_STAKER_ROLE, FULL_RESTRICTED_STAKER_ROLE}
    /\ SOFT_RESTRICTED_STAKER_ROLE # FULL_RESTRICTED_STAKER_ROLE
    /\ VESTING_PERIOD \in Nat \ {0}
    /\ MIN_SHARES \in Nat
    /\ InitialOwner \in Address \ {Zero}
    /\ InitialRewarder \in Address \ {Zero}
    /\ IsFiniteSet(Address)
    /\ InitialAvUSD \in [Address -> Nat]
    /\ Amount \subseteq Nat
    /\ Approval \subseteq Nat
    /\ Recipient \subseteq Address
    /\ Spender \subseteq Address
    /\ Issuance \subseteq Nat
    /\ MaxAvUSD \in Nat
    /\ MaxTime \in Nat

VARIABLES
    balanceOf,                  \* savUSD held by each address
    totalSupply,                \* savUSD in existence
    allowance,                  \* allowance[owner][spender], of savUSD
    vestingAmount,
    lastDistributionTimestamp,
    avUSD,                      \* avUSD held by each address
    now                         \* block.timestamp

shareVars   == <<balanceOf, totalSupply, allowance>>
vestingVars == <<vestingAmount, lastDistributionTimestamp>>
vaultVars   == <<shareVars, vestingVars, avUSD, now>>
stakedVars  == <<accessVars, vaultVars>>

SoftRestricted(account) == HasRole(SOFT_RESTRICTED_STAKER_ROLE, account)
FullRestricted(account) == HasRole(FULL_RESTRICTED_STAKER_ROLE, account)

-----------------------------------------------------------------------------
(* Views. *)

\* Mutant of UnvestedAmount: what has vested, for what has not.
VestedAmount ==
    LET timeSinceLastDistribution == now - lastDistributionTimestamp
    IN  IF timeSinceLastDistribution >= VESTING_PERIOD
        THEN 0
        ELSE (timeSinceLastDistribution * vestingAmount) \div VESTING_PERIOD

UnvestedAmount ==
    LET timeSinceLastDistribution == now - lastDistributionTimestamp
    IN  IF timeSinceLastDistribution >= VESTING_PERIOD
        THEN 0
        ELSE ((VESTING_PERIOD - timeSinceLastDistribution) * vestingAmount)
                 \div VESTING_PERIOD

\* Mutant of TotalAssets: what is still vesting is not subtracted.
TotalBalance == avUSD[Vault]

TotalAssets == avUSD[Vault] - UnvestedAmount

\* Mutant of PreviewDeposit: priced on the balance instead of totalAssets.
PreviewDepositUnvested(assets) == SharesDown(assets, totalSupply, avUSD[Vault])

PreviewDeposit(assets)  == SharesDown(assets, totalSupply, TotalAssets)
PreviewMint(shares)     == AssetsUp(shares, totalSupply, TotalAssets)
PreviewWithdraw(assets) == SharesUp(assets, totalSupply, TotalAssets)
PreviewRedeem(shares)   == AssetsDown(shares, totalSupply, TotalAssets)

MaxWithdraw(account) == PreviewRedeem(balanceOf[account])
MaxRedeem(account)   == balanceOf[account]

-----------------------------------------------------------------------------
(* The two tokens. *)

\* A transfer of avUSD, by transfer or transferFrom.  Stakers approve the
\* vault for what they deposit.
MoveAvUSD(from, to, amount) ==
    /\ from # Zero /\ to # Zero
    /\ avUSD[from] >= amount
    /\ avUSD' = Move(avUSD, from, to, amount)

\* Mutant of MayUpdate: only the receiving side is checked.
MayReceive(from, to) == ~FullRestricted(to)

\* The restriction _update puts on every movement of shares.
MayUpdate(from, to) ==
    /\ ~(FullRestricted(from) /\ to # Zero)
    /\ ~FullRestricted(to)

MintTo(account, shares) ==
    /\ account # Zero
    /\ MayUpdate(Zero, account)
    /\ balanceOf' = [balanceOf EXCEPT ![account] = @ + shares]
    /\ totalSupply' = totalSupply + shares

BurnFrom(account, shares) ==
    /\ account # Zero
    /\ MayUpdate(account, Zero)
    /\ balanceOf[account] >= shares
    /\ balanceOf' = [balanceOf EXCEPT ![account] = @ - shares]
    /\ totalSupply' = totalSupply - shares

MoveShares(from, to, shares) ==
    /\ from # Zero /\ to # Zero
    /\ MayUpdate(from, to)
    /\ balanceOf[from] >= shares
    /\ balanceOf' = Move(balanceOf, from, to, shares)
    /\ UNCHANGED totalSupply

\* ERC20._spendAllowance: an infinite allowance is not used up.
SpendAllowance(account, spender, shares) ==
    \/ /\ allowance[account][spender] = MAX_UINT
       /\ UNCHANGED allowance
    \/ /\ allowance[account][spender] # MAX_UINT
       /\ allowance[account][spender] >= shares
       /\ allowance' = [allowance EXCEPT ![account][spender] = @ - shares]

-----------------------------------------------------------------------------
(* Internal functions. *)

\* Mutant of CheckMinShares: the bound is off by one.
CheckFewerShares(supply) == supply = 0 \/ supply + 1 >= MIN_SHARES

CheckMinShares(supply) == supply = 0 \/ supply >= MIN_SHARES

\* Mutant of UpdateVestingAmount: a running distribution is overwritten.
OverwriteVestingAmount(newVestingAmount) ==
    /\ vestingAmount' = newVestingAmount
    /\ lastDistributionTimestamp' = now

UpdateVestingAmount(newVestingAmount) ==
    /\ UnvestedAmount = 0
    /\ vestingAmount' = newVestingAmount
    /\ lastDistributionTimestamp' = now

\* _deposit
EnterVault(caller, receiver, assets, shares) ==
    /\ assets # 0 /\ shares # 0
    /\ ~SoftRestricted(caller) /\ ~SoftRestricted(receiver)
    /\ MoveAvUSD(caller, Vault, assets)
    /\ MintTo(receiver, shares)
    /\ CheckMinShares(totalSupply')
    /\ UNCHANGED <<accessVars, allowance, vestingVars, now>>

\* Mutant of MayLeave: soft restrictions block the exit too.
MayLeaveUnrestricted(account) == ~FullRestricted(account) /\ ~SoftRestricted(account)

\* Only full restrictions are consulted on the way out.
MayLeave(account) == ~FullRestricted(account)

\* _withdraw
LeaveVault(caller, receiver, account, assets, shares) ==
    /\ assets # 0 /\ shares # 0
    /\ \A a \in {caller, receiver, account} : MayLeave(a)
    /\ IF caller = account
       THEN UNCHANGED allowance
       ELSE SpendAllowance(account, caller, shares)
    /\ BurnFrom(account, shares)
    /\ MoveAvUSD(Vault, receiver, assets)
    /\ CheckMinShares(totalSupply')
    /\ UNCHANGED <<accessVars, vestingVars, now>>

-----------------------------------------------------------------------------
(* Stakers. *)

Deposit(sender, assets, receiver) ==
    EnterVault(sender, receiver, assets, PreviewDeposit(assets))

Mint(sender, shares, receiver) ==
    EnterVault(sender, receiver, PreviewMint(shares), shares)

Withdraw(sender, assets, receiver, account) ==
    /\ assets <= MaxWithdraw(account)
    /\ LeaveVault(sender, receiver, account, assets, PreviewWithdraw(assets))

Redeem(sender, shares, receiver, account) ==
    /\ shares <= MaxRedeem(account)
    /\ LeaveVault(sender, receiver, account, PreviewRedeem(shares), shares)

Transfer(sender, to, shares) ==
    /\ MoveShares(sender, to, shares)
    /\ UNCHANGED <<accessVars, allowance, vestingVars, avUSD, now>>

TransferFrom(sender, from, to, shares) ==
    /\ SpendAllowance(from, sender, shares)
    /\ MoveShares(from, to, shares)
    /\ UNCHANGED <<accessVars, vestingVars, avUSD, now>>

\* approve, and permit with the owner's signature.
Approve(sender, spender, shares) ==
    /\ spender # Zero
    /\ allowance' = [allowance EXCEPT ![sender][spender] = shares]
    /\ UNCHANGED <<accessVars, balanceOf, totalSupply, vestingVars, avUSD, now>>

-----------------------------------------------------------------------------
(* Rewarder, blacklist manager and admin. *)

TransferInRewards(sender, amount) ==
    /\ HasRole(REWARDER_ROLE, sender)
    /\ amount # 0
    /\ UpdateVestingAmount(amount)
    /\ MoveAvUSD(sender, Vault, amount)
    /\ UNCHANGED <<accessVars, shareVars, now>>

RestrictionRole(isFullBlacklisting) ==
    IF isFullBlacklisting THEN FULL_RESTRICTED_STAKER_ROLE
                          ELSE SOFT_RESTRICTED_STAKER_ROLE

\* Mutant of AddToBlacklist: the notOwner modifier is forgotten.
AddAnyoneToBlacklist(sender, target, isFullBlacklisting) ==
    /\ HasRole(BLACKLIST_MANAGER_ROLE, sender)
    /\ GrantRoleInternal(RestrictionRole(isFullBlacklisting), target)
    /\ UNCHANGED vaultVars

AddToBlacklist(sender, target, isFullBlacklisting) ==
    /\ HasRole(BLACKLIST_MANAGER_ROLE, sender)
    /\ target # owner
    /\ GrantRoleInternal(RestrictionRole(isFullBlacklisting), target)
    /\ UNCHANGED vaultVars

RemoveFromBlacklist(sender, target, isFullBlacklisting) ==
    /\ HasRole(BLACKLIST_MANAGER_ROLE, sender)
    /\ RevokeRoleInternal(RestrictionRole(isFullBlacklisting), target)
    /\ UNCHANGED vaultVars

\* The one token of the model that can be rescued is savUSD itself.
RescueTokens(sender, amount, to) ==
    /\ HasRole(DEFAULT_ADMIN_ROLE, sender)
    /\ MoveShares(Vault, to, amount)
    /\ UNCHANGED <<accessVars, allowance, vestingVars, avUSD, now>>

\* Mutant of RedistributeLockedAmount: the restriction of `from' is not checked.
RedistributeFromAnyone(sender, from, to) ==
    /\ HasRole(DEFAULT_ADMIN_ROLE, sender)
    /\ ~FullRestricted(to) /\ from # Zero /\ to # Zero /\ MayUpdate(Zero, to)
    /\ balanceOf' = Move(balanceOf, from, to, balanceOf[from])
    /\ UNCHANGED <<totalSupply, accessVars, allowance, vestingVars, avUSD, now>>

\* The burn of the whole balance, followed by a mint to `to' or, for
\* address(0), by vesting what the burned shares were worth.
RedistributeLockedAmount(sender, from, to) ==
    /\ HasRole(DEFAULT_ADMIN_ROLE, sender)
    /\ FullRestricted(from) /\ ~FullRestricted(to)
    /\ from # Zero /\ MayUpdate(from, Zero)
    /\ \/ /\ to = Zero
          /\ BurnFrom(from, balanceOf[from])
          /\ UpdateVestingAmount(PreviewRedeem(balanceOf[from]))
       \/ /\ to # Zero
          /\ MayUpdate(Zero, to)
          /\ balanceOf' = Move(balanceOf, from, to, balanceOf[from])
          /\ UNCHANGED <<totalSupply, vestingVars>>
    /\ UNCHANGED <<accessVars, allowance, avUSD, now>>

\* The inherited entry points; renounceRole is overridden to revert.
AccessCall(sender) ==
    /\ \/ \E newAdmin \in AdminInput : TransferAdmin(sender, newAdmin)
       \/ AcceptAdmin(sender)
       \/ \E in \in RoleInput : \/ GrantRole(sender, in[1], in[2])
                                \/ RevokeRole(sender, in[1], in[2])
    /\ UNCHANGED vaultVars

-----------------------------------------------------------------------------
(* The environment. *)

\* avUSD moves freely between its holders; sent to the vault it is a donation.
TransferAvUSD(from, to, amount) ==
    /\ MoveAvUSD(from, to, amount)
    /\ UNCHANGED <<accessVars, shareVars, vestingVars, now>>

\* The minter mints avUSD, and holders burn it.
IssueAvUSD(to, amount) ==
    /\ to # Zero
    /\ Total(avUSD) + amount <= MaxAvUSD
    /\ avUSD' = [avUSD EXCEPT ![to] = @ + amount]
    /\ UNCHANGED <<accessVars, shareVars, vestingVars, now>>

RetireAvUSD(from, amount) ==
    /\ avUSD[from] >= amount
    /\ avUSD' = [avUSD EXCEPT ![from] = @ - amount]
    /\ UNCHANGED <<accessVars, shareVars, vestingVars, now>>

\* What happens to avUSD without the vault, when it leaves only these holders.
AvUSDElsewhere(holders) ==
    \/ \E from \in holders, to \in Recipient \cup {Vault} :
          \E amount \in 1 .. avUSD[from] : TransferAvUSD(from, to, amount)
    \/ \E to \in Recipient \cup {Vault}, amount \in Issuance : IssueAvUSD(to, amount)
    \/ \E from \in holders, amount \in Issuance : RetireAvUSD(from, amount)

Tick ==
    /\ now < MaxTime
    /\ now' = now + 1
    /\ UNCHANGED <<accessVars, shareVars, vestingVars, avUSD>>

-----------------------------------------------------------------------------

\* The state the constructor leaves.  As on chain, the zero of
\* lastDistributionTimestamp lies a vesting period or more in the past.
StakedInit ==
    /\ members = [r \in Role |-> CASE r = DEFAULT_ADMIN_ROLE -> {InitialOwner}
                                   [] r = REWARDER_ROLE -> {InitialRewarder}
                                   [] OTHER -> {}]
    /\ currentDefaultAdmin = InitialOwner
    /\ pendingDefaultAdmin = Zero
    /\ balanceOf = [a \in Address |-> 0]
    /\ totalSupply = 0
    /\ allowance = [a \in Address |-> [b \in Address |-> 0]]
    /\ vestingAmount = 0
    /\ lastDistributionTimestamp = 0
    /\ avUSD = InitialAvUSD
    /\ now = VESTING_PERIOD

\* Calls any account may make, whatever the exit rules of the vault.
ShareCall(sender) ==
    \E amount \in Amount, to \in Recipient :
       \/ Deposit(sender, amount, to)
       \/ Mint(sender, amount, to)
       \/ Transfer(sender, to, amount)
       \/ \E from \in Address : TransferFrom(sender, from, to, amount)

ExitCall(sender) ==
    \E amount \in Amount, to \in Recipient, account \in Address :
       \/ Withdraw(sender, amount, to, account)
       \/ Redeem(sender, amount, to, account)

ManagerCall(sender) ==
    \/ \E amount \in Amount : TransferInRewards(sender, amount)
    \/ \E in \in RoleInput, isFull \in BOOLEAN :
          /\ in[1] = RestrictionRole(isFull)
          /\ \/ AddToBlacklist(sender, in[2], isFull)
             \/ RemoveFromBlacklist(sender, in[2], isFull)
    \/ \E amount \in Amount, to \in Recipient : RescueTokens(sender, amount, to)
    \/ \E from \in Address, to \in Recipient \cup {Zero} :
          RedistributeLockedAmount(sender, from, to)

StakedCall(sender) ==
    \/ AccessCall(sender)
    \/ ShareCall(sender)
    \/ \E spender \in Spender, shares \in Approval : Approve(sender, spender, shares)
    \/ ManagerCall(sender)

StakedNext ==
    \/ \E sender \in Caller : StakedCall(sender) \/ ExitCall(sender)
    \/ AvUSDElsewhere(Address \ {Zero, Vault})
    \/ Tick

StakedSpec == StakedInit /\ [][StakedNext]_stakedVars

-----------------------------------------------------------------------------
(* Properties. *)

VaultTypeOK ==
    /\ balanceOf \in [Address -> Nat]
    /\ totalSupply \in Nat
    /\ allowance \in [Address -> [Address -> Nat]]
    /\ vestingAmount \in Nat
    /\ lastDistributionTimestamp \in Nat
    /\ avUSD \in [Address -> Nat]
    /\ now \in Nat

\* Types of the vault's state, with that of the inherited access control.
StakedTypeOK == AccessTypeOK /\ VaultTypeOK

\* Through every mint, burn, transfer, rescue and redistribution the supply is
\* the sum of the balances, on which every conversion between shares and avUSD
\* relies.
SupplyIsBalances == totalSupply = Total(balanceOf)

\* totalAssets() never reverts: the last distribution is not in the future, and
\* the avUSD the vault holds covers what is still vesting.
Solvent ==
    /\ lastDistributionTimestamp <= now
    /\ UnvestedAmount <= avUSD[Vault]

\* Rounding, rewards, donations, restrictions and redistribution never lower
\* the price of a share, (totalAssets + 1) / (totalSupply + 1).
SharePriceNeverFalls ==
    [][(TotalAssets + 1) * (totalSupply' + 1)
          <= (TotalAssets' + 1) * (totalSupply + 1)]_stakedVars

\* What enters for new shares, or is paid for burned ones, is within one share
\* and one unit of avUSD of the price: rounding never costs a staker more.
FairExchange ==
    [][LET minted == totalSupply' - totalSupply
           paid   == avUSD'[Vault] - avUSD[Vault]
       IN  /\ minted > 0 =>
                 (paid - 1) * (totalSupply + 1) < (minted + 1) * (TotalAssets + 1)
           /\ minted < 0 /\ paid < 0 =>
                 (-minted - 1) * (TotalAssets + 1) < (-paid + 1) * (totalSupply + 1)
      ]_stakedVars

\* A distribution, or the redistribution of a seized balance to the stakers,
\* does not move totalAssets by itself except for the burned claim: rewards
\* accrue with time only, so they cannot be captured by entering just before.
RewardsVestWithoutJump ==
    [][vestingVars' # vestingVars =>
          TotalAssets' = TotalAssets - AssetsDown(totalSupply - totalSupply',
                                                  totalSupply, TotalAssets)]_stakedVars

\* While an account stays fully restricted its shares do not move, except that
\* the admin may take all of them at once, and then the supply does not grow.
FrozenBalance ==
    [][\A a \in Address :
          FullRestricted(a) /\ FullRestricted(a)' /\ balanceOf'[a] # balanceOf[a] =>
             /\ balanceOf'[a] = 0
             /\ \/ totalSupply' = totalSupply - balanceOf[a]
                \/ totalSupply' = totalSupply]_stakedVars

\* A supply that is not zero but too small.
Dust(supply) == 0 < supply /\ supply < MIN_SHARES

\* Users never leave a dust supply behind: below MIN_SHARES the supply only
\* gets by the admin burning the balance of a restricted account.
DustOnlyByRedistribution ==
    [][~Dust(totalSupply) /\ Dust(totalSupply') =>
          \E a \in Address : /\ FullRestricted(a)
                             /\ balanceOf'[a] = 0
                             /\ totalSupply' = totalSupply - balanceOf[a]]_stakedVars

\* A holder with a worth to redeem, not fully restricted, whose exit leaves no dust.
MayExit(a) ==
    /\ balanceOf[a] > 0 /\ PreviewRedeem(balanceOf[a]) > 0
    /\ ~FullRestricted(a) /\ ~FullRestricted(Zero)
    /\ ~Dust(totalSupply - balanceOf[a])

\* A holder that is not fully restricted and whose exit leaves no dust can redeem
\* everything at any moment, a soft restriction included: nothing another account
\* does can block it, except restricting address(0).
ExitNeverBlocked ==
    \A a \in Caller : MayExit(a) => ENABLED Redeem(a, balanceOf[a], a, a)

\* The comment on _checkMinShares: no small non-zero amount of shares remains.
NoDustSupply == ~Dust(totalSupply)

\* The README of soft-restricted accounts: they cannot withdraw savUSD for
\* avUSD, so their shares are not burned while they are not fully restricted.
SoftRestrictedNeverWithdraw ==
    [][\A a \in Address :
          SoftRestricted(a) /\ ~FullRestricted(a) /\ balanceOf'[a] < balanceOf[a]
             => totalSupply' = totalSupply]_stakedVars

\* What every call of the vault preserves together: one admin, types, a supply that is
\* the sum of the balances, and totalAssets() that never reverts. Solvency alone
\* would not last: with more shares than there are an account could take out what
\* is still vesting.
VaultInv  == VaultTypeOK /\ SupplyIsBalances /\ Solvent
StakedInv == AccessInv /\ VaultInv
=============================================================================
