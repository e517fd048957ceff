---------------------------- MODULE StakedAvUSDV2 ----------------------------
(***************************************************************************)
(* contracts/StakedAvUSDV2.sol and contracts/AvUSDSilo.sol: the vault with *)
(* a cooldown.  While cooldownDuration is not zero, shares are redeemed    *)
(* into the silo and paid out by unstake when the cooldown has ended;      *)
(* while it is zero the vault is the plain ERC-4626 vault.                 *)
(***************************************************************************)
EXTENDS StakedAvUSD

CONSTANTS
    Silo,                    \* the AvUSDSilo the constructor deploys
    MAX_COOLDOWN_DURATION,   \* 90 days, in the model's unit of time
    UINT152,                 \* 2^152, the width of underlyingAmount
    DurationInput            \* the arguments setCooldownDuration is called with

ASSUME CooldownAssumption ==
    /\ Silo \in Recipient \ (Caller \cup {Zero, Vault})
    /\ MAX_COOLDOWN_DURATION \in Nat
    /\ UINT152 \in Nat
    /\ Total(InitialAvUSD) <= MaxAvUSD
    /\ MaxAvUSD < UINT152
    /\ InitialAvUSD[Silo] = 0
    /\ DurationInput \subseteq Nat

VARIABLES
    cooldowns,          \* cooldowns[a]: [cooldownEnd, underlyingAmount]
    cooldownDuration

cooldownVars == <<cooldowns, cooldownDuration>>
v2Vars       == <<stakedVars, cooldownVars>>

NoCooldown == [cooldownEnd |-> 0, underlyingAmount |-> 0]
Pending    == [a \in Address |-> cooldowns[a].underlyingAmount]

-----------------------------------------------------------------------------

\* Mutant of Restarted: the pending amount is overwritten.
Replaced(entry, assets) == [cooldownEnd |-> now + cooldownDuration,
                            underlyingAmount |-> assets % UINT152]

\* The entry of a staker after another cooldown: the cast to uint152 truncates.
Restarted(entry, assets) ==
    [cooldownEnd |-> now + cooldownDuration,
     underlyingAmount |-> entry.underlyingAmount + (assets % UINT152)]

\* The body cooldownAssets and cooldownShares share; the addition is checked.
\* A cooldown that would end after the model's last instant, MaxTime, is not
\* explored.
StartCooldown(sender, assets, shares) ==
    /\ cooldownDuration # 0
    /\ now + cooldownDuration <= MaxTime
    /\ cooldowns[sender].underlyingAmount + (assets % UINT152) < UINT152
    /\ cooldowns' = [cooldowns EXCEPT ![sender] = Restarted(@, assets)]
    /\ LeaveVault(sender, Silo, sender, assets, shares)
    /\ UNCHANGED cooldownDuration

CooldownAssets(sender, assets) ==
    /\ assets <= MaxWithdraw(sender)
    /\ StartCooldown(sender, assets, PreviewWithdraw(assets))

CooldownShares(sender, shares) ==
    /\ shares <= MaxRedeem(sender)
    /\ StartCooldown(sender, PreviewRedeem(shares), shares)

\* Mutant of SiloWithdraw: the vault pays instead of the silo.
VaultPays(to, amount) == MoveAvUSD(Vault, to, amount)

\* AvUSDSilo.withdraw, which only the vault may call.
SiloWithdraw(to, amount) == MoveAvUSD(Silo, to, amount)

\* Mutant of MayUnstake: a claim is paid while the cooldown is on only.
MayUnstakeCooldownOn(account) ==
    now >= cooldowns[account].cooldownEnd /\ cooldownDuration # 0

MayUnstake(account) == now >= cooldowns[account].cooldownEnd \/ cooldownDuration = 0

\* Mutant of Settled: the pending amount is not reset.
SettledEnd(entry) == [entry EXCEPT !.cooldownEnd = 0]

Settled(entry) == NoCooldown

\* A call with nothing pending returns without a change, and is no step.
Unstake(sender, receiver) ==
    /\ cooldowns[sender].underlyingAmount # 0
    /\ MayUnstake(sender)
    /\ cooldowns' = [cooldowns EXCEPT ![sender] = Settled(@)]
    /\ SiloWithdraw(receiver, cooldowns[sender].underlyingAmount)
    /\ UNCHANGED <<accessVars, shareVars, vestingVars, now, cooldownDuration>>

SetCooldownDuration(sender, duration) ==
    /\ HasRole(DEFAULT_ADMIN_ROLE, sender)
    /\ duration <= MAX_COOLDOWN_DURATION
    /\ cooldownDuration' = duration
    /\ UNCHANGED <<stakedVars, cooldowns>>

\* Mutant of ExitCallV2: withdraw and redeem without ensureCooldownOff.
ExitCallAnytime(sender) == ExitCall(sender) /\ UNCHANGED cooldownVars

\* withdraw and redeem, behind ensureCooldownOff.
ExitCallV2(sender) ==
    /\ cooldownDuration = 0
    /\ ExitCall(sender)
    /\ UNCHANGED cooldownVars

-----------------------------------------------------------------------------

InitV2 ==
    /\ StakedInit
    /\ cooldowns = [a \in Address |-> NoCooldown]
    /\ cooldownDuration = MAX_COOLDOWN_DURATION

CallV2(sender) ==
    \/ StakedCall(sender) /\ UNCHANGED cooldownVars
    \/ ExitCallV2(sender)
    \/ \E amount \in Amount : \/ CooldownAssets(sender, amount)
                              \/ CooldownShares(sender, amount)
    \/ \E to \in Recipient : Unstake(sender, to)
    \/ \E duration \in DurationInput : SetCooldownDuration(sender, duration)

\* The silo moves avUSD only for the vault.
EnvironmentV2 ==
    /\ AvUSDElsewhere(Address \ {Zero, Vault, Silo}) \/ Tick
    /\ UNCHANGED cooldownVars

NextV2 == (\E sender \in Caller : CallV2(sender)) \/ EnvironmentV2

SpecV2 == InitV2 /\ [][NextV2]_v2Vars

\* Blocks keep being produced, and a staker with a claim keeps asking for it.
FairnessV2 ==
    /\ WF_v2Vars(Tick /\ UNCHANGED cooldownVars)
    /\ \A a \in Caller \cap Recipient : WF_v2Vars(Unstake(a, a))

FairSpecV2 == SpecV2 /\ FairnessV2

-----------------------------------------------------------------------------
(* Properties. *)

CooldownTypeOK ==
    /\ cooldowns \in [Address -> [cooldownEnd : 0 .. MaxTime,
                                  underlyingAmount : 0 .. UINT152 - 1]]
    /\ cooldownDuration \in 0 .. MAX_COOLDOWN_DURATION

\* Types of the cooldown state, with that of the inherited vault.
TypeOKV2 == StakedTypeOK /\ CooldownTypeOK

\* Every pending claim is backed by avUSD in the silo, whatever the order in
\* which stakers cool down, claim, and the admin changes the duration.
SiloBacked == Total(Pending) <= avUSD[Silo]

\* While the cooldown is on, avUSD leaves the vault only as claims of the same
\* amount: no exit bypasses the silo, and the cast to uint152 loses nothing.
LeavesAsClaims ==
    [][cooldownDuration # 0 /\ avUSD'[Vault] < avUSD[Vault] =>
          Total(Pending') - Total(Pending) = avUSD[Vault] - avUSD'[Vault]]_v2Vars

\* Nobody waits longer than MAX_COOLDOWN_DURATION for a pending claim.
WaitBounded ==
    \A a \in Address : cooldowns[a].underlyingAmount > 0 =>
                          cooldowns[a].cooldownEnd <= now + MAX_COOLDOWN_DURATION

\* A pending claim is only ever added to, or settled as a whole after its end
\* or with the cooldown switched off; its end moves with an addition only, never
\* by a change of the duration; and one claim settles at a time.
ClaimsSettledWhole ==
    [][\A a \in Address :
          LET old == cooldowns[a]
              new == cooldowns'[a]
          IN  /\ old.underlyingAmount > 0 /\ new.cooldownEnd # old.cooldownEnd =>
                    \/ new.underlyingAmount = 0
                    \/ new.underlyingAmount > old.underlyingAmount
              /\ new.underlyingAmount < old.underlyingAmount =>
                    /\ new.underlyingAmount = 0
                    /\ now >= old.cooldownEnd \/ cooldownDuration = 0
                    /\ \A b \in Address \ {a} : cooldowns'[b] = cooldowns[b]
      ]_v2Vars

\* A staker who keeps asking is paid in the end, unless it gets fully restricted:
\* no change of the duration, no mode of the vault, no claim or distribution of
\* others keeps the avUSD of a free account in the silo.
ClaimsEventuallyPaid ==
    \A a \in Caller \cap Recipient :
       cooldowns[a].underlyingAmount > 0 ~> \/ cooldowns[a].underlyingAmount = 0
                                           \/ FullRestricted(a)

\* The comment on FULL_RESTRICTED_STAKER_ROLE, which prevents an address to unstake,
\* and the README, by which it cannot move its funds: no step takes a pending claim
\* away from an account that is fully restricted.
FullRestrictedNeverUnstakes ==
    [][\A a \in Address : FullRestricted(a) => Pending'[a] >= Pending[a]]_v2Vars

\* The cooldown vault is a StakedAvUSD: a cooldown is a withdrawal to the silo,
\* an unstake a transfer out of it.
ImplementsStakedAvUSD == StakedSpec

\* The vault and the silo create no avUSD: what the cast to uint152 is safe by.
AvUSDBounded == Total(avUSD) <= MaxAvUSD

\* What every call of the cooldown vault preserves together: all that the plain vault
\* preserves, the bound of avUSD, claims that the silo can pay, and a wait for them
\* that is never longer than the maximum.
V2Inv == StakedInv /\ CooldownTypeOK /\ AvUSDBounded /\ SiloBacked /\ WaitBounded
=============================================================================
