------------------------- MODULE StakedAvUSDV2Proofs -------------------------
(***************************************************************************)
(* Machine-checked theorems about the cooldown vault: it implements the    *)
(* plain vault, so that everything proved of StakedAvUSD holds of it; every*)
(* pending claim is backed by the silo; nobody waits longer than           *)
(* MAX_COOLDOWN_DURATION; while the cooldown is on avUSD leaves the vault  *)
(* only as claims of the same amount; and claims are settled whole.        *)
(***************************************************************************)
EXTENDS AvUSDSystem, StakedAvUSDProofs

\* avUSD moves once, out of an account of S, or not at all.
MovedBy(S) ==
    \/ avUSD' = avUSD
    \/ \E from \in S, to \in Address, amount \in Nat : MoveAvUSD(from, to, amount)

\* A call takes avUSD from its sender for the vault, or pays some out.
PaysIn(sender) == \E amount \in Nat \ {0} : MoveAvUSD(sender, Vault, amount)
PaysOut(payer) ==
    \E to \in Recipient, amount \in Nat \ {0} : MoveAvUSD(payer, to, amount)

\* What LeavesAsClaims says of one step.
ClaimsLeave ==
    cooldownDuration # 0 /\ avUSD'[Vault] < avUSD[Vault] =>
       Total(Pending') - Total(Pending) = avUSD[Vault] - avUSD'[Vault]

-----------------------------------------------------------------------------
(* Constants and arithmetic. *)

LEMMA ModSmall ==
    ASSUME NEW n \in Nat, NEW m \in Nat, n < m
    PROVE  n % m = n
OBVIOUS

LEMMA V2Constants ==
    /\ Silo \in Address /\ Silo # Vault /\ Silo # Zero /\ Silo \notin Caller
    /\ Silo \in Recipient /\ Vault \in Address
    /\ Caller \subseteq Address /\ Recipient \subseteq Address
    /\ UINT152 \in Nat /\ MaxAvUSD \in Nat /\ MaxAvUSD < UINT152
BY CooldownAssumption, StakedAssumption, AccessAssumption, AccountsAssumption

LEMMA PendingType ==
    ASSUME CooldownTypeOK
    PROVE  /\ Pending \in [Address -> Nat]
           /\ \A a \in Address : Pending[a] = cooldowns[a].underlyingAmount
           /\ Total(Pending) \in Nat
<1>1. /\ Pending \in [Address -> Nat]
      /\ \A a \in Address : Pending[a] = cooldowns[a].underlyingAmount
  BY CooldownAssumption DEF CooldownTypeOK, Pending
<1>2. Total(Pending) \in Nat
  BY <1>1, TotalBounds, V2Constants, StakedAssumption
<1> QED
  BY <1>1, <1>2

\* What an account holds is below the width of the cast.
LEMMA HoldingsFit ==
    ASSUME VaultTypeOK, AvUSDBounded, NEW a \in Address
    PROVE  avUSD[a] \in Nat /\ avUSD[a] < UINT152
<1>1. avUSD \in [Address -> Nat] /\ IsFiniteSet(Address)
  BY StakedAssumption DEF VaultTypeOK
<1>2. avUSD[a] <= Total(avUSD) /\ Total(avUSD) \in Nat
  BY <1>1, TotalBounds
<1> QED
  BY <1>1, <1>2, V2Constants DEF AvUSDBounded

-----------------------------------------------------------------------------
(* Steps that leave the cooldowns alone. *)

LEMMA QuietPreserves ==
    ASSUME V2Inv, now' \in Nat, now <= now', UNCHANGED cooldownVars,
           avUSD' \in [Address -> Nat], AvUSDBounded', avUSD'[Silo] >= avUSD[Silo]
    PROVE  (CooldownTypeOK /\ AvUSDBounded /\ SiloBacked /\ WaitBounded)'
<1>1. /\ VaultTypeOK /\ CooldownTypeOK /\ SiloBacked /\ WaitBounded /\ now \in Nat
  BY DEF V2Inv, StakedInv, VaultInv, VaultTypeOK
<1>2. CooldownTypeOK'
  BY <1>1 DEF CooldownTypeOK, cooldownVars
<1>3. SiloBacked'
  <2>1. Pending' = Pending
    BY DEF Pending, cooldownVars
  <2>2. Total(Pending) \in Nat /\ avUSD[Silo] \in Nat /\ avUSD'[Silo] \in Nat
    BY <1>1, PendingType, V2Constants DEF VaultTypeOK
  <2> QED
    BY <1>1, <2>1, <2>2 DEF SiloBacked
<1>4. WaitBounded'
  <2> SUFFICES ASSUME NEW a \in Address, cooldowns[a].underlyingAmount > 0
               PROVE  cooldowns[a].cooldownEnd <= now' + MAX_COOLDOWN_DURATION
    BY DEF WaitBounded, cooldownVars
  <2>1. cooldowns[a].cooldownEnd <= now + MAX_COOLDOWN_DURATION
    BY <1>1 DEF WaitBounded
  <2>2. cooldowns[a].cooldownEnd \in Nat /\ MAX_COOLDOWN_DURATION \in Nat
    BY <1>1, CooldownAssumption, StakedAssumption DEF CooldownTypeOK
  <2> QED
    BY <1>1, <2>1, <2>2
<1> QED
  BY <1>2, <1>3, <1>4

LEMMA QuietMovePreserves ==
    ASSUME V2Inv, MovedBy(Address \ {Silo}), now' \in Nat, now <= now', UNCHANGED cooldownVars,
           avUSD' \in [Address -> Nat]
    PROVE  (CooldownTypeOK /\ AvUSDBounded /\ SiloBacked /\ WaitBounded)'
<1>1. VaultTypeOK /\ AvUSDBounded
  BY DEF V2Inv, StakedInv, VaultInv
<1>2. Total(avUSD') = Total(avUSD) /\ avUSD'[Silo] >= avUSD[Silo]
  <2>1. CASE avUSD' = avUSD
    BY <2>1, <1>1, V2Constants DEF VaultTypeOK
  <2>2. ASSUME NEW from \in Address \ {Silo}, NEW to \in Address, NEW amount \in Nat,
               MoveAvUSD(from, to, amount)
        PROVE  Total(avUSD') = Total(avUSD) /\ avUSD'[Silo] >= avUSD[Silo]
    <3>1. Total(avUSD') = Total(avUSD)
      BY <1>1, <2>2, AvUSDMoved
    <3>2. avUSD'[Silo] >= avUSD[Silo]
      BY <1>1, <2>2, V2Constants DEF MoveAvUSD, Move, VaultTypeOK
    <3> QED
      BY <3>1, <3>2
  <2> QED
    BY <2>1, <2>2 DEF MovedBy
<1>3. AvUSDBounded'
  BY <1>1, <1>2 DEF AvUSDBounded
<1> QED
  BY <1>2, <1>3, QuietPreserves

LEMMA NoExitNoClaim ==
    ASSUME VaultTypeOK, MovedBy(Address \ {Vault})
    PROVE  ClaimsLeave
<1>1. CASE avUSD' = avUSD
  BY <1>1, V2Constants DEF ClaimsLeave, VaultTypeOK
<1>2. ASSUME NEW from \in Address \ {Vault}, NEW to \in Address, NEW amount \in Nat,
             MoveAvUSD(from, to, amount)
      PROVE  ClaimsLeave
  <2>1. avUSD'[Vault] >= avUSD[Vault] /\ avUSD' \in [Address -> Nat]
    BY <1>2, AvUSDMoved
  <2>2. avUSD[Vault] \in Nat /\ avUSD'[Vault] \in Nat
    BY <2>1, V2Constants DEF VaultTypeOK
  <2> QED
    BY <2>1, <2>2 DEF ClaimsLeave
<1> QED
  BY <1>1, <1>2 DEF MovedBy

\* The calls of the plain vault take avUSD from their senders only.
LEMMA StakedCallMoves ==
    ASSUME StakedInv, NEW sender \in Caller, StakedCall(sender)
    PROVE  now' = now /\ (UNCHANGED avUSD \/ PaysIn(sender))
<1> DEFINE Goal == now' = now /\ (UNCHANGED avUSD \/ PaysIn(sender))
<1>1. VaultInv
  BY DEF StakedInv
<1>2. CASE AccessCall(sender)
  BY <1>2 DEF AccessCall, vaultVars
<1>3. CASE ShareCall(sender)
  <2> SUFFICES ASSUME NEW amount \in Amount, NEW to \in Recipient,
                      \/ Deposit(sender, amount, to)
                      \/ Mint(sender, amount, to)
                      \/ Transfer(sender, to, amount)
                      \/ \E from \in Address : TransferFrom(sender, from, to, amount)
               PROVE  Goal
    BY <1>3 DEF ShareCall
  <2>1. amount \in Nat /\ PreviewMint(amount) \in Nat
    BY <1>1, Previews, StakedAssumption
  <2>2. CASE Deposit(sender, amount, to)
    BY <2>1, <2>2 DEF Deposit, EnterVault, PaysIn
  <2>3. CASE Mint(sender, amount, to)
    BY <2>1, <2>3 DEF Mint, EnterVault, PaysIn
  <2>4. CASE Transfer(sender, to, amount)
    BY <2>4 DEF Transfer
  <2>5. CASE \E from \in Address : TransferFrom(sender, from, to, amount)
    BY <2>5 DEF TransferFrom
  <2> QED
    BY <2>2, <2>3, <2>4, <2>5
<1>4. CASE \E spender \in Spender, shares \in Approval : Approve(sender, spender, shares)
  BY <1>4 DEF Approve
<1>5. CASE ManagerCall(sender)
  <2>1. ASSUME NEW amount \in Amount, TransferInRewards(sender, amount)
        PROVE  Goal
    BY <2>1, StakedAssumption DEF TransferInRewards, PaysIn
  <2>2. ASSUME NEW in \in RoleInput, NEW isFull \in BOOLEAN,
               \/ AddToBlacklist(sender, in[2], isFull)
               \/ RemoveFromBlacklist(sender, in[2], isFull)
        PROVE  Goal
    BY <2>2 DEF AddToBlacklist, RemoveFromBlacklist, vaultVars
  <2>3. ASSUME NEW amount \in Amount, NEW to \in Recipient,
               RescueTokens(sender, amount, to)
        PROVE  Goal
    BY <2>3 DEF RescueTokens
  <2>4. ASSUME NEW from \in Address, NEW to \in Recipient \cup {Zero},
               RedistributeLockedAmount(sender, from, to)
        PROVE  Goal
    BY <2>4 DEF RedistributeLockedAmount
  <2> QED
    BY <1>5, <2>1, <2>2, <2>3, <2>4 DEF ManagerCall
<1> QED
  BY <1>2, <1>3, <1>4, <1>5 DEF StakedCall

\* Its exits burn shares, and pay out of the vault.
LEMMA ExitCallMoves ==
    ASSUME StakedInv, NEW sender \in Caller, ExitCall(sender)
    PROVE  now' = now /\ PaysOut(Vault) /\ totalSupply' < totalSupply
<1> SUFFICES ASSUME NEW amount \in Amount, NEW to \in Recipient, NEW account \in Address,
                    \/ Withdraw(sender, amount, to, account)
                    \/ Redeem(sender, amount, to, account)
             PROVE  now' = now /\ PaysOut(Vault) /\ totalSupply' < totalSupply
  BY DEF ExitCall
<1>1. /\ amount \in Nat /\ PreviewRedeem(amount) \in Nat /\ PreviewWithdraw(amount) \in Nat
      /\ totalSupply \in Nat
  BY Previews, StakedAssumption DEF StakedInv, VaultInv, VaultTypeOK
<1>2. ASSUME NEW assets \in Nat, NEW shares \in Nat,
             LeaveVault(sender, to, account, assets, shares)
      PROVE  now' = now /\ PaysOut(Vault) /\ totalSupply' < totalSupply
  BY <1>1, <1>2 DEF LeaveVault, BurnFrom, PaysOut
<1> QED
  BY <1>1, <1>2 DEF Withdraw, Redeem

\* A payment of a sender leaves the silo and the vault alone.
LEMMA PaysInMoves ==
    ASSUME NEW sender \in Caller, UNCHANGED avUSD \/ PaysIn(sender)
    PROVE  MovedBy(Address \ {Silo}) /\ MovedBy(Address \ {Vault})
BY V2Constants, StakedAssumption DEF PaysIn, MovedBy

LEMMA PaysOutMoves ==
    ASSUME PaysOut(Vault)
    PROVE  MovedBy(Address \ {Silo})
BY V2Constants DEF PaysOut, MovedBy

-----------------------------------------------------------------------------
(* Cooldowns. *)

\* The cast of a cooldown's assets to uint152 keeps them.
LEMMA CastIsExact ==
    ASSUME VaultTypeOK, AvUSDBounded, NEW assets \in Nat, assets <= avUSD[Vault]
    PROVE  assets % UINT152 = assets
<1>1. avUSD[Vault] < UINT152 /\ avUSD[Vault] \in Nat
  BY HoldingsFit, V2Constants
<1>2. assets < UINT152 /\ UINT152 \in Nat
  BY <1>1, V2Constants
<1> QED
  BY <1>2, ModSmall

LEMMA StartCooldownPreserves ==
    ASSUME V2Inv, NEW sender \in Caller, NEW assets \in Nat, NEW shares,
           StartCooldown(sender, assets, shares)
    PROVE  /\ (CooldownTypeOK /\ AvUSDBounded /\ SiloBacked /\ WaitBounded)'
           /\ ClaimsLeave
<1>1. /\ VaultTypeOK /\ CooldownTypeOK /\ AvUSDBounded /\ SiloBacked
      /\ WaitBounded /\ now \in Nat
      /\ sender \in Address /\ Silo \in Address /\ Vault \in Address /\ Silo # Vault
  BY V2Constants DEF V2Inv, StakedInv, VaultInv, VaultTypeOK
<1>2. /\ MoveAvUSD(Vault, Silo, assets) /\ now' = now
      /\ cooldowns' = [cooldowns EXCEPT ![sender] = Restarted(cooldowns[sender], assets)]
      /\ cooldownDuration' = cooldownDuration
      /\ now + cooldownDuration <= MaxTime
      /\ cooldowns[sender].underlyingAmount + (assets % UINT152) < UINT152
  BY DEF StartCooldown, LeaveVault
<1>3. assets % UINT152 = assets
  BY <1>1, <1>2, CastIsExact DEF MoveAvUSD
<1>4. /\ avUSD' \in [Address -> Nat]
      /\ avUSD'[Vault] = avUSD[Vault] - assets
      /\ avUSD'[Silo] = avUSD[Silo] + assets
      /\ Total(avUSD') = Total(avUSD)
      /\ avUSD[Vault] \in Nat /\ avUSD[Silo] \in Nat
  <2>1. /\ avUSD' \in [Address -> Nat] /\ Total(avUSD') = Total(avUSD)
        /\ avUSD'[Vault] = avUSD[Vault] - assets
    BY <1>1, <1>2, AvUSDMoved
  <2>2. avUSD'[Silo] = avUSD[Silo] + assets
    BY <1>1, <1>2 DEF MoveAvUSD, Move, VaultTypeOK
  <2> QED
    BY <1>1, <2>1, <2>2 DEF VaultTypeOK
<1>5. /\ Restarted(cooldowns[sender], assets) =
            [cooldownEnd |-> now + cooldownDuration,
             underlyingAmount |-> cooldowns[sender].underlyingAmount + assets]
      /\ now + cooldownDuration \in 0 .. MaxTime
      /\ cooldownDuration \in 0 .. MAX_COOLDOWN_DURATION
      /\ cooldowns[sender].underlyingAmount \in Nat
      /\ cooldowns[sender].underlyingAmount + assets \in 0 .. UINT152 - 1
  <2>1. Restarted(cooldowns[sender], assets) =
            [cooldownEnd |-> now + cooldownDuration,
             underlyingAmount |-> cooldowns[sender].underlyingAmount + assets]
    BY <1>3 DEF Restarted
  <2>2. /\ cooldownDuration \in 0 .. MAX_COOLDOWN_DURATION
        /\ cooldowns[sender].underlyingAmount \in Nat
    BY <1>1, V2Constants DEF CooldownTypeOK
  <2>3. MAX_COOLDOWN_DURATION \in Nat /\ MaxTime \in Nat /\ UINT152 \in Nat
    BY CooldownAssumption, StakedAssumption
  <2> QED
    BY <1>1, <1>2, <1>3, <2>1, <2>2, <2>3
<1>6. CooldownTypeOK'
  BY <1>1, <1>2, <1>5 DEF CooldownTypeOK
<1>7. Total(Pending') = Total(Pending) + assets
  <2>1. /\ Pending \in [Address -> Nat] /\ Total(Pending) \in Nat
        /\ Pending[sender] = cooldowns[sender].underlyingAmount
    BY <1>1, PendingType
  <2>2. cooldowns \in [Address -> [cooldownEnd : 0 .. MaxTime,
                                   underlyingAmount : 0 .. UINT152 - 1]]
    BY <1>1 DEF CooldownTypeOK
  <2>3. Pending' = [Pending EXCEPT ![sender] = Pending[sender] + assets]
    BY <1>1, <1>2, <1>5, <2>1, <2>2 DEF Pending
  <2>4. Pending[sender] \in Nat /\ Pending[sender] + assets \in Nat
    BY <1>1, <2>1
  <2>5. Total([Pending EXCEPT ![sender] = Pending[sender] + assets])
           = Total(Pending) - Pending[sender] + (Pending[sender] + assets)
    BY <1>1, <2>1, <2>4, EntryUpdate
  <2> QED
    BY <2>1, <2>3, <2>4, <2>5
<1>8. AvUSDBounded'
  BY <1>1, <1>4 DEF AvUSDBounded
<1>9. SiloBacked' /\ ClaimsLeave
  <2>1. Total(Pending) \in Nat
    BY <1>1, PendingType
  <2> QED
    BY <1>1, <1>4, <1>7, <2>1 DEF SiloBacked, ClaimsLeave
<1>10. WaitBounded'
  <2> SUFFICES ASSUME NEW a \in Address, cooldowns'[a].underlyingAmount > 0
               PROVE  cooldowns'[a].cooldownEnd <= now' + MAX_COOLDOWN_DURATION
    BY DEF WaitBounded
  <2>1. CASE a = sender
    <3>1. cooldowns'[a].cooldownEnd = now + cooldownDuration
      BY <1>1, <1>2, <1>5, <2>1 DEF CooldownTypeOK
    <3> QED
      BY <1>1, <1>2, <1>5, <3>1, CooldownAssumption
  <2>2. CASE a # sender
    BY <1>1, <1>2, <2>2 DEF WaitBounded, CooldownTypeOK
  <2> QED
    BY <2>1, <2>2
<1> QED
  BY <1>6, <1>8, <1>9, <1>10

LEMMA UnstakePreserves ==
    ASSUME V2Inv, NEW sender \in Caller, NEW to \in Recipient, Unstake(sender, to)
    PROVE  /\ (CooldownTypeOK /\ AvUSDBounded /\ SiloBacked /\ WaitBounded)'
           /\ ClaimsLeave
<1> DEFINE claim == cooldowns[sender].underlyingAmount
<1>1. /\ VaultTypeOK /\ CooldownTypeOK /\ AvUSDBounded /\ SiloBacked
      /\ WaitBounded
      /\ sender \in Address /\ to \in Address /\ Silo \in Address
      /\ Vault \in Address /\ Silo # Vault
  BY V2Constants DEF V2Inv, StakedInv, VaultInv
<1>2. /\ MoveAvUSD(Silo, to, claim) /\ now' = now
      /\ cooldowns' = [cooldowns EXCEPT ![sender] = Settled(cooldowns[sender])]
      /\ cooldownDuration' = cooldownDuration
  BY DEF Unstake, SiloWithdraw
<1>3. /\ claim \in Nat /\ Pending \in [Address -> Nat] /\ Total(Pending) \in Nat
      /\ Pending[sender] = claim
      /\ cooldowns \in [Address -> [cooldownEnd : 0 .. MaxTime,
                                    underlyingAmount : 0 .. UINT152 - 1]]
  BY <1>1, PendingType DEF CooldownTypeOK
<1>4. Settled(cooldowns[sender]) = [cooldownEnd |-> 0, underlyingAmount |-> 0]
  BY DEF Settled, NoCooldown
<1>5. /\ avUSD' \in [Address -> Nat] /\ Total(avUSD') = Total(avUSD)
  BY <1>1, <1>2, <1>3, AvUSDMoved
<1>6. avUSD'[Silo] >= avUSD[Silo] - claim
  BY <1>1, <1>2, <1>3 DEF MoveAvUSD, Move, VaultTypeOK
<1>7. CooldownTypeOK'
  <2>1. 0 \in 0 .. MaxTime /\ 0 \in 0 .. UINT152 - 1
    BY V2Constants, StakedAssumption
  <2> QED
    BY <1>1, <1>2, <1>4, <2>1 DEF CooldownTypeOK
<1>8. Total(Pending') = Total(Pending) - claim
  <2>1. Pending' = [Pending EXCEPT ![sender] = 0]
    BY <1>1, <1>2, <1>3, <1>4 DEF Pending
  <2>2. Total([Pending EXCEPT ![sender] = 0]) = Total(Pending) - Pending[sender] + 0
    BY <1>1, <1>3, EntryUpdate
  <2> QED
    BY <1>3, <2>1, <2>2
<1>9. AvUSDBounded'
  BY <1>1, <1>5 DEF AvUSDBounded
<1>10. SiloBacked'
  BY <1>1, <1>3, <1>5, <1>6, <1>8 DEF SiloBacked, VaultTypeOK
<1>11. WaitBounded'
  BY <1>1, <1>2, <1>4 DEF WaitBounded, CooldownTypeOK
<1>12. ClaimsLeave
  BY <1>1, <1>2, <1>3, NoExitNoClaim DEF MovedBy
<1> QED
  BY <1>7, <1>9, <1>10, <1>11, <1>12

-----------------------------------------------------------------------------
(* The next-state relation. *)

\* Every step of the cooldown vault is a step of the plain vault.
LEMMA StepIsStaked ==
    ASSUME V2Inv, [NextV2]_v2Vars
    PROVE  [StakedNext]_stakedVars
<1>1. CASE UNCHANGED v2Vars
  BY <1>1 DEF v2Vars
<1>2. ASSUME NEW sender \in Caller, CallV2(sender)
      PROVE  [StakedNext]_stakedVars
  <2>1. sender \in Address /\ Silo \in Recipient /\ Silo \in Address \ {Zero, Vault}
    BY V2Constants
  <2>2. CASE StakedCall(sender) \/ ExitCallV2(sender)
    BY <2>2 DEF ExitCallV2, StakedNext
  <2>3. ASSUME NEW amount \in Amount, CooldownAssets(sender, amount)
        PROVE  [StakedNext]_stakedVars
    <3>1. Withdraw(sender, amount, Silo, sender)
      BY <2>3 DEF CooldownAssets, StartCooldown, Withdraw
    <3> QED
      BY <2>1, <3>1 DEF ExitCall, StakedNext
  <2>4. ASSUME NEW amount \in Amount, CooldownShares(sender, amount)
        PROVE  [StakedNext]_stakedVars
    <3>1. Redeem(sender, amount, Silo, sender)
      BY <2>4 DEF CooldownShares, StartCooldown, Redeem
    <3> QED
      BY <2>1, <3>1 DEF ExitCall, StakedNext
  <2>5. ASSUME NEW to \in Recipient, Unstake(sender, to)
        PROVE  [StakedNext]_stakedVars
    <3> DEFINE claim == cooldowns[sender].underlyingAmount
    <3>1. TransferAvUSD(Silo, to, claim)
      BY <2>5 DEF Unstake, SiloWithdraw, TransferAvUSD
    <3>2. claim \in Nat /\ claim # 0 /\ claim <= avUSD[Silo] /\ avUSD[Silo] \in Nat
      BY <2>1, <2>5, V2Constants
         DEF Unstake, SiloWithdraw, MoveAvUSD, V2Inv, CooldownTypeOK, StakedInv,
             VaultInv, VaultTypeOK
    <3>3. claim \in 1 .. avUSD[Silo]
      BY <3>2
    <3>4. AvUSDElsewhere(Address \ {Zero, Vault})
      BY <2>1, <3>1, <3>3 DEF AvUSDElsewhere
    <3> QED
      BY <3>4 DEF StakedNext
  <2>6. ASSUME NEW duration \in DurationInput, SetCooldownDuration(sender, duration)
        PROVE  [StakedNext]_stakedVars
    BY <2>6 DEF SetCooldownDuration
  <2> QED
    BY <1>2, <2>2, <2>3, <2>4, <2>5, <2>6 DEF CallV2
<1>3. CASE EnvironmentV2
  <2>1. AvUSDElsewhere(Address \ {Zero, Vault, Silo}) => AvUSDElsewhere(Address \ {Zero, Vault})
    BY DEF AvUSDElsewhere
  <2> QED
    BY <1>3, <2>1 DEF EnvironmentV2, StakedNext
<1> QED
  BY <1>1, <1>2, <1>3 DEF NextV2

LEMMA NextV2Preserves ==
    ASSUME V2Inv, [NextV2]_v2Vars
    PROVE  V2Inv' /\ ClaimsLeave
<1>1. StakedInv /\ StakedInv'
  BY StepIsStaked, StakedNextPreserves DEF V2Inv
<1>2. /\ VaultTypeOK /\ now \in Nat /\ now' \in Nat /\ avUSD' \in [Address -> Nat]
      /\ Silo \in Address /\ Vault \in Address /\ Silo # Vault
  BY <1>1, V2Constants DEF StakedInv, VaultInv, VaultTypeOK
<1> DEFINE Rest == CooldownTypeOK /\ AvUSDBounded /\ SiloBacked /\ WaitBounded
<1> SUFFICES Rest' /\ ClaimsLeave
  BY <1>1 DEF V2Inv
<1>3. CASE UNCHANGED v2Vars
  <2>1. MovedBy(Address \ {Silo}) /\ MovedBy(Address \ {Vault}) /\ now' = now
        /\ UNCHANGED cooldownVars
    BY <1>3 DEF v2Vars, stakedVars, vaultVars, MovedBy
  <2> QED
    BY <1>2, <2>1, QuietMovePreserves, NoExitNoClaim
<1>4. ASSUME NEW sender \in Caller, CallV2(sender)
      PROVE  Rest' /\ ClaimsLeave
  <2>1. CASE StakedCall(sender) /\ UNCHANGED cooldownVars
    <3>1. now' = now /\ (UNCHANGED avUSD \/ PaysIn(sender))
      BY <1>1, <2>1, StakedCallMoves
    <3>2. MovedBy(Address \ {Silo}) /\ MovedBy(Address \ {Vault})
      BY <3>1, PaysInMoves
    <3> QED
      BY <1>2, <2>1, <3>1, <3>2, QuietMovePreserves, NoExitNoClaim
  <2>2. CASE ExitCallV2(sender)
    <3>1. ExitCall(sender) /\ UNCHANGED cooldownVars /\ cooldownDuration = 0
      BY <2>2 DEF ExitCallV2
    <3>2. now' = now /\ MovedBy(Address \ {Silo})
      BY <1>1, <3>1, ExitCallMoves, PaysOutMoves
    <3>3. ClaimsLeave
      BY <3>1 DEF ClaimsLeave
    <3> QED
      BY <1>2, <3>1, <3>2, <3>3, QuietMovePreserves
  <2>3. ASSUME NEW amount \in Amount,
               CooldownAssets(sender, amount) \/ CooldownShares(sender, amount)
        PROVE  Rest' /\ ClaimsLeave
    <3>1. amount \in Nat /\ PreviewRedeem(amount) \in Nat
      BY <1>1, Previews, StakedAssumption DEF StakedInv
    <3> QED
      BY <2>3, <3>1, StartCooldownPreserves DEF CooldownAssets, CooldownShares
  <2>4. ASSUME NEW to \in Recipient, Unstake(sender, to)
        PROVE  Rest' /\ ClaimsLeave
    BY <2>4, UnstakePreserves
  <2>5. ASSUME NEW duration \in DurationInput, SetCooldownDuration(sender, duration)
        PROVE  Rest' /\ ClaimsLeave
    <3>1. /\ UNCHANGED <<avUSD, now, cooldowns>> /\ cooldownDuration' = duration
          /\ duration \in 0 .. MAX_COOLDOWN_DURATION
      BY <2>5, CooldownAssumption DEF SetCooldownDuration, stakedVars, vaultVars
    <3>2. Pending' = Pending
      BY <3>1 DEF Pending
    <3>3. Rest'
      BY <3>1, <3>2 DEF V2Inv, CooldownTypeOK, AvUSDBounded, SiloBacked, WaitBounded
    <3> QED
      BY <1>2, <3>1, <3>3, NoExitNoClaim DEF MovedBy
  <2> QED
    BY <1>4, <2>1, <2>2, <2>3, <2>4, <2>5 DEF CallV2
<1>5. CASE EnvironmentV2
  <2>1. UNCHANGED cooldownVars
    BY <1>5 DEF EnvironmentV2
  <2>2. CASE AvUSDElsewhere(Address \ {Zero, Vault, Silo})
    <3> DEFINE holders == Address \ {Zero, Vault, Silo}
    <3>1. holders \in SUBSET (Address \ {Zero}) /\ Silo \notin holders /\ Vault \notin holders
      OBVIOUS
    <3>2. /\ \A a \in Address \ holders : avUSD'[a] >= avUSD[a]
          /\ Total(avUSD) <= MaxAvUSD => Total(avUSD') <= MaxAvUSD
          /\ UNCHANGED now
      BY <1>2, <2>2, <3>1, ElsewhereMoves
    <3>3. avUSD'[Silo] >= avUSD[Silo] /\ avUSD'[Vault] >= avUSD[Vault]
      BY <1>2, <3>1, <3>2
    <3>4. AvUSDBounded'
      BY <3>2 DEF V2Inv, AvUSDBounded
    <3>5. ClaimsLeave
      <4>1. avUSD[Vault] \in Nat /\ avUSD'[Vault] \in Nat
        BY <1>2 DEF VaultTypeOK
      <4> QED
        BY <3>3, <4>1 DEF ClaimsLeave
    <3> QED
      BY <1>2, <2>1, <3>2, <3>3, <3>4, <3>5, QuietPreserves
  <2>3. CASE Tick
    <3>1. now' = now + 1 /\ MovedBy(Address \ {Silo}) /\ MovedBy(Address \ {Vault})
      BY <2>3 DEF Tick, MovedBy
    <3> QED
      BY <1>2, <2>1, <3>1, QuietMovePreserves, NoExitNoClaim
  <2> QED
    BY <1>5, <2>2, <2>3 DEF EnvironmentV2
<1> QED
  BY <1>3, <1>4, <1>5 DEF NextV2

LEMMA InitialV2Inv ==
    ASSUME InitV2
    PROVE  V2Inv
<1>1. StakedInv
  BY InitialInv DEF InitV2
<1>2. /\ cooldowns = [a \in Address |-> NoCooldown]
      /\ cooldownDuration = MAX_COOLDOWN_DURATION
      /\ avUSD = InitialAvUSD
  BY DEF InitV2, StakedInit
<1>3. CooldownTypeOK
  <2>1. 0 \in 0 .. MaxTime /\ 0 \in 0 .. UINT152 - 1 /\ MAX_COOLDOWN_DURATION \in Nat
    BY V2Constants, StakedAssumption, CooldownAssumption
  <2> QED
    BY <1>2, <2>1 DEF CooldownTypeOK, NoCooldown
<1>4. SiloBacked
  <2>1. Pending = [a \in Address |-> 0]
    BY <1>2 DEF Pending, NoCooldown
  <2>2. Total(Pending) = 0
    BY <2>1, TotalZero
  <2> QED
    BY <1>2, <2>2, CooldownAssumption DEF SiloBacked
<1>5. WaitBounded
  BY <1>2 DEF WaitBounded, NoCooldown
<1> QED
  BY <1>1, <1>2, <1>3, <1>4, <1>5, CooldownAssumption DEF V2Inv, AvUSDBounded

-----------------------------------------------------------------------------

\* The inductive invariant of the cooldown vault: that of the plain vault, the
\* types, the bound of avUSD, the backing of claims and their bounded wait.
THEOREM V2Invariant == SpecV2 => []V2Inv
<1>1. InitV2 => V2Inv
  BY InitialV2Inv
<1>2. V2Inv /\ [NextV2]_v2Vars => V2Inv'
  BY NextV2Preserves
<1> QED
  BY <1>1, <1>2, PTL DEF SpecV2

\* The types of the cooldown vault hold in every reachable state.
THEOREM V2Types == SpecV2 => []TypeOKV2
<1>1. V2Inv => TypeOKV2
  BY DEF V2Inv, StakedInv, VaultInv, AccessInv, StakedTypeOK, TypeOKV2
<1> QED
  BY <1>1, V2Invariant, PTL

\* All claims together never exceed what the silo holds.
THEOREM V2SiloBacked == SpecV2 => []SiloBacked
<1>1. V2Inv => SiloBacked
  BY DEF V2Inv
<1> QED
  BY <1>1, V2Invariant, PTL

\* No claim ends later than MAX_COOLDOWN_DURATION from now.
THEOREM V2WaitBounded == SpecV2 => []WaitBounded
<1>1. V2Inv => WaitBounded
  BY DEF V2Inv
<1> QED
  BY <1>1, V2Invariant, PTL

\* While the cooldown is on, avUSD leaves the vault only as claims of the same
\* amount: the cast to uint152 never truncates.
THEOREM V2LeavesAsClaims == SpecV2 => LeavesAsClaims
<1>1. V2Inv /\ [NextV2]_v2Vars
         => [cooldownDuration # 0 /\ avUSD'[Vault] < avUSD[Vault] =>
                Total(Pending') - Total(Pending) = avUSD[Vault] - avUSD'[Vault]]_v2Vars
  BY NextV2Preserves DEF ClaimsLeave
<1> QED
  BY <1>1, V2Invariant, PTL DEF SpecV2, LeavesAsClaims

\* The cooldown vault implements the plain vault, so that its theorems, the
\* solvency and the price of shares among them, hold of the cooldown vault.
THEOREM V2ImplementsStaked == SpecV2 => ImplementsStakedAvUSD
<1>1. InitV2 => StakedInit
  BY DEF InitV2
<1>2. V2Inv /\ [NextV2]_v2Vars => [StakedNext]_stakedVars
  BY StepIsStaked
<1> QED
  BY <1>1, <1>2, V2Invariant, PTL DEF SpecV2, StakedSpec, ImplementsStakedAvUSD

-----------------------------------------------------------------------------
(* How one claim changes in a step.                                          *)

\* What ClaimsSettledWhole says of one step.
SettledStep ==
    \A a \in Address :
       LET old == cooldowns[a]
           new == cooldowns'[a]
       IN  /\ old.underlyingAmount > 0 /\ new.cooldownEnd # old.cooldownEnd =>
                 \/ new.underlyingAmount = 0
                 \/ new.underlyingAmount > old.underlyingAmount
           /\ new.underlyingAmount < old.underlyingAmount =>
                 /\ new.underlyingAmount = 0
                 /\ now >= old.cooldownEnd \/ cooldownDuration = 0
                 /\ \A b \in Address \ {a} : cooldowns'[b] = cooldowns[b]

LEMMA ClaimsKept ==
    ASSUME CooldownTypeOK, UNCHANGED cooldowns
    PROVE  SettledStep
BY CooldownAssumption DEF SettledStep, CooldownTypeOK

\* A cooldown adds to the caller's claim, by an amount that is not zero.
LEMMA CooldownSettles ==
    ASSUME V2Inv, NEW sender \in Caller, NEW assets \in Nat, NEW shares,
           StartCooldown(sender, assets, shares)
    PROVE  SettledStep
<1>1. /\ CooldownTypeOK /\ sender \in Address
      /\ assets # 0 /\ assets % UINT152 = assets
      /\ cooldowns' = [cooldowns EXCEPT ![sender] = Restarted(cooldowns[sender], assets)]
  BY CastIsExact, V2Constants
     DEF V2Inv, StakedInv, VaultInv, StartCooldown, LeaveVault, MoveAvUSD
<1> SUFFICES ASSUME NEW a \in Address
             PROVE  \/ cooldowns'[a] = cooldowns[a]
                    \/ /\ cooldowns'[a].underlyingAmount > cooldowns[a].underlyingAmount
                       /\ cooldowns'[a].underlyingAmount \in Nat
  <2>1. \A a \in Address : cooldowns[a].underlyingAmount \in Nat
    BY <1>1, CooldownAssumption DEF CooldownTypeOK
  <2> QED
    BY <2>1 DEF SettledStep
<1>2. CASE a = sender
  <2>1. cooldowns'[a].underlyingAmount = cooldowns[a].underlyingAmount + assets
    BY <1>1, <1>2 DEF Restarted, CooldownTypeOK
  <2>2. cooldowns[a].underlyingAmount \in Nat
    BY <1>1, CooldownAssumption DEF CooldownTypeOK
  <2> QED
    BY <1>1, <2>1, <2>2
<1>3. CASE a # sender
  BY <1>1, <1>3 DEF CooldownTypeOK
<1> QED
  BY <1>2, <1>3

\* An unstake settles the caller's claim and no other.
LEMMA UnstakeSettles ==
    ASSUME V2Inv, NEW sender \in Caller, NEW to, Unstake(sender, to)
    PROVE  SettledStep
<1>1. /\ CooldownTypeOK /\ sender \in Address
      /\ now >= cooldowns[sender].cooldownEnd \/ cooldownDuration = 0
      /\ cooldowns' = [cooldowns EXCEPT ![sender] = NoCooldown]
  BY V2Constants DEF V2Inv, Unstake, MayUnstake, Settled
<1>2. \A b \in Address \ {sender} : cooldowns'[b] = cooldowns[b]
  BY <1>1 DEF CooldownTypeOK
<1>3. cooldowns'[sender].underlyingAmount = 0
  BY <1>1 DEF CooldownTypeOK, NoCooldown
<1>4. \A a \in Address : cooldowns[a].underlyingAmount \in Nat
  BY <1>1, CooldownAssumption DEF CooldownTypeOK
<1> QED
  BY <1>1, <1>2, <1>3, <1>4 DEF SettledStep

LEMMA NextV2Settles ==
    ASSUME V2Inv, [NextV2]_v2Vars
    PROVE  SettledStep
<1>1. CooldownTypeOK /\ StakedInv /\ VaultInv
  BY DEF V2Inv, StakedInv
<1>2. CASE UNCHANGED cooldowns
  BY <1>1, <1>2, ClaimsKept
<1>3. ASSUME NEW sender \in Caller, NEW amount \in Amount,
             CooldownAssets(sender, amount) \/ CooldownShares(sender, amount)
      PROVE  SettledStep
  <2>1. amount \in Nat /\ PreviewRedeem(amount) \in Nat
    BY <1>1, Previews, StakedAssumption
  <2> QED
    BY <1>3, <2>1, CooldownSettles DEF CooldownAssets, CooldownShares
<1>4. ASSUME NEW sender \in Caller, NEW to \in Recipient, Unstake(sender, to)
      PROVE  SettledStep
  BY <1>4, UnstakeSettles
<1>5. \/ UNCHANGED cooldowns
      \/ \E sender \in Caller :
            \/ \E amount \in Amount : \/ CooldownAssets(sender, amount)
                                      \/ CooldownShares(sender, amount)
            \/ \E to \in Recipient : Unstake(sender, to)
  BY DEF NextV2, CallV2, ExitCallV2, SetCooldownDuration, EnvironmentV2,
         cooldownVars, v2Vars
<1> QED
  BY <1>2, <1>3, <1>4, <1>5

\* A claim is only ever added to, or settled as a whole when its time has come,
\* one claim at a time.
THEOREM V2ClaimsSettledWhole == SpecV2 => ClaimsSettledWhole
<1>1. V2Inv /\ [NextV2]_v2Vars => [SettledStep]_v2Vars
  BY NextV2Settles
<1>2. [][SettledStep]_v2Vars => ClaimsSettledWhole
  BY PTL DEF SettledStep, ClaimsSettledWhole
<1> QED
  BY <1>1, <1>2, V2Invariant, PTL DEF SpecV2
-----------------------------------------------------------------------------
(* The token and the vault together: what AvUSDSystem puts on top of both.    *)

LEMMA SystemConstants ==
    /\ Vault \in Address \ {Zero, Silo} /\ Silo \in Address \ {Zero}
    /\ Zero \in Address
    /\ Caller \subseteq Address \ {Zero, Vault, Silo}
    /\ Recipient \cup {Vault} \subseteq Address /\ Silo \in Recipient
    /\ Issuance \subseteq Nat /\ 1 .. MaxAvUSD \subseteq Issuance
    /\ MaxAvUSD \in Nat /\ MAX_UINT \in Nat /\ MAX_UINT # 0
    /\ IsFiniteSet(Address) /\ InitialTokenOwner \in Address \ {Zero}
    /\ ApprovalInput \subseteq Caller \X Address \X Nat
    /\ NewMinter \subseteq Address /\ NewTokenOwner \subseteq Address
BY AccessAssumption, AccountsAssumption, StakedAssumption, CooldownAssumption, SystemAssumption

\* The token adds up balances as the vault does.
LEMMA TokenTotal ==
    ASSUME NEW table
    PROVE  Token!Total(table) = Total(table)
BY DEF Token!Total, Total, Token!Coins, Coins, Token!Cardinality, Cardinality

\* The token's invariant, in terms of the vault's table of avUSD.
TokenOK ==
    /\ avUSDSupply = Total(avUSD)
    /\ avUSDAllowance \in [Address -> [Address -> Nat]]
    /\ minter \in Address /\ pendingOwner \in Address
    /\ tokenOwner \in Address \ {Zero}

LEMMA TokenInvIs ==
    ASSUME avUSD \in [Address -> Nat]
    PROVE  Token!AvUSDInv <=> TokenOK
<1>1. Total(avUSD) \in Nat
  BY TotalBounds, SystemConstants
<1>2. Token!Total(avUSD) = Total(avUSD)
  BY TokenTotal
<1> QED
  BY <1>1, <1>2 DEF Token!AvUSDInv, Token!CoinInv, Token!CoinTypeOK, TokenOK,
                    Token!AvUSDSupplyIsBalances, Token!OwnershipTypeOK

LEMMA TokenInvIsNext ==
    ASSUME avUSD' \in [Address -> Nat], TokenOK'
    PROVE  Token!AvUSDInv'
<1>1. Total(avUSD') \in Nat
  BY TotalBounds, SystemConstants
<1>2. Token!Total(avUSD') = Total(avUSD')
  BY TokenTotal
<1> QED
  BY <1>1, <1>2 DEF Token!AvUSDInv, Token!CoinInv, Token!CoinTypeOK, TokenOK,
                    Token!AvUSDSupplyIsBalances, Token!OwnershipTypeOK

\* What every proof below starts from.
LEMMA SystemFacts ==
    ASSUME SystemInv
    PROVE  /\ StakedInv /\ VaultInv /\ VaultTypeOK /\ CooldownTypeOK /\ AccessInv
           /\ TokenOK /\ OnlyCallersApprove
           /\ avUSD \in [Address -> Nat]
           /\ \A a \in Address : avUSD[a] \in Nat /\ avUSD[a] <= MaxAvUSD
<1>1. /\ StakedInv /\ VaultInv /\ VaultTypeOK /\ CooldownTypeOK /\ AccessInv
      /\ avUSD \in [Address -> Nat] /\ OnlyCallersApprove /\ Total(avUSD) <= MaxAvUSD
  BY DEF SystemInv, V2Inv, StakedInv, VaultInv, VaultTypeOK, AvUSDBounded
<1>2. TokenOK
  BY <1>1, TokenInvIs DEF SystemInv
<1>3. ASSUME NEW a \in Address
      PROVE  avUSD[a] \in Nat /\ avUSD[a] <= MaxAvUSD
  <2>1. avUSD[a] <= Total(avUSD) /\ Total(avUSD) \in Nat
    BY <1>1, TotalBounds, SystemConstants
  <2> QED
    BY <1>1, <2>1, SystemConstants
<1> QED
  BY <1>1, <1>2, <1>3

\* What a spender takes is covered by an allowance, which only accounts that
\* can call the token have given.
LEMMA SpendFacts ==
    ASSUME avUSDAllowance \in [Address -> [Address -> Nat]], OnlyCallersApprove,
           NEW account \in Address, NEW spender \in Address, NEW amount \in Nat,
           Token!SpendAvUSD(account, spender, amount)
    PROVE  /\ avUSDAllowance' \in [Address -> [Address -> Nat]]
           /\ OnlyCallersApprove'
           /\ account \notin Caller => amount = 0
           /\ Spent(avUSDAllowance[account][spender],
                    avUSDAllowance'[account][spender], amount)
<1>1. avUSDAllowance[account][spender] \in Nat /\ MAX_UINT \in Nat /\ MAX_UINT # 0
  BY SystemConstants
<1>2. account \notin Caller => avUSDAllowance[account][spender] = 0
  BY DEF OnlyCallersApprove
<1>3. CASE /\ avUSDAllowance[account][spender] = MAX_UINT
           /\ UNCHANGED avUSDAllowance
  BY <1>1, <1>2, <1>3 DEF OnlyCallersApprove, Spent
<1>4. CASE /\ avUSDAllowance[account][spender] >= amount
           /\ avUSDAllowance' = [avUSDAllowance EXCEPT
                 ![account][spender] = avUSDAllowance[account][spender] - amount]
  <2>1. avUSDAllowance[account][spender] - amount \in Nat
    BY <1>1, <1>4
  <2>2. avUSDAllowance' \in [Address -> [Address -> Nat]]
    BY <1>4, <2>1
  <2>3. avUSDAllowance'[account][spender] = avUSDAllowance[account][spender] - amount
    BY <1>4
  <2>4. account \notin Caller => amount = 0
    BY <1>1, <1>2, <1>4
  <2>5. OnlyCallersApprove'
    <3> SUFFICES ASSUME NEW a \in Address \ Caller, NEW b \in Address
                 PROVE  avUSDAllowance'[a][b] = 0
      BY DEF OnlyCallersApprove
    <3>1. avUSDAllowance[a][b] = 0
      BY DEF OnlyCallersApprove
    <3>2. CASE a = account
      BY <1>2, <1>4, <2>4, <3>1, <3>2
    <3>3. CASE a # account
      BY <1>4, <3>1, <3>3
    <3> QED
      BY <3>2, <3>3
  <2> QED
    BY <1>1, <1>4, <2>2, <2>3, <2>4, <2>5 DEF Spent
<1> QED
  BY <1>3, <1>4 DEF Token!SpendAvUSD

\* What a call of the token means for the vault: avUSD moves elsewhere, from the
\* sender or from an account that allowed it; the token's invariant is kept.
TokenEffect(sender) ==
    /\ TokenOK' /\ OnlyCallersApprove'
    /\ UNCHANGED avUSD \/ AvUSDElsewhere(Address \ {Zero, Vault, Silo})
    /\ \A a \in Address :
          avUSD'[a] < avUSD[a] =>
             \/ a = sender
             \/ Spent(avUSDAllowance[a][sender], avUSDAllowance'[a][sender],
                      avUSD[a] - avUSD'[a])

\* An amount that is taken from an account, by itself or by a spender.
TakenBy(sender, account, amount) ==
    \/ account = sender /\ UNCHANGED avUSDAllowance
    \/ Token!SpendAvUSD(account, sender, amount)

LEMMA TakenFacts ==
    ASSUME TokenOK, OnlyCallersApprove, NEW sender \in Caller, NEW account \in Address,
           NEW amount \in Nat, TakenBy(sender, account, amount)
    PROVE  /\ avUSDAllowance' \in [Address -> [Address -> Nat]]
           /\ OnlyCallersApprove'
           /\ account \notin Caller => amount = 0
           /\ \/ account = sender
              \/ Spent(avUSDAllowance[account][sender],
                       avUSDAllowance'[account][sender], amount)
<1>1. avUSDAllowance \in [Address -> [Address -> Nat]] /\ sender \in Address
  BY SystemConstants DEF TokenOK
<1>2. CASE account = sender /\ UNCHANGED avUSDAllowance
  BY <1>1, <1>2 DEF OnlyCallersApprove
<1>3. CASE Token!SpendAvUSD(account, sender, amount)
  BY <1>1, <1>3, SpendFacts
<1> QED
  BY <1>2, <1>3 DEF TakenBy

LEMMA BurnEffect ==
    ASSUME SystemInv, NEW sender \in Caller, NEW account \in Address,
           NEW amount \in Issuance, TakenBy(sender, account, amount),
           Token!DestroyAvUSD(account, amount),
           UNCHANGED <<accessVars, shareVars, vestingVars, now>>
    PROVE  TokenEffect(sender)
<1>1. /\ TokenOK /\ OnlyCallersApprove /\ avUSD \in [Address -> Nat] /\ amount \in Nat
      /\ IsFiniteSet(Address) /\ avUSD[account] \in Nat
  BY SystemFacts, SystemConstants
<1>2. /\ avUSD[account] >= amount
      /\ avUSD' = [avUSD EXCEPT ![account] = avUSD[account] - amount]
      /\ avUSDSupply' = avUSDSupply - amount
      /\ minter' = minter /\ tokenOwner' = tokenOwner /\ pendingOwner' = pendingOwner
  BY DEF Token!DestroyAvUSD, Token!ownershipVars
<1>3. /\ avUSDAllowance' \in [Address -> [Address -> Nat]]
      /\ OnlyCallersApprove'
      /\ account \notin Caller => amount = 0
      /\ \/ account = sender
         \/ Spent(avUSDAllowance[account][sender],
                  avUSDAllowance'[account][sender], amount)
  BY <1>1, TakenFacts
<1>4. avUSD[account] - amount \in Nat
  BY <1>1, <1>2
<1>5. TokenOK'
  <2>1. Total([avUSD EXCEPT ![account] = avUSD[account] - amount])
           = Total(avUSD) - avUSD[account] + (avUSD[account] - amount)
    BY <1>1, <1>4, EntryUpdate
  <2>2. Total(avUSD) \in Nat
    BY <1>1, TotalBounds
  <2>3. avUSDSupply' = Total(avUSD')
    BY <1>1, <1>2, <2>1, <2>2 DEF TokenOK
  <2> QED
    BY <1>1, <1>2, <1>3, <2>3 DEF TokenOK
<1>6. UNCHANGED avUSD \/ AvUSDElsewhere(Address \ {Zero, Vault, Silo})
  <2>1. CASE account \in Caller
    <3>1. RetireAvUSD(account, amount)
      BY <1>2 DEF RetireAvUSD
    <3>2. account \in Address \ {Zero, Vault, Silo}
      BY <2>1, SystemConstants
    <3> QED
      BY <3>1, <3>2 DEF AvUSDElsewhere
  <2>2. CASE account \notin Caller
    BY <1>1, <1>2, <1>3, <2>2
  <2> QED
    BY <2>1, <2>2
<1>7. ASSUME NEW a \in Address, avUSD'[a] < avUSD[a]
      PROVE  \/ a = sender
             \/ Spent(avUSDAllowance[a][sender], avUSDAllowance'[a][sender],
                      avUSD[a] - avUSD'[a])
  <2>1. a = account
    BY <1>1, <1>2, <1>7
  <2>2. avUSD[a] - avUSD'[a] = amount
    BY <1>1, <1>2, <2>1
  <2> QED
    BY <1>3, <2>1, <2>2
<1> QED
  BY <1>3, <1>5, <1>6, <1>7 DEF TokenEffect

\* A movement between two accounts.
LEMMA MoveFacts ==
    ASSUME avUSD \in [Address -> Nat], NEW from \in Address, NEW to \in Address,
           NEW amount \in Nat, avUSD[from] >= amount,
           avUSD' = Move(avUSD, from, to, amount)
    PROVE  /\ avUSD' \in [Address -> Nat] /\ Total(avUSD') = Total(avUSD)
           /\ \A a \in Address :
                 avUSD'[a] < avUSD[a] => a = from /\ avUSD[a] - avUSD'[a] = amount
           /\ amount = 0 => UNCHANGED avUSD
<1>1. IsFiniteSet(Address) /\ amount <= avUSD[from] /\ avUSD[from] \in Nat
  BY SystemConstants
<1>2. avUSD' \in [Address -> Nat] /\ Total(avUSD') = Total(avUSD)
  BY <1>1, MoveTotal
<1>3. \A a \in Address :
         avUSD'[a] < avUSD[a] => a = from /\ avUSD[a] - avUSD'[a] = amount
  BY DEF Move
<1>4. amount = 0 => UNCHANGED avUSD
  BY DEF Move
<1> QED
  BY <1>2, <1>3, <1>4

LEMMA TransferEffect ==
    ASSUME SystemInv, NEW sender \in Caller, NEW from \in Address,
           NEW to \in Recipient \cup {Vault}, NEW amount \in Issuance,
           TakenBy(sender, from, amount), to # Zero, avUSD[from] >= amount,
           avUSD' = Move(avUSD, from, to, amount),
           UNCHANGED <<avUSDSupply, minter, tokenOwner, pendingOwner>>,
           UNCHANGED <<accessVars, shareVars, vestingVars, now>>
    PROVE  TokenEffect(sender)
<1>1. /\ TokenOK /\ OnlyCallersApprove /\ avUSD \in [Address -> Nat] /\ amount \in Nat
      /\ avUSD[from] \in Nat /\ to \in Address
  BY SystemFacts, SystemConstants
<1>2. /\ avUSDAllowance' \in [Address -> [Address -> Nat]]
      /\ OnlyCallersApprove'
      /\ from \notin Caller => amount = 0
      /\ \/ from = sender
         \/ Spent(avUSDAllowance[from][sender], avUSDAllowance'[from][sender], amount)
  BY <1>1, TakenFacts
<1>3. /\ avUSD' \in [Address -> Nat] /\ Total(avUSD') = Total(avUSD)
      /\ \A a \in Address :
            avUSD'[a] < avUSD[a] => a = from /\ avUSD[a] - avUSD'[a] = amount
      /\ amount = 0 => UNCHANGED avUSD
  BY <1>1, MoveFacts
<1>4. TokenOK'
  BY <1>1, <1>2, <1>3 DEF TokenOK
<1>5. UNCHANGED avUSD \/ AvUSDElsewhere(Address \ {Zero, Vault, Silo})
  <2>1. CASE amount = 0
    BY <1>3, <2>1
  <2>2. CASE amount # 0
    <3>1. from \in Address \ {Zero, Vault, Silo} /\ amount \in 1 .. avUSD[from]
      BY <1>1, <1>2, <2>2, SystemConstants
    <3>2. TransferAvUSD(from, to, amount)
      BY <3>1 DEF TransferAvUSD, MoveAvUSD
    <3> QED
      BY <3>1, <3>2 DEF AvUSDElsewhere
  <2> QED
    BY <2>1, <2>2
<1> QED
  BY <1>2, <1>3, <1>4, <1>5 DEF TokenEffect

LEMMA MintEffect ==
    ASSUME SystemInv, NEW sender \in Caller, NEW to \in Recipient \cup {Vault},
           NEW amount \in Issuance, avUSDSupply + amount <= MaxAvUSD,
           Token!AvUSDMint(sender, to, amount),
           UNCHANGED <<accessVars, shareVars, vestingVars, now>>
    PROVE  TokenEffect(sender)
<1>1. /\ TokenOK /\ OnlyCallersApprove /\ avUSD \in [Address -> Nat] /\ amount \in Nat
      /\ to \in Address /\ avUSD[to] \in Nat /\ avUSD[to] + amount \in Nat
      /\ IsFiniteSet(Address)
  BY SystemFacts, SystemConstants
<1>2. /\ to # Zero /\ avUSDSupply' = avUSDSupply + amount
      /\ avUSD' = [avUSD EXCEPT ![to] = avUSD[to] + amount]
      /\ UNCHANGED avUSDAllowance
      /\ minter' = minter /\ tokenOwner' = tokenOwner /\ pendingOwner' = pendingOwner
  BY DEF Token!AvUSDMint, Token!ownershipVars
<1>3. TokenOK'
  <2>1. Total([avUSD EXCEPT ![to] = avUSD[to] + amount])
           = Total(avUSD) - avUSD[to] + (avUSD[to] + amount)
    BY <1>1, EntryUpdate
  <2>2. Total(avUSD) \in Nat
    BY <1>1, TotalBounds
  <2>3. avUSDSupply' = Total(avUSD')
    BY <1>1, <1>2, <2>1, <2>2 DEF TokenOK
  <2> QED
    BY <1>1, <1>2, <2>3 DEF TokenOK
<1>4. OnlyCallersApprove'
  BY <1>1, <1>2 DEF OnlyCallersApprove
<1>5. AvUSDElsewhere(Address \ {Zero, Vault, Silo})
  <2>1. IssueAvUSD(to, amount)
    BY <1>1, <1>2 DEF IssueAvUSD, TokenOK
  <2> QED
    BY <2>1 DEF AvUSDElsewhere
<1>6. \A a \in Address : avUSD'[a] >= avUSD[a] /\ avUSD'[a] \in Nat /\ avUSD[a] \in Nat
  BY <1>1, <1>2
<1> QED
  BY <1>3, <1>4, <1>5, <1>6 DEF TokenEffect

LEMMA ApproveEffect ==
    ASSUME SystemInv, NEW sender \in Caller, NEW spender \in Address, NEW amount \in Nat,
           Token!AvUSDApprove(sender, spender, amount)
    PROVE  TokenEffect(sender)
<1>1. /\ TokenOK /\ OnlyCallersApprove /\ avUSD \in [Address -> Nat]
      /\ avUSDAllowance \in [Address -> [Address -> Nat]] /\ sender \in Address
  BY SystemFacts, SystemConstants DEF TokenOK
<1>2. /\ avUSDAllowance' = [avUSDAllowance EXCEPT ![sender][spender] = amount]
      /\ UNCHANGED <<avUSD, avUSDSupply>>
      /\ minter' = minter /\ tokenOwner' = tokenOwner /\ pendingOwner' = pendingOwner
  BY DEF Token!AvUSDApprove, Token!ownershipVars
<1>3. TokenOK'
  BY <1>1, <1>2 DEF TokenOK
<1>4. OnlyCallersApprove'
  BY <1>1, <1>2 DEF OnlyCallersApprove
<1>5. \A a \in Address : ~(avUSD'[a] < avUSD[a])
  BY <1>1, <1>2
<1> QED
  BY <1>2, <1>3, <1>4, <1>5 DEF TokenEffect

LEMMA OwnerEffect ==
    ASSUME SystemInv, NEW sender \in Caller,
           \/ \E newMinter \in NewMinter : Token!SetMinter(sender, newMinter)
           \/ \E newOwner \in NewTokenOwner : Token!TransferOwnership(sender, newOwner)
           \/ Token!AcceptOwnership(sender)
    PROVE  TokenEffect(sender)
<1>1. /\ TokenOK /\ OnlyCallersApprove /\ avUSD \in [Address -> Nat]
      /\ sender \in Address \ {Zero} /\ Zero \in Address
      /\ NewMinter \subseteq Address /\ NewTokenOwner \subseteq Address
  BY SystemFacts, SystemConstants
<1>2. /\ UNCHANGED <<avUSD, avUSDSupply, avUSDAllowance>>
      /\ minter' \in Address /\ pendingOwner' \in Address
      /\ tokenOwner' \in Address \ {Zero}
  BY <1>1 DEF Token!SetMinter, Token!TransferOwnership, Token!AcceptOwnership,
              Token!coinVars, TokenOK
<1>3. TokenOK' /\ OnlyCallersApprove'
  BY <1>1, <1>2 DEF TokenOK, OnlyCallersApprove
<1>4. \A a \in Address : ~(avUSD'[a] < avUSD[a])
  BY <1>1, <1>2
<1> QED
  BY <1>2, <1>3, <1>4 DEF TokenEffect

LEMMA TokenCallEffect ==
    ASSUME SystemInv, NEW sender \in Caller, TokenCall(sender)
    PROVE  TokenEffect(sender)
<1>1. UNCHANGED <<accessVars, shareVars, vestingVars, now>> /\ sender \in Address
  BY SystemConstants DEF TokenCall
<1>2. ASSUME NEW amount \in Issuance, NEW account \in Address,
             \/ Token!AvUSDBurn(sender, amount)
             \/ Token!AvUSDBurnFrom(sender, account, amount)
      PROVE  TokenEffect(sender)
  <2>1. CASE Token!AvUSDBurn(sender, amount)
    <3>1. Token!DestroyAvUSD(sender, amount) /\ TakenBy(sender, sender, amount)
      BY <2>1 DEF Token!AvUSDBurn, TakenBy
    <3> QED
      BY <1>1, <3>1, BurnEffect
  <2>2. CASE Token!AvUSDBurnFrom(sender, account, amount)
    <3>1. Token!DestroyAvUSD(account, amount) /\ TakenBy(sender, account, amount)
      BY <2>2 DEF Token!AvUSDBurnFrom, TakenBy
    <3> QED
      BY <1>1, <3>1, BurnEffect
  <2> QED
    BY <1>2, <2>1, <2>2
<1>3. ASSUME NEW amount \in Issuance, NEW to \in Recipient \cup {Vault},
             NEW from \in Address,
             \/ Token!AvUSDTransfer(sender, to, amount)
             \/ Token!AvUSDTransferFrom(sender, from, to, amount)
      PROVE  TokenEffect(sender)
  <2>1. CASE Token!AvUSDTransfer(sender, to, amount)
    <3>1. /\ TakenBy(sender, sender, amount) /\ to # Zero /\ avUSD[sender] >= amount
          /\ avUSD' = Token!Move(avUSD, sender, to, amount)
          /\ UNCHANGED <<avUSDSupply, minter, tokenOwner, pendingOwner>>
      BY <2>1 DEF Token!AvUSDTransfer, TakenBy, Token!ownershipVars
    <3>2. avUSD' = Move(avUSD, sender, to, amount)
      BY <3>1 DEF Token!Move, Move
    <3> QED
      BY <1>1, <3>1, <3>2, TransferEffect
  <2>2. CASE Token!AvUSDTransferFrom(sender, from, to, amount)
    <3>1. /\ TakenBy(sender, from, amount) /\ to # Zero /\ avUSD[from] >= amount
          /\ avUSD' = Token!Move(avUSD, from, to, amount)
          /\ UNCHANGED <<avUSDSupply, minter, tokenOwner, pendingOwner>>
      BY <2>2 DEF Token!AvUSDTransferFrom, TakenBy, Token!ownershipVars
    <3>2. avUSD' = Move(avUSD, from, to, amount)
      BY <3>1 DEF Token!Move, Move
    <3> QED
      BY <1>1, <3>1, <3>2, TransferEffect
  <2> QED
    BY <1>3, <2>1, <2>2
<1>4. ASSUME NEW in \in ApprovalInput, Token!AvUSDApprove(sender, in[2], in[3])
      PROVE  TokenEffect(sender)
  <2>1. in[2] \in Address /\ in[3] \in Nat
    BY SystemConstants
  <2> QED
    BY <1>4, <2>1, ApproveEffect
<1>5. CASE Token!AvUSDCall(sender)
  BY <1>1, <1>2, <1>3, <1>4, <1>5, OwnerEffect DEF Token!AvUSDCall
<1>6. CASE Token!MinterCall(sender)
  BY <1>1, <1>6, MintEffect DEF Token!MinterCall
<1> QED
  BY <1>5, <1>6 DEF TokenCall

-----------------------------------------------------------------------------
(* A call of the vault is a call of the token, by the vault or the silo.      *)

TokenNext == [Token!AvUSDNext]_(Token!avUSDVars)

\* The sender is paid from, or the vault or the silo pays.
LEMMA CallV2Moves ==
    ASSUME V2Inv, NEW sender \in Caller, CallV2(sender)
    PROVE  \/ UNCHANGED avUSD
           \/ PaysIn(sender)
           \/ PaysOut(Vault) /\ totalSupply' < totalSupply
           \/ \E to \in Recipient : Unstake(sender, to)
<1>1. StakedInv /\ Silo \in Recipient /\ sender \in Address
  BY V2Constants DEF V2Inv
<1>2. CASE StakedCall(sender)
  BY <1>1, <1>2, StakedCallMoves
<1>3. ASSUME ExitCall(sender)
      PROVE  PaysOut(Vault) /\ totalSupply' < totalSupply
  BY <1>1, <1>3, ExitCallMoves
<1>4. ASSUME NEW amount \in Amount, CooldownAssets(sender, amount)
      PROVE  ExitCall(sender)
  <2>1. Withdraw(sender, amount, Silo, sender)
    BY <1>4 DEF CooldownAssets, StartCooldown, Withdraw
  <2> QED
    BY <1>1, <2>1 DEF ExitCall
<1>5. ASSUME NEW amount \in Amount, CooldownShares(sender, amount)
      PROVE  ExitCall(sender)
  <2>1. Redeem(sender, amount, Silo, sender)
    BY <1>5 DEF CooldownShares, StartCooldown, Redeem
  <2> QED
    BY <1>1, <2>1 DEF ExitCall
<1>6. ASSUME NEW duration, SetCooldownDuration(sender, duration)
      PROVE  UNCHANGED avUSD
  BY <1>6 DEF SetCooldownDuration, stakedVars, vaultVars
<1> QED
  BY <1>2, <1>3, <1>4, <1>5, <1>6 DEF CallV2, ExitCallV2

LEMMA UnstakePaysOut ==
    ASSUME V2Inv, NEW sender \in Caller, NEW to \in Recipient, Unstake(sender, to)
    PROVE  PaysOut(Silo)
<1>1. cooldowns[sender].underlyingAmount \in Nat
  BY V2Constants DEF V2Inv, CooldownTypeOK
<1> QED
  BY <1>1 DEF Unstake, SiloWithdraw, PaysOut

\* What a call of the vault does to the token.
TokenKept == TokenOK' /\ OnlyCallersApprove' /\ TokenNext

LEMMA StillEffect ==
    ASSUME SystemInv, NEW sender \in Caller, PaysToken(sender), UNCHANGED avUSD
    PROVE  TokenKept
<1>1. TokenOK /\ OnlyCallersApprove /\ avUSD[sender] \in Nat
  BY SystemFacts, SystemConstants
<1>2. UNCHANGED tokenVars
  <2>1. ~(avUSD[sender] - avUSD'[sender] > 0)
    BY <1>1
  <2> QED
    BY <2>1 DEF PaysToken
<1>3. UNCHANGED Token!avUSDVars
  BY <1>2 DEF Token!avUSDVars, Token!coinVars, Token!ownershipVars, tokenVars
<1>4. TokenOK' /\ OnlyCallersApprove'
  BY <1>1, <1>2 DEF TokenOK, OnlyCallersApprove, tokenVars
<1> QED
  BY <1>3, <1>4 DEF TokenKept, TokenNext

LEMMA PaysInEffect ==
    ASSUME SystemInv, NEW sender \in Caller, PaysToken(sender), PaysIn(sender)
    PROVE  TokenKept
<1>1. /\ TokenOK /\ OnlyCallersApprove /\ avUSD \in [Address -> Nat]
      /\ sender \in Address /\ sender # Vault /\ Vault \in Address
      /\ avUSD[sender] \in Nat /\ avUSD[sender] <= MaxAvUSD
      /\ 1 .. MaxAvUSD \subseteq Issuance /\ MaxAvUSD \in Nat
  BY SystemFacts, SystemConstants
<1>2. PICK amount \in Nat \ {0} : MoveAvUSD(sender, Vault, amount)
  BY DEF PaysIn
<1>3. avUSD[sender] >= amount /\ avUSD' = Move(avUSD, sender, Vault, amount)
  BY <1>2 DEF MoveAvUSD
<1>4. avUSD'[sender] = avUSD[sender] - amount
  BY <1>1, <1>3 DEF Move
<1>5. avUSD[sender] - avUSD'[sender] = amount /\ amount > 0
  BY <1>1, <1>2, <1>4
<1>6. Token!AvUSDTransferFrom(Vault, sender, Vault, amount)
  BY <1>5 DEF PaysToken
<1>7. /\ Token!SpendAvUSD(sender, Vault, amount)
      /\ avUSDSupply' = avUSDSupply
      /\ minter' = minter /\ tokenOwner' = tokenOwner /\ pendingOwner' = pendingOwner
  BY <1>6 DEF Token!AvUSDTransferFrom, Token!ownershipVars
<1>8. /\ avUSDAllowance' \in [Address -> [Address -> Nat]] /\ OnlyCallersApprove'
  BY <1>1, <1>2, <1>7, SpendFacts DEF TokenOK
<1>9. Total(avUSD') = Total(avUSD)
  BY <1>1, <1>2, <1>3, MoveFacts
<1>10. TokenOK'
  BY <1>1, <1>7, <1>8, <1>9 DEF TokenOK
<1>11. TokenNext
  <2>1. amount \in Issuance
    BY <1>1, <1>2, <1>3
  <2>2. Token!AvUSDCall(Vault)
    BY <1>1, <1>6, <2>1 DEF Token!AvUSDCall
  <2> QED
    BY <2>2 DEF TokenNext, Token!AvUSDNext
<1> QED
  BY <1>8, <1>10, <1>11 DEF TokenKept

LEMMA PaysOutEffect ==
    ASSUME SystemInv, NEW sender \in Caller, PaysToken(sender),
           NEW payer \in {Vault, Silo}, PaysOut(payer)
    PROVE  TokenKept
<1>1. /\ TokenOK /\ OnlyCallersApprove /\ avUSD \in [Address -> Nat]
      /\ sender \in Address /\ sender # payer /\ payer \in Address
      /\ avUSD[payer] \in Nat /\ avUSD[payer] <= MaxAvUSD
      /\ 1 .. MaxAvUSD \subseteq Issuance /\ MaxAvUSD \in Nat
      /\ Recipient \subseteq Address
  BY SystemFacts, SystemConstants
<1>2. PICK to \in Recipient, amount \in Nat \ {0} : MoveAvUSD(payer, to, amount)
  BY DEF PaysOut
<1>3. /\ avUSD[payer] >= amount /\ avUSD' = Move(avUSD, payer, to, amount)
      /\ to # Zero /\ to \in Address
  BY <1>1, <1>2 DEF MoveAvUSD
<1>4. /\ avUSD' \in [Address -> Nat] /\ Total(avUSD') = Total(avUSD)
      /\ avUSD'[sender] < avUSD[sender] => sender = payer
  BY <1>1, <1>2, <1>3, MoveFacts
<1>5. UNCHANGED tokenVars
  <2>1. ~(avUSD[sender] - avUSD'[sender] > 0)
    BY <1>1, <1>4
  <2> QED
    BY <2>1 DEF PaysToken
<1>6. TokenOK' /\ OnlyCallersApprove'
  BY <1>1, <1>4, <1>5 DEF TokenOK, OnlyCallersApprove, tokenVars
<1>7. TokenNext
  <2>1. amount \in Issuance
    BY <1>1, <1>2, <1>3
  <2>2. avUSD' = Token!Move(avUSD, payer, to, amount)
    BY <1>3 DEF Token!Move, Move
  <2>3. Token!AvUSDTransfer(payer, to, amount)
    BY <1>3, <1>5, <2>2 DEF Token!AvUSDTransfer, Token!ownershipVars, tokenVars
  <2>4. Token!AvUSDCall(payer)
    BY <1>2, <2>1, <2>3 DEF Token!AvUSDCall
  <2> QED
    BY <2>4 DEF TokenNext, Token!AvUSDNext
<1> QED
  BY <1>6, <1>7 DEF TokenKept

LEMMA VaultCallEffect ==
    ASSUME SystemInv, NEW sender \in Caller, VaultCall(sender)
    PROVE  TokenKept
<1>1. V2Inv /\ CallV2(sender) /\ PaysToken(sender)
  BY DEF SystemInv, VaultCall
<1>2. ASSUME NEW to \in Recipient, Unstake(sender, to)
      PROVE  TokenKept
  BY <1>1, <1>2, UnstakePaysOut, PaysOutEffect
<1>3. CASE PaysOut(Vault)
  BY <1>1, <1>3, PaysOutEffect
<1> QED
  BY <1>1, <1>2, <1>3, CallV2Moves, StillEffect, PaysInEffect

-----------------------------------------------------------------------------
(* The next-state relation of the system.                                    *)

\* Every step of the system is a step of the cooldown vault.
LEMMA SystemStepIsV2 ==
    ASSUME SystemInv, [SystemNext]_systemVars
    PROVE  [NextV2]_v2Vars
<1>1. CASE UNCHANGED systemVars
  BY <1>1 DEF systemVars
<1>2. ASSUME NEW sender \in Caller, VaultCall(sender)
      PROVE  NextV2
  BY <1>2 DEF VaultCall, NextV2
<1>3. ASSUME NEW sender \in Caller, TokenCall(sender)
      PROVE  [NextV2]_v2Vars
  <2>1. UNCHANGED <<accessVars, shareVars, vestingVars, now, cooldownVars>>
    BY <1>3 DEF TokenCall
  <2>2. UNCHANGED avUSD \/ AvUSDElsewhere(Address \ {Zero, Vault, Silo})
    BY <1>3, TokenCallEffect DEF TokenEffect
  <2>3. CASE UNCHANGED avUSD
    BY <2>1, <2>3 DEF v2Vars, stakedVars, vaultVars
  <2>4. CASE AvUSDElsewhere(Address \ {Zero, Vault, Silo})
    BY <2>1, <2>4 DEF NextV2, EnvironmentV2
  <2> QED
    BY <2>2, <2>3, <2>4
<1>4. CASE Tick /\ UNCHANGED <<cooldownVars, tokenVars>>
  BY <1>4 DEF NextV2, EnvironmentV2
<1> QED
  BY <1>1, <1>2, <1>3, <1>4 DEF SystemNext

\* And it is a step of the token, whose invariant it keeps.
LEMMA SystemStepIsToken ==
    ASSUME SystemInv, [SystemNext]_systemVars
    PROVE  TokenKept
<1>1. TokenOK /\ OnlyCallersApprove
  BY SystemFacts
<1>2. CASE UNCHANGED <<avUSD, tokenVars>>
  <2>1. UNCHANGED Token!avUSDVars
    BY <1>2 DEF Token!avUSDVars, Token!coinVars, Token!ownershipVars, tokenVars
  <2>2. TokenOK' /\ OnlyCallersApprove'
    BY <1>1, <1>2 DEF TokenOK, OnlyCallersApprove, tokenVars
  <2> QED
    BY <2>1, <2>2 DEF TokenKept, TokenNext
<1>3. ASSUME NEW sender \in Caller, VaultCall(sender)
      PROVE  TokenKept
  BY <1>3, VaultCallEffect
<1>4. ASSUME NEW sender \in Caller, TokenCall(sender)
      PROVE  TokenKept
  <2>1. TokenOK' /\ OnlyCallersApprove'
    BY <1>4, TokenCallEffect DEF TokenEffect
  <2>2. TokenNext
    BY <1>4 DEF TokenCall, TokenNext, Token!AvUSDNext
  <2> QED
    BY <2>1, <2>2 DEF TokenKept
<1>5. CASE UNCHANGED systemVars
  BY <1>2, <1>5 DEF systemVars, v2Vars, stakedVars, vaultVars
<1>6. CASE Tick /\ UNCHANGED <<cooldownVars, tokenVars>>
  BY <1>2, <1>6 DEF Tick
<1> QED
  BY <1>3, <1>4, <1>5, <1>6 DEF SystemNext

LEMMA SystemNextKeeps ==
    ASSUME SystemInv, [SystemNext]_systemVars
    PROVE  SystemInv'
<1>1. V2Inv'
  BY SystemStepIsV2, NextV2Preserves DEF SystemInv
<1>2. TokenOK' /\ OnlyCallersApprove'
  BY SystemStepIsToken DEF TokenKept
<1>3. avUSD' \in [Address -> Nat]
  BY <1>1 DEF V2Inv, StakedInv, VaultInv, VaultTypeOK
<1>4. Token!AvUSDInv'
  BY <1>2, <1>3, TokenInvIsNext
<1> QED
  BY <1>1, <1>2, <1>4 DEF SystemInv

LEMMA InitialSystemInv ==
    ASSUME SystemInit
    PROVE  SystemInv
<1>1. V2Inv
  BY InitialV2Inv DEF SystemInit
<1>2. avUSD \in [Address -> Nat]
  BY <1>1 DEF V2Inv, StakedInv, VaultInv, VaultTypeOK
<1>3. /\ avUSD = [a \in Address |-> 0] /\ avUSDSupply = 0
      /\ avUSDAllowance = [a \in Address |-> [b \in Address |-> 0]]
      /\ minter = Zero /\ tokenOwner = InitialTokenOwner /\ pendingOwner = Zero
  BY DEF SystemInit, Token!AvUSDInit
<1>4. TokenOK
  BY <1>3, TotalZero, SystemConstants DEF TokenOK
<1>5. OnlyCallersApprove
  BY <1>3 DEF OnlyCallersApprove
<1> QED
  BY <1>1, <1>2, <1>4, <1>5, TokenInvIs DEF SystemInv

\* The inductive invariant of the vault and the token together: that of either,
\* and that neither the vault nor the silo has given an allowance, without which
\* avUSD could leave them by transferFrom.
THEOREM SystemInvariant == SystemSpec => []SystemInv
<1>1. SystemInit => SystemInv
  BY InitialSystemInv
<1>2. SystemInv /\ [SystemNext]_systemVars => SystemInv'
  BY SystemNextKeeps
<1> QED
  BY <1>1, <1>2, PTL DEF SystemSpec

\* The composition is the cooldown vault and the token at once: what is proved of
\* either holds in the system.
THEOREM SystemImplementsParts == SystemSpec => ImplementsParts
<1>1. SystemInit => InitV2 /\ Token!AvUSDInit
  BY DEF SystemInit
<1>2. SystemInv /\ [SystemNext]_systemVars => [NextV2]_v2Vars
  BY SystemStepIsV2
<1>3. SystemInv /\ [SystemNext]_systemVars => [Token!AvUSDNext]_(Token!avUSDVars)
  BY SystemStepIsToken DEF TokenKept, TokenNext
<1> QED
  BY <1>1, <1>2, <1>3, SystemInvariant, PTL
     DEF SystemSpec, ImplementsParts, SpecV2, Token!AvUSDSpec

-----------------------------------------------------------------------------
(* Consent: on whose word shares and avUSD leave an account.                 *)

SharesByConsent(a, sender) ==
    balanceOf'[a] < balanceOf[a] =>
       \/ sender = a
       \/ Spent(allowance[a][sender], allowance'[a][sender],
                balanceOf[a] - balanceOf'[a])
       \/ /\ FullRestricted(a) \/ a = Vault
          /\ sender = owner

CoinsByConsent(a, sender) ==
    avUSD'[a] < avUSD[a] =>
       \/ sender = a
       \/ Spent(avUSDAllowance[a][sender], avUSDAllowance'[a][sender],
                avUSD[a] - avUSD'[a])
       \/ a = Vault /\ totalSupply' < totalSupply
       \/ a = Silo /\ Pending[sender] - Pending'[sender] = avUSD[a] - avUSD'[a]

\* What OnlyByConsent says of one step, and OwnerRestrictsOnlyItself.
ConsentStep ==
    \A a \in Address :
       /\ balanceOf'[a] < balanceOf[a] =>
             \/ msgSender' = a
             \/ Spent(allowance[a][msgSender'], allowance'[a][msgSender'],
                      balanceOf[a] - balanceOf'[a])
             \/ /\ FullRestricted(a) \/ a = Vault
                /\ msgSender' = owner
       /\ avUSD'[a] < avUSD[a] =>
             \/ msgSender' = a
             \/ Spent(avUSDAllowance[a][msgSender'], avUSDAllowance'[a][msgSender'],
                      avUSD[a] - avUSD'[a])
             \/ a = Vault /\ totalSupply' < totalSupply
             \/ a = Silo /\ Pending[msgSender'] - Pending'[msgSender']
                               = avUSD[a] - avUSD'[a]

RestrictStep ==
    (/\ SoftRestricted(owner)' \/ FullRestricted(owner)'
     /\ ~SoftRestricted(owner') /\ ~FullRestricted(owner'))
    => msgSender' = owner

LEMMA AllowanceCovers ==
    ASSUME VaultTypeOK, NEW account \in Address, NEW spender \in Address,
           NEW shares \in Nat, SpendAllowance(account, spender, shares)
    PROVE  Spent(allowance[account][spender], allowance'[account][spender], shares)
<1>1. allowance \in [Address -> [Address -> Nat]]
  BY DEF VaultTypeOK
<1> QED
  BY <1>1 DEF SpendAllowance, Spent

\* The holder of the admin role is the owner.
LEMMA AdminIsOwner ==
    ASSUME AccessInv, NEW sender, HasRole(DEFAULT_ADMIN_ROLE, sender)
    PROVE  sender = owner
BY DEF AccessInv, OwnerIsTheAdmin, HasRole

LEMMA CallByConsent ==
    ASSUME StakedInv, NEW sender \in Caller, StakedCall(sender) \/ ExitCall(sender),
           NEW a \in Address
    PROVE  SharesByConsent(a, sender)
<1>1. /\ AccessInv /\ VaultInv /\ VaultTypeOK
      /\ balanceOf \in [Address -> Nat] /\ avUSD \in [Address -> Nat]
      /\ sender \in Address /\ Vault \in Address
  BY StakedAssumption, AccessAssumption, AccountsAssumption DEF StakedInv, VaultInv, VaultTypeOK
<1>2. balanceOf[a] \in Nat /\ avUSD[a] \in Nat
  BY <1>1
<1>3. CASE Enters(sender)
  <2> PICK receiver \in Address, assets \in Nat, shares \in Nat :
         EnterVault(sender, receiver, assets, shares)
    BY <1>3 DEF Enters
  <2>1. StakedInv'
    BY StakedCallPreserves, ExitCallPreserves
  <2>2. balanceOf'[a] \in Nat /\ avUSD'[a] \in Nat
    BY <2>1 DEF StakedInv, VaultInv, VaultTypeOK
  <2>3. balanceOf'[a] >= balanceOf[a] /\ (a # sender => avUSD'[a] >= avUSD[a])
    BY <1>1, EntryMoves
  <2> QED
    BY <1>2, <2>2, <2>3 DEF SharesByConsent
<1>4. CASE Leaves(sender)
  <2> PICK receiver \in Address, account \in Address, assets \in Nat, shares \in Nat :
         LeaveVault(sender, receiver, account, assets, shares)
    BY <1>4 DEF Leaves
  <2>1. StakedInv'
    BY StakedCallPreserves, ExitCallPreserves
  <2>2. balanceOf'[a] \in Nat /\ avUSD'[a] \in Nat
    BY <2>1 DEF StakedInv, VaultInv, VaultTypeOK
  <2>3. /\ a # account => balanceOf'[a] = balanceOf[a]
        /\ balanceOf'[account] = balanceOf[account] - shares
        /\ a # Vault => avUSD'[a] >= avUSD[a]
    BY <1>1, ExitMoves
  <2>4. account # sender => Spent(allowance[account][sender], allowance'[account][sender], shares)
    <3>1. account # sender => SpendAllowance(account, sender, shares)
      BY DEF LeaveVault
    <3> QED
      BY <1>1, <3>1, AllowanceCovers
  <2>5. CASE a # account
    BY <1>2, <2>2, <2>3, <2>5 DEF SharesByConsent
  <2>6. CASE a = account
    <3>1. balanceOf[a] - balanceOf'[a] = shares
      BY <1>2, <2>3, <2>6
    <3> QED
      BY <1>2, <2>2, <2>3, <2>4, <2>6, <3>1 DEF SharesByConsent
  <2> QED
    BY <2>5, <2>6
<1>5. CASE MovesShares(sender)
  <2> PICK from \in Address, to \in Address, shares \in Nat :
         /\ MoveShares(from, to, shares)
         /\ \/ from = sender
            \/ SpendAllowance(from, sender, shares)
            \/ from = Vault /\ HasRole(DEFAULT_ADMIN_ROLE, sender)
         /\ UNCHANGED avUSD
    BY <1>5 DEF MovesShares
  <2>1. /\ balanceOf' = Move(balanceOf, from, to, shares)
        /\ shares <= balanceOf[from] /\ balanceOf[from] \in Nat
    BY <1>1 DEF MoveShares
  <2>2. /\ a # from => balanceOf'[a] >= balanceOf[a]
        /\ from = to => balanceOf'[a] = balanceOf[a]
        /\ from # to => balanceOf'[from] = balanceOf[from] - shares
    BY <1>1, <2>1, MoveEntries
  <2>3. balanceOf'[a] \in Nat
    <3>1. StakedInv'
      BY StakedCallPreserves, ExitCallPreserves
    <3> QED
      BY <3>1 DEF StakedInv, VaultInv, VaultTypeOK
  <2>4. SUFFICES ASSUME balanceOf'[a] < balanceOf[a]
                 PROVE  \/ sender = a
                        \/ Spent(allowance[a][sender], allowance'[a][sender],
                                 balanceOf[a] - balanceOf'[a])
                        \/ a = Vault /\ sender = owner
    BY <1>2 DEF SharesByConsent
  <2>5. a = from /\ from # to
    BY <1>2, <2>2, <2>3, <2>4
  <2>6. balanceOf[a] - balanceOf'[a] = shares
    BY <2>1, <2>2, <2>5
  <2>7. CASE SpendAllowance(from, sender, shares)
    BY <1>1, <2>5, <2>6, <2>7, AllowanceCovers
  <2>8. CASE HasRole(DEFAULT_ADMIN_ROLE, sender) /\ from = Vault
    BY <1>1, <2>5, <2>8, AdminIsOwner
  <2> QED
    BY <2>5, <2>7, <2>8
<1>6. CASE Seizes(sender)
  <2> PICK from \in Address, to \in Address :
         RedistributeLockedAmount(sender, from, to)
    BY <1>6 DEF Seizes
  <2>1. /\ FullRestricted(from) /\ UNCHANGED avUSD
        /\ a # from => balanceOf'[a] >= balanceOf[a]
    BY <1>1, SeizureMoves
  <2>2. sender = owner
    BY <1>1, AdminIsOwner DEF RedistributeLockedAmount
  <2>3. balanceOf'[a] \in Nat
    <3>1. StakedInv'
      BY StakedCallPreserves, ExitCallPreserves
    <3> QED
      BY <3>1 DEF StakedInv, VaultInv, VaultTypeOK
  <2> QED
    BY <1>2, <2>1, <2>2, <2>3 DEF SharesByConsent
<1>7. CASE Rewards(sender)
  <2> PICK amount \in Nat : TransferInRewards(sender, amount)
    BY <1>7 DEF Rewards
  <2>1. /\ UNCHANGED balanceOf /\ avUSD' = Move(avUSD, sender, Vault, amount)
        /\ amount <= avUSD[sender]
    BY <1>1 DEF TransferInRewards, shareVars, MoveAvUSD
  <2>2. a # sender => avUSD'[a] >= avUSD[a]
    BY <1>1, <2>1, MoveEntries
  <2>3. avUSD'[a] \in Nat
    <3>1. StakedInv'
      BY StakedCallPreserves, ExitCallPreserves
    <3> QED
      BY <3>1 DEF StakedInv, VaultInv, VaultTypeOK
  <2> QED
    BY <1>2, <2>1, <2>2, <2>3 DEF SharesByConsent
<1>8. CASE MovesNothing
  BY <1>2, <1>8 DEF MovesNothing, SharesByConsent
<1> QED
  BY <1>3, <1>4, <1>5, <1>6, <1>7, <1>8, CallKinds

LEMMA CallV2ByConsent ==
    ASSUME V2Inv, NEW sender \in Caller, CallV2(sender), NEW a \in Address
    PROVE  SharesByConsent(a, sender) /\ CoinsByConsent(a, sender)
<1>1. /\ StakedInv /\ Silo \in Recipient /\ sender \in Address /\ Vault \in Address
      /\ Silo \in Address /\ Recipient \subseteq Address
      /\ balanceOf[a] \in Nat /\ avUSD[a] \in Nat /\ avUSD \in [Address -> Nat]
  BY V2Constants DEF V2Inv, StakedInv, VaultInv, VaultTypeOK
<1>2. SharesByConsent(a, sender)
  <2>1. CASE StakedCall(sender) \/ ExitCall(sender)
    BY <1>1, <2>1, CallByConsent
  <2>2. ASSUME NEW amount \in Amount, CooldownAssets(sender, amount)
        PROVE  ExitCall(sender)
    <3>1. Withdraw(sender, amount, Silo, sender)
      BY <2>2 DEF CooldownAssets, StartCooldown, Withdraw
    <3> QED
      BY <1>1, <3>1 DEF ExitCall
  <2>3. ASSUME NEW amount \in Amount, CooldownShares(sender, amount)
        PROVE  ExitCall(sender)
    <3>1. Redeem(sender, amount, Silo, sender)
      BY <2>3 DEF CooldownShares, StartCooldown, Redeem
    <3> QED
      BY <1>1, <3>1 DEF ExitCall
  <2>4. ASSUME UNCHANGED balanceOf
        PROVE  SharesByConsent(a, sender)
    BY <1>1, <2>4 DEF SharesByConsent
  <2>5. ASSUME NEW to, Unstake(sender, to)
        PROVE  UNCHANGED balanceOf
    BY <2>5 DEF Unstake, shareVars
  <2>6. ASSUME NEW duration, SetCooldownDuration(sender, duration)
        PROVE  UNCHANGED balanceOf
    BY <2>6 DEF SetCooldownDuration, stakedVars, vaultVars, shareVars
  <2> QED
    BY <2>1, <2>2, <2>3, <2>4, <2>5, <2>6 DEF CallV2, ExitCallV2
<1>3. CoinsByConsent(a, sender)
  <2>1. CASE UNCHANGED avUSD
    BY <1>1, <2>1 DEF CoinsByConsent
  <2>2. ASSUME NEW payer \in Address, NEW to \in Address, NEW amount \in Nat,
               MoveAvUSD(payer, to, amount), avUSD'[a] < avUSD[a]
        PROVE  a = payer /\ avUSD[a] - avUSD'[a] = amount
    BY <1>1, <2>2, MoveFacts DEF MoveAvUSD
  <2>3. CASE PaysIn(sender)
    BY <1>1, <2>2, <2>3 DEF PaysIn, CoinsByConsent
  <2>4. CASE PaysOut(Vault) /\ totalSupply' < totalSupply
    BY <1>1, <2>2, <2>4 DEF PaysOut, CoinsByConsent
  <2>5. ASSUME NEW to \in Recipient, Unstake(sender, to)
        PROVE  CoinsByConsent(a, sender)
    <3> DEFINE claim == cooldowns[sender].underlyingAmount
    <3>1. /\ claim \in Nat /\ to \in Address
          /\ cooldowns \in [Address -> [cooldownEnd : 0 .. MaxTime,
                                        underlyingAmount : 0 .. UINT152 - 1]]
      BY <1>1, V2Constants DEF V2Inv, CooldownTypeOK
    <3>2. /\ MoveAvUSD(Silo, to, claim)
          /\ cooldowns' = [cooldowns EXCEPT ![sender] = NoCooldown]
      BY <2>5 DEF Unstake, SiloWithdraw, Settled
    <3>3. Pending[sender] = claim /\ Pending'[sender] = 0
      BY <1>1, <3>1, <3>2 DEF Pending, NoCooldown
    <3> HIDE DEF claim
    <3>4. avUSD'[a] < avUSD[a] => a = Silo /\ avUSD[a] - avUSD'[a] = claim
      BY <1>1, <2>2, <3>1, <3>2
    <3> QED
      BY <3>1, <3>3, <3>4 DEF CoinsByConsent
  <2> QED
    BY <2>1, <2>3, <2>4, <2>5, CallV2Moves
<1> QED
  BY <1>2, <1>3

LEMMA SystemStepConsent ==
    ASSUME SystemInv, SystemNext
    PROVE  ConsentStep
<1> SUFFICES ASSUME NEW a \in Address
             PROVE  SharesByConsent(a, msgSender') /\ CoinsByConsent(a, msgSender')
  BY DEF ConsentStep, SharesByConsent, CoinsByConsent
<1>1. V2Inv /\ balanceOf[a] \in Nat /\ avUSD[a] \in Nat
  BY SystemFacts DEF SystemInv, VaultTypeOK
<1>2. ASSUME NEW sender \in Caller, VaultCall(sender), msgSender' = sender
      PROVE  SharesByConsent(a, msgSender') /\ CoinsByConsent(a, msgSender')
  BY <1>1, <1>2, CallV2ByConsent DEF VaultCall
<1>3. ASSUME NEW sender \in Caller, TokenCall(sender), msgSender' = sender
      PROVE  SharesByConsent(a, msgSender') /\ CoinsByConsent(a, msgSender')
  <2>1. SharesByConsent(a, sender)
    BY <1>1, <1>3 DEF TokenCall, shareVars, SharesByConsent
  <2>2. CoinsByConsent(a, sender)
    BY <1>3, TokenCallEffect DEF TokenEffect, CoinsByConsent
  <2> QED
    BY <1>3, <2>1, <2>2
<1>4. CASE Tick
  BY <1>1, <1>4 DEF Tick, shareVars, SharesByConsent, CoinsByConsent
<1> QED
  BY <1>2, <1>3, <1>4 DEF SystemNext

\* A role an account gains is granted by the admin, unless it is a restriction;
\* and a restriction a manager imposes is not on the admin.
LEMMA CallRestricts ==
    ASSUME StakedInv, NEW sender \in Caller, StakedCall(sender) \/ ExitCall(sender),
           msgSender' = sender
    PROVE  RestrictStep
<1>1. /\ AccessInv /\ members \in [Role -> SUBSET Address]
      /\ DEFAULT_ADMIN_ROLE \notin
            {SOFT_RESTRICTED_STAKER_ROLE, FULL_RESTRICTED_STAKER_ROLE}
      /\ {SOFT_RESTRICTED_STAKER_ROLE, FULL_RESTRICTED_STAKER_ROLE} \subseteq Role
  BY StakedAssumption DEF StakedInv, AccessInv, AccessTypeOK
<1> DEFINE Gains(a) == \E r \in {SOFT_RESTRICTED_STAKER_ROLE,
                                 FULL_RESTRICTED_STAKER_ROLE} :
                          a \in members'[r] /\ a \notin members[r]
<1>2. SUFFICES (\E a : Gains(a) /\ a = owner') => sender = owner
  BY DEF RestrictStep, SoftRestricted, FullRestricted, HasRole, owner
<1>3. CASE UNCHANGED members
  BY <1>3
<1>4. ASSUME AcceptAdmin(sender)
      PROVE  \A a : ~Gains(a)
  <2>1. members' = [members EXCEPT ![DEFAULT_ADMIN_ROLE] =
                       (@ \ {currentDefaultAdmin}) \cup {sender}]
    BY <1>4 DEF AcceptAdmin, GrantRoleInternal
  <2> QED
    BY <1>1, <2>1
<1>5. ASSUME NEW r, NEW a, GrantRole(sender, r, a) \/ RevokeRole(sender, r, a)
      PROVE  sender = owner
  BY <1>1, <1>5, AdminIsOwner DEF GrantRole, RevokeRole
<1>6. ASSUME NEW target, NEW isFull \in BOOLEAN, AddToBlacklist(sender, target, isFull)
      PROVE  \A a : ~(Gains(a) /\ a = owner')
  <2>1. /\ members' = [members EXCEPT ![RestrictionRole(isFull)] = @ \cup {target}]
        /\ target # owner' /\ RestrictionRole(isFull) \in Role
    BY <1>1, <1>6 DEF AddToBlacklist, GrantRoleInternal, RestrictionRole, owner
  <2> QED
    BY <1>1, <2>1
<1>7. ASSUME NEW target, NEW isFull \in BOOLEAN,
             RemoveFromBlacklist(sender, target, isFull)
      PROVE  \A a : ~Gains(a)
  <2>1. members' = [members EXCEPT ![RestrictionRole(isFull)] = @ \ {target}]
    BY <1>7 DEF RemoveFromBlacklist, RevokeRoleInternal
  <2> QED
    BY <1>1, <2>1
<1>8. CASE AccessCall(sender)
  BY <1>3, <1>4, <1>5, <1>8 DEF AccessCall, TransferAdmin
<1>9. CASE ManagerCall(sender)
  <2>1. ASSUME NEW amount, TransferInRewards(sender, amount)
        PROVE  UNCHANGED members
    BY <2>1 DEF TransferInRewards, accessVars
  <2>2. ASSUME NEW amount, NEW to, RescueTokens(sender, amount, to)
        PROVE  UNCHANGED members
    BY <2>2 DEF RescueTokens, accessVars
  <2>3. ASSUME NEW from, NEW to, RedistributeLockedAmount(sender, from, to)
        PROVE  UNCHANGED members
    BY <2>3 DEF RedistributeLockedAmount, accessVars
  <2> QED
    BY <1>3, <1>6, <1>7, <1>9, <2>1, <2>2, <2>3 DEF ManagerCall
<1>10. CASE ShareCall(sender)
  BY <1>3, <1>10 DEF ShareCall, Deposit, Mint, EnterVault, Transfer, TransferFrom, accessVars
<1>11. CASE ExitCall(sender)
  BY <1>3, <1>11 DEF ExitCall, Withdraw, Redeem, LeaveVault, accessVars
<1>12. ASSUME NEW spender, NEW shares, Approve(sender, spender, shares)
       PROVE  UNCHANGED members
  BY <1>12 DEF Approve, accessVars
<1> QED
  BY <1>3, <1>8, <1>9, <1>10, <1>11, <1>12 DEF StakedCall

LEMMA SystemStepRestricts ==
    ASSUME SystemInv, SystemNext
    PROVE  RestrictStep
<1>1. StakedInv /\ Silo \in Recipient /\ Caller \subseteq Address
  BY SystemFacts, V2Constants
<1>2. ASSUME UNCHANGED accessVars
      PROVE  RestrictStep
  BY <1>2 DEF accessVars, RestrictStep, SoftRestricted, FullRestricted, HasRole, owner
<1>3. ASSUME NEW sender \in Caller, CallV2(sender), msgSender' = sender
      PROVE  RestrictStep
  <2>1. CASE StakedCall(sender) \/ ExitCall(sender)
    BY <1>1, <1>3, <2>1, CallRestricts
  <2>2. ASSUME NEW amount, CooldownAssets(sender, amount) \/ CooldownShares(sender, amount)
        PROVE  UNCHANGED accessVars
    BY <2>2 DEF CooldownAssets, CooldownShares, StartCooldown, LeaveVault
  <2>3. ASSUME NEW to, Unstake(sender, to)
        PROVE  UNCHANGED accessVars
    BY <2>3 DEF Unstake
  <2>4. ASSUME NEW duration, SetCooldownDuration(sender, duration)
        PROVE  UNCHANGED accessVars
    BY <2>4 DEF SetCooldownDuration, stakedVars
  <2> QED
    BY <1>2, <1>3, <2>1, <2>2, <2>3, <2>4 DEF CallV2, ExitCallV2
<1>4. ASSUME NEW sender, TokenCall(sender)
      PROVE  UNCHANGED accessVars
  BY <1>4 DEF TokenCall
<1>5. CASE Tick
  BY <1>2, <1>5 DEF Tick
<1> QED
  BY <1>2, <1>3, <1>4, <1>5 DEF SystemNext, VaultCall

\* Nobody's shares or avUSD leave without a call of theirs, an allowance they
\* gave that is used up by as much, a restriction, or a claim that is settled.
THEOREM SystemByConsent == SystemSpec => OnlyByConsent
<1>1. SystemInv /\ [SystemNext]_systemVars => [ConsentStep]_systemVars
  BY SystemStepConsent
<1>2. [][ConsentStep]_systemVars => OnlyByConsent
  BY PTL DEF ConsentStep, OnlyByConsent
<1> QED
  BY <1>1, <1>2, SystemInvariant, PTL DEF SystemSpec

\* Whoever is the admin at a moment can be restricted only by itself.
THEOREM SystemOwnerRestricts == SystemSpec => OwnerRestrictsOnlyItself
<1>1. SystemInv /\ [SystemNext]_systemVars => [RestrictStep]_systemVars
  BY SystemStepRestricts
<1>2. [][RestrictStep]_systemVars => OwnerRestrictsOnlyItself
  BY PTL DEF RestrictStep, OwnerRestrictsOnlyItself
<1> QED
  BY <1>1, <1>2, SystemInvariant, PTL DEF SystemSpec
=============================================================================
