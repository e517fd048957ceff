-------------------------- MODULE StakedAvUSDProofs --------------------------
(***************************************************************************)
(* Machine-checked theorems about StakedAvUSD: in every reachable state    *)
(* the types hold, the supply is the sum of the balances and the vault is  *)
(* solvent; no step lowers the price of a share, and what every single     *)
(* step may do: the rounding of entries and exits, rewards that vest, dust *)
(* and the shares of restricted accounts.                                  *)
(***************************************************************************)
EXTENDS StakedAvUSD, SingleAdminAccessControlProofs, VaultMathProofs

\* One step keeps the price of a share, or raises it.
PriceKept == (TotalAssets + 1) * (totalSupply' + 1)
                <= (TotalAssets' + 1) * (totalSupply + 1)

-----------------------------------------------------------------------------
(* The views. *)

LEMMA UnvestedType ==
    ASSUME VaultTypeOK, lastDistributionTimestamp <= now
    PROVE  UnvestedAmount \in Nat
<1> DEFINE elapsed == now - lastDistributionTimestamp
           n == (VESTING_PERIOD - elapsed) * vestingAmount
<1>1. CASE elapsed >= VESTING_PERIOD
  BY <1>1 DEF UnvestedAmount
<1>2. CASE ~(elapsed >= VESTING_PERIOD)
  <2>1. VESTING_PERIOD - elapsed \in Nat /\ vestingAmount \in Nat
    BY <1>2, StakedAssumption DEF VaultTypeOK
  <2>2. n \in Nat
    BY <2>1
  <2>3. n \div VESTING_PERIOD \in Nat
    BY <2>2, StakedAssumption, DivBounds
  <2> QED
    BY <1>2, <2>3 DEF UnvestedAmount
<1> QED
  BY <1>1, <1>2

LEMMA Views ==
    ASSUME VaultInv
    PROVE  /\ UnvestedAmount \in Nat
           /\ TotalAssets \in Nat
           /\ totalSupply \in Nat
           /\ avUSD[Vault] \in Nat
           /\ avUSD[Vault] = TotalAssets + UnvestedAmount
<1>1. UnvestedAmount \in Nat
  BY UnvestedType DEF VaultInv, Solvent
<1>2. avUSD[Vault] \in Nat /\ totalSupply \in Nat
  BY StakedAssumption DEF VaultInv, VaultTypeOK
<1> QED
  BY <1>1, <1>2 DEF TotalAssets, VaultInv, Solvent

LEMMA UnvestedFrame ==
    ASSUME UNCHANGED <<vestingVars, now>>
    PROVE  UnvestedAmount' = UnvestedAmount
BY DEF UnvestedAmount, vestingVars

\* As time passes, what is unvested only shrinks.
LEMMA UnvestedShrinks ==
    ASSUME VaultTypeOK, lastDistributionTimestamp <= now,
           now' = now + 1, UNCHANGED vestingVars
    PROVE  UnvestedAmount' <= UnvestedAmount /\ UnvestedAmount' \in Nat
<1> DEFINE left  == VESTING_PERIOD - (now - lastDistributionTimestamp)
           next  == VESTING_PERIOD - (now' - lastDistributionTimestamp')
<1>1. /\ left \in Int /\ next = left - 1 /\ vestingAmount \in Nat
      /\ vestingAmount' = vestingAmount
      /\ VESTING_PERIOD \in Nat /\ VESTING_PERIOD > 0
  BY StakedAssumption DEF VaultTypeOK, vestingVars
<1>2. UnvestedAmount \in Nat
  BY UnvestedType
<1>3. UnvestedAmount' = IF next <= 0 THEN 0
                        ELSE (next * vestingAmount) \div VESTING_PERIOD
  BY <1>1 DEF UnvestedAmount, VaultTypeOK, vestingVars
<1>4. CASE next <= 0
  BY <1>2, <1>3, <1>4
<1>5. CASE next > 0
  <2>1. left \in Nat /\ next \in Nat /\ next <= left
    BY <1>1, <1>5
  <2>2. next * vestingAmount \in Nat /\ left * vestingAmount \in Nat
    BY <1>1, <2>1
  <2>3. next * vestingAmount <= left * vestingAmount
    BY <1>1, <2>1
  <2>4. (next * vestingAmount) \div VESTING_PERIOD
           <= (left * vestingAmount) \div VESTING_PERIOD
    BY <1>1, <2>2, <2>3
  <2>5. UnvestedAmount = (left * vestingAmount) \div VESTING_PERIOD
    BY <1>1, <1>5 DEF UnvestedAmount, VaultTypeOK
  <2>6. (next * vestingAmount) \div VESTING_PERIOD \in Nat
    BY <1>1, <2>2, DivBounds
  <2> QED
    BY <1>3, <1>5, <2>4, <2>5, <2>6, <1>1
<1> QED
  BY <1>1, <1>4, <1>5

-----------------------------------------------------------------------------
(* The two tokens. *)

LEMMA AvUSDMoved ==
    ASSUME VaultTypeOK, NEW from \in Address, NEW to \in Address,
           NEW amount \in Nat, MoveAvUSD(from, to, amount)
    PROVE  /\ avUSD' \in [Address -> Nat]
           /\ from # Vault => avUSD'[Vault] >= avUSD[Vault]
           /\ from # Vault /\ to = Vault => avUSD'[Vault] = avUSD[Vault] + amount
           /\ from # Vault /\ to # Vault => avUSD'[Vault] = avUSD[Vault]
           /\ from = Vault /\ to # Vault => avUSD'[Vault] = avUSD[Vault] - amount
           /\ from = Vault /\ to = Vault => avUSD'[Vault] = avUSD[Vault]
           /\ Total(avUSD') = Total(avUSD)
<1>1. avUSD \in [Address -> Nat] /\ amount <= avUSD[from]
  BY DEF VaultTypeOK, MoveAvUSD
<1>2. avUSD' = Move(avUSD, from, to, amount)
  BY DEF MoveAvUSD
<1>3. avUSD' \in [Address -> Nat] /\ Total(avUSD') = Total(avUSD)
  BY <1>1, <1>2, MoveTotal, StakedAssumption
<1>4. Vault \in Address
  BY StakedAssumption
<1> QED
  BY <1>1, <1>2, <1>3, <1>4 DEF Move

LEMMA SharesBurned ==
    ASSUME VaultTypeOK, SupplyIsBalances,
           NEW account \in Address, NEW shares \in Nat, BurnFrom(account, shares)
    PROVE  /\ balanceOf' \in [Address -> Nat]
           /\ shares <= totalSupply
           /\ totalSupply' = totalSupply - shares
           /\ totalSupply' \in Nat
           /\ SupplyIsBalances'
<1>1. /\ balanceOf \in [Address -> Nat] /\ IsFiniteSet(Address)
      /\ totalSupply \in Nat /\ shares <= balanceOf[account]
  BY StakedAssumption DEF VaultTypeOK, BurnFrom
<1>2. balanceOf[account] <= totalSupply
  BY <1>1, TotalBounds DEF SupplyIsBalances
<1>3. balanceOf[account] \in Nat /\ balanceOf[account] - shares \in Nat
  BY <1>1
<1>4. \A v \in Nat : Total([balanceOf EXCEPT ![account] = v])
                       = Total(balanceOf) - balanceOf[account] + v
  BY <1>1, TotalUpdate
<1>5. balanceOf' = [balanceOf EXCEPT ![account] = balanceOf[account] - shares]
  BY DEF BurnFrom
<1>6. Total(balanceOf') = Total(balanceOf) - balanceOf[account]
                            + (balanceOf[account] - shares)
  BY <1>3, <1>4, <1>5
<1>7. totalSupply' = totalSupply - shares
  BY DEF BurnFrom
<1> QED
  BY <1>1, <1>2, <1>3, <1>5, <1>6, <1>7 DEF SupplyIsBalances

LEMMA SharesMinted ==
    ASSUME VaultTypeOK, SupplyIsBalances,
           NEW account \in Address, NEW shares \in Nat, MintTo(account, shares)
    PROVE  /\ balanceOf' \in [Address -> Nat]
           /\ totalSupply' = totalSupply + shares
           /\ totalSupply' \in Nat
           /\ SupplyIsBalances'
<1>1. /\ balanceOf \in [Address -> Nat] /\ IsFiniteSet(Address)
      /\ totalSupply \in Nat
  BY StakedAssumption DEF VaultTypeOK
<1>2. balanceOf[account] \in Nat /\ balanceOf[account] + shares \in Nat
  BY <1>1
<1>3. \A v \in Nat : Total([balanceOf EXCEPT ![account] = v])
                       = Total(balanceOf) - balanceOf[account] + v
  BY <1>1, TotalUpdate
<1>4. /\ balanceOf' = [balanceOf EXCEPT ![account] = balanceOf[account] + shares]
      /\ totalSupply' = totalSupply + shares
  BY DEF MintTo
<1>5. Total(balanceOf') = Total(balanceOf) - balanceOf[account]
                            + (balanceOf[account] + shares)
  BY <1>2, <1>3, <1>4
<1> QED
  BY <1>1, <1>2, <1>4, <1>5 DEF SupplyIsBalances

\* Shares that move, by a transfer or a burn and a mint, keep their sum.
LEMMA SharesMoved ==
    ASSUME VaultTypeOK, SupplyIsBalances,
           NEW from \in Address, NEW to \in Address, NEW shares \in Nat,
           shares <= balanceOf[from],
           balanceOf' = Move(balanceOf, from, to, shares), UNCHANGED totalSupply
    PROVE  balanceOf' \in [Address -> Nat] /\ SupplyIsBalances'
<1>1. balanceOf \in [Address -> Nat] /\ IsFiniteSet(Address)
  BY StakedAssumption DEF VaultTypeOK
<1> QED
  BY <1>1, MoveTotal DEF SupplyIsBalances

LEMMA AllowanceSpent ==
    ASSUME VaultTypeOK, NEW account \in Address, NEW spender \in Address,
           NEW shares \in Nat, SpendAllowance(account, spender, shares)
    PROVE  allowance' \in [Address -> [Address -> Nat]]
<1>1. allowance \in [Address -> [Address -> Nat]]
  BY DEF VaultTypeOK
<1>2. CASE UNCHANGED allowance
  BY <1>1, <1>2
<1>3. CASE /\ allowance[account][spender] >= shares
           /\ allowance' = [allowance EXCEPT ![account][spender] = @ - shares]
  <2>1. allowance[account][spender] - shares \in Nat
    BY <1>1, <1>3
  <2> QED
    BY <1>1, <1>3, <2>1
<1> QED
  BY <1>2, <1>3 DEF SpendAllowance

-----------------------------------------------------------------------------
(* Conversions, entry and exit. *)

LEMMA Previews ==
    ASSUME VaultInv, NEW x \in Nat
    PROVE  /\ PreviewDeposit(x) \in Nat
           /\ PreviewDeposit(x) * (TotalAssets + 1) <= x * (totalSupply + 1)
           /\ PreviewMint(x) \in Nat
           /\ x * (TotalAssets + 1) <= PreviewMint(x) * (totalSupply + 1)
           /\ PreviewWithdraw(x) \in Nat
           /\ x * (totalSupply + 1) <= PreviewWithdraw(x) * (TotalAssets + 1)
           /\ PreviewRedeem(x) \in Nat
           /\ PreviewRedeem(x) * (totalSupply + 1) <= x * (TotalAssets + 1)
<1>1. /\ TotalAssets + 1 \in Nat /\ TotalAssets + 1 > 0
      /\ totalSupply + 1 \in Nat /\ totalSupply + 1 > 0
  BY Views
<1>2. /\ PreviewDeposit(x) \in Nat
      /\ PreviewDeposit(x) * (TotalAssets + 1) <= x * (totalSupply + 1)
  BY <1>1, MulDivDownBounds DEF PreviewDeposit, SharesDown
<1>3. /\ PreviewMint(x) \in Nat
      /\ x * (TotalAssets + 1) <= PreviewMint(x) * (totalSupply + 1)
  BY <1>1, MulDivUpBounds DEF PreviewMint, AssetsUp
<1>4. /\ PreviewWithdraw(x) \in Nat
      /\ x * (totalSupply + 1) <= PreviewWithdraw(x) * (TotalAssets + 1)
  BY <1>1, MulDivUpBounds DEF PreviewWithdraw, SharesUp
<1>5. /\ PreviewRedeem(x) \in Nat
      /\ PreviewRedeem(x) * (totalSupply + 1) <= x * (TotalAssets + 1)
  BY <1>1, MulDivDownBounds DEF PreviewRedeem, AssetsDown
<1> QED
  BY <1>2, <1>3, <1>4, <1>5

LEMMA EnterPreserves ==
    ASSUME VaultInv, NEW caller \in Caller, NEW receiver \in Address,
           NEW assets \in Nat, NEW shares \in Nat,
           shares * (TotalAssets + 1) <= assets * (totalSupply + 1),
           EnterVault(caller, receiver, assets, shares)
    PROVE  VaultInv' /\ PriceKept
<1>1. /\ VaultTypeOK /\ SupplyIsBalances /\ Solvent
      /\ caller \in Address /\ Vault \in Address /\ caller # Vault
  BY AccessAssumption, AccountsAssumption, StakedAssumption DEF VaultInv
<1>2. /\ MoveAvUSD(caller, Vault, assets) /\ MintTo(receiver, shares)
      /\ UNCHANGED allowance /\ UNCHANGED <<vestingVars, now>>
  BY DEF EnterVault
<1>3. avUSD' \in [Address -> Nat] /\ avUSD'[Vault] = avUSD[Vault] + assets
  BY <1>1, <1>2, AvUSDMoved
<1>4. /\ balanceOf' \in [Address -> Nat] /\ totalSupply' \in Nat
      /\ totalSupply' = totalSupply + shares /\ SupplyIsBalances'
  BY <1>1, <1>2, SharesMinted
<1>5. UnvestedAmount' = UnvestedAmount
  BY <1>2, UnvestedFrame
<1>6. /\ UnvestedAmount \in Nat /\ TotalAssets \in Nat /\ totalSupply \in Nat
      /\ avUSD[Vault] \in Nat /\ avUSD[Vault] = TotalAssets + UnvestedAmount
  BY Views
<1>7. VaultTypeOK'
  BY <1>1, <1>2, <1>3, <1>4 DEF VaultTypeOK, vestingVars
<1>8. Solvent'
  BY <1>1, <1>2, <1>3, <1>5, <1>6 DEF Solvent, vestingVars
<1>9. TotalAssets' = TotalAssets + assets
  BY <1>3, <1>5, <1>6 DEF TotalAssets
<1>10. PriceKept
  <2>1. (TotalAssets + 1) * (totalSupply + shares + 1)
           <= (TotalAssets + assets + 1) * (totalSupply + 1)
    BY <1>6, EntryKeepsPrice
  <2> QED
    BY <2>1, <1>4, <1>9 DEF PriceKept
<1> QED
  BY <1>4, <1>7, <1>8, <1>10 DEF VaultInv

LEMMA LeavePreserves ==
    ASSUME VaultInv, NEW caller \in Caller, NEW receiver \in Address,
           NEW account \in Address, NEW assets \in Nat, NEW shares \in Nat,
           assets * (totalSupply + 1) <= shares * (TotalAssets + 1),
           LeaveVault(caller, receiver, account, assets, shares)
    PROVE  VaultInv' /\ PriceKept
<1>1. /\ VaultTypeOK /\ SupplyIsBalances /\ Solvent
      /\ caller \in Address /\ Vault \in Address
  BY AccessAssumption, AccountsAssumption, StakedAssumption DEF VaultInv
<1>2. /\ MoveAvUSD(Vault, receiver, assets) /\ BurnFrom(account, shares)
      /\ UNCHANGED <<vestingVars, now>>
  BY DEF LeaveVault
<1>3. /\ avUSD' \in [Address -> Nat]
      /\ receiver # Vault => avUSD'[Vault] = avUSD[Vault] - assets
      /\ receiver = Vault => avUSD'[Vault] = avUSD[Vault]
  BY <1>1, <1>2, AvUSDMoved
<1>4. /\ balanceOf' \in [Address -> Nat] /\ totalSupply' \in Nat
      /\ totalSupply' = totalSupply - shares /\ SupplyIsBalances'
      /\ shares <= totalSupply
  BY <1>1, <1>2, SharesBurned
<1>5. UnvestedAmount' = UnvestedAmount
  BY <1>2, UnvestedFrame
<1>6. /\ UnvestedAmount \in Nat /\ TotalAssets \in Nat /\ totalSupply \in Nat
      /\ avUSD[Vault] \in Nat /\ avUSD[Vault] = TotalAssets + UnvestedAmount
  BY Views
<1>7. assets <= TotalAssets
  BY <1>4, <1>6, ValueBelowTotal
<1>8. allowance' \in [Address -> [Address -> Nat]]
  <2>1. CASE caller = account
    BY <1>1, <2>1 DEF LeaveVault, VaultTypeOK
  <2>2. CASE caller # account
    <3>1. SpendAllowance(account, caller, shares)
      BY <2>2 DEF LeaveVault
    <3> QED
      BY <1>1, <3>1, AllowanceSpent
  <2> QED
    BY <2>1, <2>2
<1>9. VaultTypeOK'
  BY <1>1, <1>2, <1>3, <1>4, <1>8 DEF VaultTypeOK, vestingVars
<1>10. Solvent'
  BY <1>1, <1>2, <1>3, <1>5, <1>6, <1>7 DEF Solvent, vestingVars
<1>11. TotalAssets' \in Nat /\ TotalAssets' >= TotalAssets - assets
  BY <1>3, <1>5, <1>6, <1>7 DEF TotalAssets
<1>12. PriceKept
  <2>1. (TotalAssets + 1) * (totalSupply - shares + 1)
           <= (TotalAssets' + 1) * (totalSupply + 1)
    BY <1>4, <1>6, <1>7, <1>11, ExitKeepsPrice
  <2> QED
    BY <2>1, <1>4 DEF PriceKept
<1> QED
  BY <1>4, <1>9, <1>10, <1>12 DEF VaultInv

-----------------------------------------------------------------------------
(* The calls, one lemma each. *)

\* A step that leaves the vault's own state alone.
LEMMA VaultFrame ==
    ASSUME VaultInv, UNCHANGED vaultVars
    PROVE  VaultInv' /\ PriceKept
<1>1. /\ VaultTypeOK' /\ SupplyIsBalances' /\ UnvestedAmount' = UnvestedAmount
      /\ TotalAssets' = TotalAssets /\ totalSupply' = totalSupply /\ Solvent'
  BY DEF VaultInv, VaultTypeOK, SupplyIsBalances, Solvent, TotalAssets,
         UnvestedAmount, vaultVars, shareVars, vestingVars
<1>2. TotalAssets \in Nat /\ totalSupply \in Nat
  BY Views
<1> QED
  BY <1>1, <1>2 DEF VaultInv, PriceKept

\* A step that moves shares between accounts, and may change allowances.
LEMMA ShareMovePreserves ==
    ASSUME VaultInv, NEW from \in Address, NEW to \in Address,
           NEW shares \in Nat, shares <= balanceOf[from],
           balanceOf' = Move(balanceOf, from, to, shares),
           allowance' \in [Address -> [Address -> Nat]],
           UNCHANGED <<totalSupply, vestingVars, avUSD, now>>
    PROVE  VaultInv' /\ PriceKept
<1>1. VaultTypeOK /\ SupplyIsBalances /\ Solvent
  BY DEF VaultInv
<1>2. balanceOf' \in [Address -> Nat] /\ SupplyIsBalances'
  BY <1>1, SharesMoved
<1>3. UnvestedAmount' = UnvestedAmount
  BY UnvestedFrame
<1>4. VaultTypeOK' /\ Solvent' /\ TotalAssets' = TotalAssets
  BY <1>1, <1>2, <1>3 DEF VaultTypeOK, Solvent, TotalAssets, vestingVars
<1>5. TotalAssets \in Nat /\ totalSupply \in Nat
  BY Views
<1> QED
  BY <1>2, <1>4, <1>5 DEF VaultInv, PriceKept

LEMMA DepositPreserves ==
    ASSUME VaultInv, NEW sender \in Caller, NEW to \in Address, NEW amount \in Nat,
           Deposit(sender, amount, to) \/ Mint(sender, amount, to)
    PROVE  VaultInv' /\ PriceKept
<1>1. CASE Deposit(sender, amount, to)
  BY <1>1, Previews, EnterPreserves DEF Deposit
<1>2. CASE Mint(sender, amount, to)
  BY <1>2, Previews, EnterPreserves DEF Mint
<1> QED
  BY <1>1, <1>2

LEMMA ExitPreserves ==
    ASSUME VaultInv, NEW sender \in Caller, NEW to \in Address,
           NEW account \in Address, NEW amount \in Nat,
           Withdraw(sender, amount, to, account) \/ Redeem(sender, amount, to, account)
    PROVE  VaultInv' /\ PriceKept
<1>1. CASE Withdraw(sender, amount, to, account)
  BY <1>1, Previews, LeavePreserves DEF Withdraw
<1>2. CASE Redeem(sender, amount, to, account)
  BY <1>2, Previews, LeavePreserves DEF Redeem
<1> QED
  BY <1>1, <1>2

LEMMA TransferPreserves ==
    ASSUME VaultInv, NEW sender \in Address, NEW to \in Address, NEW amount \in Nat,
           MoveShares(sender, to, amount),
           UNCHANGED <<allowance, vestingVars, avUSD, now>>
    PROVE  VaultInv' /\ PriceKept
<1>1. allowance' \in [Address -> [Address -> Nat]]
  BY DEF VaultInv, VaultTypeOK
<1>2. /\ amount <= balanceOf[sender] /\ UNCHANGED totalSupply
      /\ balanceOf' = Move(balanceOf, sender, to, amount)
  BY DEF MoveShares, VaultInv, VaultTypeOK
<1> QED
  BY <1>1, <1>2, ShareMovePreserves

LEMMA TransferFromPreserves ==
    ASSUME VaultInv, NEW sender \in Caller, NEW from \in Address,
           NEW to \in Address, NEW amount \in Nat,
           TransferFrom(sender, from, to, amount)
    PROVE  VaultInv' /\ PriceKept
<1>1. allowance' \in [Address -> [Address -> Nat]]
  BY AllowanceSpent, AccessAssumption, AccountsAssumption DEF VaultInv, TransferFrom
<1>2. /\ amount <= balanceOf[from] /\ UNCHANGED <<totalSupply, vestingVars, avUSD, now>>
      /\ balanceOf' = Move(balanceOf, from, to, amount)
  BY DEF TransferFrom, MoveShares, VaultInv, VaultTypeOK
<1> QED
  BY <1>1, <1>2, ShareMovePreserves

LEMMA ApprovePreserves ==
    ASSUME VaultInv, NEW sender \in Caller, NEW spender \in Address,
           NEW shares \in Nat, Approve(sender, spender, shares)
    PROVE  VaultInv' /\ PriceKept
<1>1. allowance' \in [Address -> [Address -> Nat]]
  BY AccessAssumption, AccountsAssumption DEF VaultInv, VaultTypeOK, Approve
<1>2. UNCHANGED <<balanceOf, totalSupply, vestingVars, avUSD, now>>
  BY DEF Approve
<1>3. UnvestedAmount' = UnvestedAmount
  BY <1>2, UnvestedFrame
<1>4. /\ VaultTypeOK' /\ SupplyIsBalances' /\ Solvent' /\ TotalAssets' = TotalAssets
      /\ totalSupply' = totalSupply
  BY <1>1, <1>2, <1>3 DEF VaultInv, VaultTypeOK, SupplyIsBalances, Solvent,
                          TotalAssets, vestingVars
<1>5. TotalAssets \in Nat /\ totalSupply \in Nat
  BY Views
<1> QED
  BY <1>4, <1>5 DEF VaultInv, PriceKept

\* What a new distribution leaves unvested is the whole of it.
LEMMA NewDistribution ==
    ASSUME VaultInv, NEW amount \in Nat, UpdateVestingAmount(amount), UNCHANGED now
    PROVE  /\ UnvestedAmount = 0 /\ UnvestedAmount' = amount
           /\ vestingAmount' \in Nat /\ lastDistributionTimestamp' \in Nat
           /\ lastDistributionTimestamp' = now
<1>1. /\ UnvestedAmount = 0 /\ vestingAmount' = amount
      /\ lastDistributionTimestamp' = now /\ now' = now /\ now \in Nat
      /\ VESTING_PERIOD \in Nat /\ VESTING_PERIOD > 0
  BY StakedAssumption DEF UpdateVestingAmount, VaultInv, VaultTypeOK
<1>2. now' - lastDistributionTimestamp' = 0
  BY <1>1
<1>3. UnvestedAmount' = (VESTING_PERIOD * amount) \div VESTING_PERIOD
  BY <1>1, <1>2 DEF UnvestedAmount
<1>4. (VESTING_PERIOD * amount) \div VESTING_PERIOD = amount
  BY <1>1
<1> QED
  BY <1>1, <1>3, <1>4

LEMMA RewardsPreserve ==
    ASSUME VaultInv, NEW sender \in Caller, NEW amount \in Nat,
           TransferInRewards(sender, amount)
    PROVE  VaultInv' /\ PriceKept
<1>1. /\ VaultTypeOK /\ SupplyIsBalances
      /\ sender \in Address /\ Vault \in Address /\ sender # Vault
  BY AccessAssumption, AccountsAssumption, StakedAssumption DEF VaultInv
<1>2. /\ UpdateVestingAmount(amount) /\ MoveAvUSD(sender, Vault, amount)
      /\ UNCHANGED shareVars /\ UNCHANGED now
  BY DEF TransferInRewards
<1>3. avUSD' \in [Address -> Nat] /\ avUSD'[Vault] = avUSD[Vault] + amount
  BY <1>1, <1>2, AvUSDMoved
<1>4. /\ UnvestedAmount = 0 /\ UnvestedAmount' = amount
      /\ vestingAmount' \in Nat /\ lastDistributionTimestamp' \in Nat
      /\ lastDistributionTimestamp' = now
  BY <1>2, NewDistribution
<1>5. /\ avUSD[Vault] \in Nat /\ TotalAssets \in Nat /\ totalSupply \in Nat
      /\ avUSD[Vault] = TotalAssets + UnvestedAmount
  BY Views
<1>6. TotalAssets' = TotalAssets /\ totalSupply' = totalSupply
  BY <1>2, <1>3, <1>4, <1>5 DEF TotalAssets, shareVars
<1>7. VaultTypeOK' /\ SupplyIsBalances'
  BY <1>1, <1>2, <1>3, <1>4 DEF VaultTypeOK, SupplyIsBalances, shareVars
<1>8. Solvent'
  BY <1>1, <1>2, <1>3, <1>4, <1>5 DEF Solvent, VaultTypeOK
<1> QED
  BY <1>5, <1>6, <1>7, <1>8 DEF VaultInv, PriceKept

LEMMA RedistributePreserves ==
    ASSUME VaultInv, NEW sender \in Caller, NEW from \in Address, NEW to \in Address,
           RedistributeLockedAmount(sender, from, to)
    PROVE  VaultInv' /\ PriceKept
<1>1. /\ VaultTypeOK /\ SupplyIsBalances /\ UNCHANGED <<allowance, avUSD, now>>
      /\ balanceOf[from] \in Nat /\ Vault \in Address
  BY StakedAssumption DEF VaultInv, VaultTypeOK, RedistributeLockedAmount
<1>2. CASE to # Zero
  <2>1. /\ balanceOf' = Move(balanceOf, from, to, balanceOf[from])
        /\ UNCHANGED <<totalSupply, vestingVars>>
    BY <1>2 DEF RedistributeLockedAmount
  <2>2. allowance' \in [Address -> [Address -> Nat]]
    BY <1>1 DEF VaultTypeOK
  <2> QED
    BY <1>1, <2>1, <2>2, ShareMovePreserves
<1>3. CASE to = Zero
  <2> DEFINE shares == balanceOf[from]
             assets == PreviewRedeem(balanceOf[from])
  <2>1. BurnFrom(from, shares) /\ UpdateVestingAmount(assets)
    BY <1>3 DEF RedistributeLockedAmount
  <2>2. /\ balanceOf' \in [Address -> Nat] /\ totalSupply' \in Nat
        /\ totalSupply' = totalSupply - shares /\ SupplyIsBalances'
        /\ shares <= totalSupply
    BY <1>1, <2>1, SharesBurned
  <2>3. assets \in Nat /\ assets * (totalSupply + 1) <= shares * (TotalAssets + 1)
    BY <1>1, Previews
  <2>4. /\ UnvestedAmount = 0 /\ UnvestedAmount' = assets
        /\ vestingAmount' \in Nat /\ lastDistributionTimestamp' \in Nat
        /\ lastDistributionTimestamp' = now
    BY <1>1, <2>1, <2>3, NewDistribution
  <2>5. /\ avUSD[Vault] \in Nat /\ TotalAssets \in Nat /\ totalSupply \in Nat
        /\ avUSD[Vault] = TotalAssets + UnvestedAmount
    BY Views
  <2>6. assets <= TotalAssets
    BY <1>1, <2>2, <2>3, <2>5, ValueBelowTotal
  <2>7. VaultTypeOK' /\ Solvent'
    BY <1>1, <2>2, <2>4, <2>5, <2>6 DEF VaultTypeOK, Solvent
  <2>8. TotalAssets' = TotalAssets - assets
    BY <1>1, <2>4, <2>5 DEF TotalAssets
  <2>9. (TotalAssets + 1) * (totalSupply - shares + 1)
           <= (TotalAssets' + 1) * (totalSupply + 1)
    <3>1. TotalAssets' \in Nat /\ TotalAssets - assets <= TotalAssets'
      BY <2>3, <2>5, <2>6, <2>8
    <3> QED
      BY <1>1, <2>3, <2>2, <2>5, <2>6, <3>1, ExitKeepsPrice
  <2> QED
    BY <2>2, <2>7, <2>9 DEF VaultInv, PriceKept
<1> QED
  BY <1>2, <1>3

\* Changing the entry of one account changes the sum by as much.
LEMMA EntryUpdate ==
    ASSUME NEW table \in [Address -> Nat], NEW a \in Address, NEW v \in Nat
    PROVE  Total([table EXCEPT ![a] = v]) = Total(table) - table[a] + v
<1>1. IsFiniteSet(Address)
  BY StakedAssumption
<1> QED
  BY <1>1, TotalUpdate

\* What happens to avUSD without the vault takes some from these holders only,
\* and respects the bound of its supply.
LEMMA ElsewhereMoves ==
    ASSUME VaultTypeOK, NEW holders \in SUBSET (Address \ {Zero}),
           AvUSDElsewhere(holders)
    PROVE  /\ avUSD' \in [Address -> Nat]
           /\ \A a \in Address \ holders : avUSD'[a] >= avUSD[a]
           /\ Total(avUSD) <= MaxAvUSD => Total(avUSD') <= MaxAvUSD
           /\ UNCHANGED <<accessVars, shareVars, vestingVars, now>>
<1> DEFINE Gains == \A a \in Address \ holders : avUSD'[a] >= avUSD[a]
           Bounded == Total(avUSD) <= MaxAvUSD => Total(avUSD') <= MaxAvUSD
           Frame == UNCHANGED <<accessVars, shareVars, vestingVars, now>>
<1>1. /\ avUSD \in [Address -> Nat] /\ IsFiniteSet(Address)
      /\ Recipient \cup {Vault} \subseteq Address /\ Issuance \subseteq Nat
      /\ MaxAvUSD \in Nat
  BY StakedAssumption DEF VaultTypeOK
<1>2. ASSUME NEW from \in holders, NEW to \in Recipient \cup {Vault},
             NEW amount \in 1 .. avUSD[from], TransferAvUSD(from, to, amount)
      PROVE  avUSD' \in [Address -> Nat] /\ Bounded /\ Gains /\ Frame
  <2>1. /\ from \in Address /\ to \in Address /\ amount \in Nat
        /\ avUSD' = Move(avUSD, from, to, amount) /\ MoveAvUSD(from, to, amount)
    BY <1>1, <1>2 DEF TransferAvUSD, MoveAvUSD
  <2>2. avUSD' \in [Address -> Nat] /\ Total(avUSD') = Total(avUSD)
    BY <2>1, AvUSDMoved
  <2>3. Gains
    BY <1>1, <2>1 DEF Move
  <2> QED
    BY <1>2, <2>2, <2>3 DEF TransferAvUSD
<1>3. ASSUME NEW to \in Recipient \cup {Vault}, NEW amount \in Issuance,
             IssueAvUSD(to, amount)
      PROVE  avUSD' \in [Address -> Nat] /\ Bounded /\ Gains /\ Frame
  <2>1. /\ to \in Address /\ amount \in Nat /\ avUSD[to] \in Nat
        /\ avUSD[to] + amount \in Nat
        /\ avUSD' = [avUSD EXCEPT ![to] = avUSD[to] + amount]
        /\ Total(avUSD) + amount <= MaxAvUSD
    BY <1>1, <1>3 DEF IssueAvUSD
  <2>2. Total([avUSD EXCEPT ![to] = avUSD[to] + amount])
           = Total(avUSD) - avUSD[to] + (avUSD[to] + amount)
    BY <1>1, <2>1, EntryUpdate
  <2>3. Total(avUSD) \in Nat
    BY <1>1, <2>1, TotalBounds
  <2>4. Bounded
    BY <1>1, <2>1, <2>2, <2>3
  <2>5. avUSD' \in [Address -> Nat] /\ Gains
    BY <1>1, <2>1
  <2> QED
    BY <1>3, <2>4, <2>5 DEF IssueAvUSD
<1>4. ASSUME NEW from \in holders, NEW amount \in Issuance, RetireAvUSD(from, amount)
      PROVE  avUSD' \in [Address -> Nat] /\ Bounded /\ Gains /\ Frame
  <2>1. /\ from \in Address /\ amount \in Nat /\ avUSD[from] \in Nat
        /\ avUSD[from] - amount \in Nat
        /\ avUSD' = [avUSD EXCEPT ![from] = avUSD[from] - amount]
    BY <1>1, <1>4 DEF RetireAvUSD
  <2>2. Total([avUSD EXCEPT ![from] = avUSD[from] - amount])
           = Total(avUSD) - avUSD[from] + (avUSD[from] - amount)
    BY <1>1, <2>1, EntryUpdate
  <2>3. Total(avUSD) \in Nat
    BY <1>1, <2>1, TotalBounds
  <2>4. Bounded
    BY <1>1, <2>1, <2>2, <2>3
  <2>5. avUSD' \in [Address -> Nat] /\ Gains
    BY <1>1, <2>1
  <2> QED
    BY <1>4, <2>4, <2>5 DEF RetireAvUSD
<1> HIDE DEF Gains, Bounded, Frame
<1>5. avUSD' \in [Address -> Nat] /\ Bounded /\ Gains /\ Frame
  BY <1>2, <1>3, <1>4 DEF AvUSDElsewhere
<1> QED
  BY <1>5 DEF Gains, Bounded, Frame

\* avUSD that moves, comes and goes without the vault: to the vault, it is a gift.
LEMMA AvUSDPreserves ==
    ASSUME VaultInv, AvUSDElsewhere(Address \ {Zero, Vault})
    PROVE  VaultInv' /\ PriceKept
<1>1. VaultTypeOK /\ SupplyIsBalances /\ Solvent /\ Vault \in Address
  BY StakedAssumption DEF VaultInv
<1>2. /\ avUSD' \in [Address -> Nat]
      /\ \A a \in Address \ (Address \ {Zero, Vault}) : avUSD'[a] >= avUSD[a]
      /\ UNCHANGED shareVars /\ UNCHANGED <<vestingVars, now>>
  BY <1>1, ElsewhereMoves
<1>3. avUSD' \in [Address -> Nat] /\ avUSD'[Vault] >= avUSD[Vault]
  BY <1>1, <1>2
<1>4. UnvestedAmount' = UnvestedAmount
  BY <1>2, UnvestedFrame
<1>5. /\ avUSD[Vault] \in Nat /\ TotalAssets \in Nat /\ totalSupply \in Nat
      /\ UnvestedAmount \in Nat /\ avUSD'[Vault] \in Nat
      /\ avUSD[Vault] = TotalAssets + UnvestedAmount
  BY <1>1, <1>3, Views
<1>6. /\ TotalAssets' \in Nat /\ TotalAssets <= TotalAssets'
      /\ totalSupply' = totalSupply
  BY <1>2, <1>3, <1>4, <1>5 DEF TotalAssets, shareVars
<1>7. VaultTypeOK' /\ SupplyIsBalances' /\ Solvent'
  BY <1>1, <1>2, <1>3, <1>4, <1>5
     DEF VaultTypeOK, SupplyIsBalances, Solvent, shareVars, vestingVars
<1>8. PriceKept
  BY <1>5, <1>6, GiftKeepsPrice DEF PriceKept
<1> QED
  BY <1>7, <1>8 DEF VaultInv

LEMMA TickPreserves ==
    ASSUME VaultInv, Tick
    PROVE  VaultInv' /\ PriceKept
<1>1. /\ VaultTypeOK /\ SupplyIsBalances /\ lastDistributionTimestamp <= now
      /\ now' = now + 1 /\ UNCHANGED shareVars /\ UNCHANGED vestingVars
      /\ UNCHANGED avUSD
  BY DEF VaultInv, Solvent, Tick
<1>2. UnvestedAmount' <= UnvestedAmount /\ UnvestedAmount' \in Nat
  BY <1>1, UnvestedShrinks
<1>3. /\ avUSD[Vault] \in Nat /\ TotalAssets \in Nat /\ totalSupply \in Nat
      /\ UnvestedAmount \in Nat /\ avUSD[Vault] = TotalAssets + UnvestedAmount
  BY Views
<1>4. /\ TotalAssets' \in Nat /\ TotalAssets <= TotalAssets'
      /\ totalSupply' = totalSupply
  BY <1>1, <1>2, <1>3 DEF TotalAssets, shareVars
<1>5. VaultTypeOK' /\ SupplyIsBalances'
  BY <1>1 DEF VaultTypeOK, SupplyIsBalances, shareVars, vestingVars
<1>6. Solvent'
  BY <1>1, <1>2, <1>3 DEF Solvent, VaultTypeOK, vestingVars
<1>7. PriceKept
  BY <1>3, <1>4, GiftKeepsPrice DEF PriceKept
<1> QED
  BY <1>5, <1>6, <1>7 DEF VaultInv

-----------------------------------------------------------------------------
(* The next-state relation. *)

LEMMA AccessFrame ==
    ASSUME AccessInv, UNCHANGED accessVars
    PROVE  AccessInv'
BY DEF AccessInv, AccessTypeOK, OwnerIsTheAdmin, PendingIsNotOwner, owner, accessVars

LEMMA InitialInv ==
    ASSUME StakedInit
    PROVE  StakedInv
<1>1. AccessInv
  <2>1. /\ DEFAULT_ADMIN_ROLE # REWARDER_ROLE /\ REWARDER_ROLE \in Role
        /\ DEFAULT_ADMIN_ROLE \in Role
        /\ InitialOwner \in Address \ {Zero} /\ InitialRewarder \in Address
        /\ Zero \in Address
    BY StakedAssumption, AccessAssumption, AccountsAssumption
  <2>2. members = [r \in Role |-> CASE r = DEFAULT_ADMIN_ROLE -> {InitialOwner}
                                    [] r = REWARDER_ROLE -> {InitialRewarder}
                                    [] OTHER -> {}]
    BY DEF StakedInit
  <2>3. members \in [Role -> SUBSET Address]
    BY <2>1, <2>2
  <2>4. members[DEFAULT_ADMIN_ROLE] = {InitialOwner}
    BY <2>1, <2>2
  <2> QED
    BY <2>1, <2>3, <2>4
       DEF StakedInit, AccessInv, AccessTypeOK, OwnerIsTheAdmin, PendingIsNotOwner, owner
<1>2. VaultTypeOK
  BY StakedAssumption DEF StakedInit, VaultTypeOK
<1>3. SupplyIsBalances
  BY TotalZero DEF StakedInit, SupplyIsBalances
<1>4. Solvent
  <2>1. /\ now = VESTING_PERIOD /\ lastDistributionTimestamp = 0
        /\ VESTING_PERIOD \in Nat /\ avUSD[Vault] \in Nat
    BY StakedAssumption DEF StakedInit
  <2>2. UnvestedAmount = 0
    BY <2>1 DEF UnvestedAmount
  <2> QED
    BY <2>1, <2>2 DEF Solvent
<1> QED
  BY <1>1, <1>2, <1>3, <1>4 DEF StakedInv, VaultInv

LEMMA AccessCallPreserves ==
    ASSUME StakedInv, NEW sender \in Caller, AccessCall(sender)
    PROVE  StakedInv' /\ PriceKept
<1>1. VaultInv' /\ PriceKept
  BY VaultFrame DEF AccessCall, StakedInv
<1>2. ASSUME NEW newAdmin \in AdminInput, TransferAdmin(sender, newAdmin)
      PROVE  AccessInv'
  BY <1>2, TransferAdminInv, AccessAssumption, AccountsAssumption DEF StakedInv
<1>3. ASSUME AcceptAdmin(sender)
      PROVE  AccessInv'
  BY <1>3, AcceptAdminInv DEF StakedInv
<1>4. ASSUME NEW in \in RoleInput,
             GrantRole(sender, in[1], in[2]) \/ RevokeRole(sender, in[1], in[2])
      PROVE  AccessInv'
  <2>1. in[1] \in Role /\ in[2] \in Address
    BY AccessAssumption, AccountsAssumption
  <2> QED
    BY <1>4, <2>1, OrdinaryRoleInv DEF GrantRole, RevokeRole, StakedInv
<1> QED
  BY <1>1, <1>2, <1>3, <1>4 DEF AccessCall, StakedInv

LEMMA BlacklistPreserves ==
    ASSUME StakedInv, NEW sender \in Caller, NEW target \in Address,
           NEW isFull \in BOOLEAN,
           \/ AddToBlacklist(sender, target, isFull)
           \/ RemoveFromBlacklist(sender, target, isFull)
    PROVE  StakedInv' /\ PriceKept
<1>1. VaultInv' /\ PriceKept
  BY VaultFrame DEF AddToBlacklist, RemoveFromBlacklist, StakedInv
<1>2. RestrictionRole(isFull) \in Role \ {DEFAULT_ADMIN_ROLE}
  BY StakedAssumption DEF RestrictionRole
<1>3. AccessInv'
  BY <1>2, OrdinaryRoleInv DEF AddToBlacklist, RemoveFromBlacklist, StakedInv
<1> QED
  BY <1>1, <1>3 DEF StakedInv

\* The managers' calls that move value.
LEMMA ManagerMovePreserves ==
    ASSUME StakedInv, NEW sender \in Caller,
           \/ \E amount \in Amount : TransferInRewards(sender, amount)
           \/ \E amount \in Amount, to \in Recipient : RescueTokens(sender, amount, to)
           \/ \E from \in Address, to \in Recipient \cup {Zero} :
                 RedistributeLockedAmount(sender, from, to)
    PROVE  StakedInv' /\ PriceKept
<1>1. ASSUME NEW amount \in Amount, TransferInRewards(sender, amount)
      PROVE  StakedInv' /\ PriceKept
  <2>1. VaultInv' /\ PriceKept
    BY <1>1, RewardsPreserve, StakedAssumption DEF StakedInv
  <2> QED
    BY <1>1, <2>1, AccessFrame DEF StakedInv, TransferInRewards
<1>2. ASSUME NEW amount \in Amount, NEW to \in Recipient,
             RescueTokens(sender, amount, to)
      PROVE  StakedInv' /\ PriceKept
  <2>1. /\ Vault \in Address /\ to \in Address /\ amount \in Nat
        /\ MoveShares(Vault, to, amount)
        /\ UNCHANGED <<allowance, vestingVars, avUSD, now>>
    BY <1>2, StakedAssumption DEF RescueTokens
  <2>2. VaultInv' /\ PriceKept
    BY <2>1, TransferPreserves DEF StakedInv
  <2> QED
    BY <1>2, <2>2, AccessFrame DEF StakedInv, RescueTokens
<1>3. ASSUME NEW from \in Address, NEW to \in Recipient \cup {Zero},
             RedistributeLockedAmount(sender, from, to)
      PROVE  StakedInv' /\ PriceKept
  <2>1. to \in Address
    BY StakedAssumption, AccessAssumption, AccountsAssumption
  <2>2. VaultInv' /\ PriceKept
    BY <1>3, <2>1, RedistributePreserves DEF StakedInv
  <2> QED
    BY <1>3, <2>2, AccessFrame DEF StakedInv, RedistributeLockedAmount
<1> QED
  BY <1>1, <1>2, <1>3

LEMMA ManagerCallPreserves ==
    ASSUME StakedInv, NEW sender \in Caller, ManagerCall(sender)
    PROVE  StakedInv' /\ PriceKept
<1>1. ASSUME NEW in \in RoleInput, NEW isFull \in BOOLEAN,
             \/ AddToBlacklist(sender, in[2], isFull)
             \/ RemoveFromBlacklist(sender, in[2], isFull)
      PROVE  StakedInv' /\ PriceKept
  <2>1. in[2] \in Address
    BY AccessAssumption, AccountsAssumption
  <2> QED
    BY <1>1, <2>1, BlacklistPreserves
<1> QED
  BY <1>1, ManagerMovePreserves DEF ManagerCall

LEMMA ShareCallPreserves ==
    ASSUME StakedInv, NEW sender \in Caller, ShareCall(sender)
    PROVE  StakedInv' /\ PriceKept
<1> SUFFICES ASSUME NEW amount \in Amount, NEW to \in Recipient,
                    \/ Deposit(sender, amount, to)
                    \/ Mint(sender, amount, to)
                    \/ Transfer(sender, to, amount)
                    \/ \E from \in Address : TransferFrom(sender, from, to, amount)
             PROVE  StakedInv' /\ PriceKept
  BY DEF ShareCall
<1>1. amount \in Nat /\ to \in Address /\ sender \in Address /\ VaultInv /\ AccessInv
  BY StakedAssumption, AccessAssumption, AccountsAssumption DEF StakedInv
<1>2. CASE Deposit(sender, amount, to) \/ Mint(sender, amount, to)
  <2>1. VaultInv' /\ PriceKept
    BY <1>1, <1>2, DepositPreserves
  <2>2. UNCHANGED accessVars
    BY <1>2 DEF Deposit, Mint, EnterVault
  <2> QED
    BY <1>1, <2>1, <2>2, AccessFrame DEF StakedInv
<1>3. CASE Transfer(sender, to, amount)
  <2>1. VaultInv' /\ PriceKept
    BY <1>1, <1>3, TransferPreserves DEF Transfer
  <2> QED
    BY <1>1, <1>3, <2>1, AccessFrame DEF StakedInv, Transfer
<1>4. ASSUME NEW from \in Address, TransferFrom(sender, from, to, amount)
      PROVE  StakedInv' /\ PriceKept
  <2>1. VaultInv' /\ PriceKept
    BY <1>1, <1>4, TransferFromPreserves
  <2> QED
    BY <1>1, <1>4, <2>1, AccessFrame DEF StakedInv, TransferFrom
<1> QED
  BY <1>2, <1>3, <1>4

LEMMA ExitCallPreserves ==
    ASSUME StakedInv, NEW sender \in Caller, ExitCall(sender)
    PROVE  StakedInv' /\ PriceKept
<1> SUFFICES ASSUME NEW amount \in Amount, NEW to \in Recipient, NEW account \in Address,
                    \/ Withdraw(sender, amount, to, account)
                    \/ Redeem(sender, amount, to, account)
             PROVE  StakedInv' /\ PriceKept
  BY DEF ExitCall
<1>1. amount \in Nat /\ to \in Address /\ VaultInv /\ AccessInv
  BY StakedAssumption DEF StakedInv
<1>2. VaultInv' /\ PriceKept
  BY <1>1, ExitPreserves
<1>3. UNCHANGED accessVars
  BY DEF Withdraw, Redeem, LeaveVault
<1> QED
  BY <1>1, <1>2, <1>3, AccessFrame DEF StakedInv

LEMMA EnvironmentPreserves ==
    ASSUME StakedInv, AvUSDElsewhere(Address \ {Zero, Vault}) \/ Tick
    PROVE  StakedInv' /\ PriceKept
<1>1. CASE AvUSDElsewhere(Address \ {Zero, Vault})
  <2>1. VaultInv /\ VaultTypeOK
    BY DEF StakedInv, VaultInv
  <2>2. VaultInv' /\ PriceKept
    BY <1>1, <2>1, AvUSDPreserves
  <2>3. UNCHANGED accessVars
    BY <1>1, <2>1, ElsewhereMoves
  <2> QED
    BY <2>2, <2>3, AccessFrame DEF StakedInv
<1>2. CASE Tick
  <2>1. VaultInv' /\ PriceKept
    BY <1>2, TickPreserves DEF StakedInv
  <2> QED
    BY <1>2, <2>1, AccessFrame DEF StakedInv, Tick
<1> QED
  BY <1>1, <1>2

LEMMA StakedCallPreserves ==
    ASSUME StakedInv, NEW sender \in Caller, StakedCall(sender)
    PROVE  StakedInv' /\ PriceKept
<1>1. ASSUME NEW spender \in Spender, NEW shares \in Approval,
             Approve(sender, spender, shares)
      PROVE  StakedInv' /\ PriceKept
  <2>1. spender \in Address /\ shares \in Nat
    BY StakedAssumption
  <2>2. VaultInv' /\ PriceKept
    BY <1>1, <2>1, ApprovePreserves DEF StakedInv
  <2> QED
    BY <1>1, <2>2, AccessFrame DEF StakedInv, Approve
<1> QED
  BY <1>1, AccessCallPreserves, ShareCallPreserves, ManagerCallPreserves DEF StakedCall

LEMMA StakedNextPreserves ==
    ASSUME StakedInv, [StakedNext]_stakedVars
    PROVE  StakedInv' /\ PriceKept
<1>1. CASE UNCHANGED stakedVars
  BY <1>1, VaultFrame, AccessFrame DEF StakedInv, stakedVars
<1>2. ASSUME NEW sender \in Caller, StakedCall(sender)
      PROVE  StakedInv' /\ PriceKept
  BY <1>2, StakedCallPreserves
<1>3. ASSUME NEW sender \in Caller, ExitCall(sender)
      PROVE  StakedInv' /\ PriceKept
  BY <1>3, ExitCallPreserves
<1> QED
  BY <1>1, <1>2, <1>3, EnvironmentPreserves DEF StakedNext

-----------------------------------------------------------------------------

\* The inductive invariant of the vault: types, one admin, supply, solvency.
THEOREM StakedInvariant == StakedSpec => []StakedInv
<1>1. StakedInit => StakedInv
  BY InitialInv
<1>2. StakedInv /\ [StakedNext]_stakedVars => StakedInv'
  BY StakedNextPreserves
<1> QED
  BY <1>1, <1>2, PTL DEF StakedSpec

\* The vault's types hold in every reachable state.
THEOREM StakedTypes == StakedSpec => []StakedTypeOK
<1>1. StakedInv => StakedTypeOK
  BY DEF StakedInv, VaultInv, AccessInv, StakedTypeOK
<1> QED
  BY <1>1, StakedInvariant, PTL

\* The supply is always the sum of the balances.
THEOREM StakedSupply == StakedSpec => []SupplyIsBalances
<1>1. StakedInv => SupplyIsBalances
  BY DEF StakedInv, VaultInv
<1> QED
  BY <1>1, StakedInvariant, PTL

\* The avUSD the vault holds always covers what is still vesting, so that
\* totalAssets() and everything that calls it never reverts.
THEOREM StakedSolvency == StakedSpec => []Solvent
<1>1. StakedInv => Solvent
  BY DEF StakedInv, VaultInv
<1> QED
  BY <1>1, StakedInvariant, PTL

\* No step of the vault or of its environment lowers the price of a share.
THEOREM StakedPrice == StakedSpec => SharePriceNeverFalls
<1>1. StakedInv /\ [StakedNext]_stakedVars
         => [(TotalAssets + 1) * (totalSupply' + 1)
                <= (TotalAssets' + 1) * (totalSupply + 1)]_stakedVars
  BY StakedNextPreserves DEF PriceKept
<1> QED
  BY <1>1, StakedInvariant, PTL DEF StakedSpec, SharePriceNeverFalls

-----------------------------------------------------------------------------
(* What a transaction can be.  Every call that succeeds falls into one of    *)
(* six kinds, and the action properties below go through these kinds instead *)
(* of the calls one by one.                                                  *)

\* Rounding keeps an entry, or an exit, on the vault's side of the price, and
\* within one share and one unit of avUSD of it.
EntryFair(assets, shares) ==
    /\ shares * (TotalAssets + 1) <= assets * (totalSupply + 1)
    /\ (assets - 1) * (totalSupply + 1) < (shares + 1) * (TotalAssets + 1)

ExitFair(assets, shares) ==
    /\ assets * (totalSupply + 1) <= shares * (TotalAssets + 1)
    /\ (shares - 1) * (TotalAssets + 1) < (assets + 1) * (totalSupply + 1)

Enters(sender) ==
    \E receiver \in Address, assets \in Nat, shares \in Nat :
       EntryFair(assets, shares) /\ EnterVault(sender, receiver, assets, shares)

Leaves(sender) ==
    \E receiver \in Address, account \in Address, assets \in Nat, shares \in Nat :
       /\ ExitFair(assets, shares)
       /\ LeaveVault(sender, receiver, account, assets, shares)

\* A transfer by the holder or a spender, or the admin's rescue from the vault.
MovesShares(sender) ==
    \E from \in Address, to \in Address, shares \in Nat :
       /\ MoveShares(from, to, shares)
       /\ \/ from = sender
          \/ SpendAllowance(from, sender, shares)
          \/ from = Vault /\ HasRole(DEFAULT_ADMIN_ROLE, sender)
       /\ UNCHANGED <<accessVars, vestingVars, avUSD, now>>

Seizes(sender) ==
    \E from \in Address, to \in Address : RedistributeLockedAmount(sender, from, to)

Rewards(sender) == \E amount \in Nat : TransferInRewards(sender, amount)

\* Roles, approvals and the handover of the admin: no value moves.
MovesNothing == UNCHANGED <<balanceOf, totalSupply, vestingVars, avUSD, now>>

LEMMA EntryRounding ==
    ASSUME VaultInv, NEW x \in Nat
    PROVE  EntryFair(x, PreviewDeposit(x)) /\ EntryFair(PreviewMint(x), x)
<1> DEFINE T == TotalAssets + 1
           S == totalSupply + 1
<1>1. T \in Nat /\ T > 0 /\ S \in Nat /\ S > 0
  BY Views
<1> HIDE DEF T, S
<1>2. EntryFair(x, PreviewDeposit(x))
  <2> DEFINE shares == MulDivDown(x, S, T)
  <2>1. shares \in Nat /\ shares * T <= x * S /\ x * S < shares * T + T
    BY <1>1, MulDivDownBounds
  <2> HIDE DEF shares
  <2>2. (x - 1) * S < (shares + 1) * T
    BY <1>1, <2>1
  <2> USE DEF shares, T, S
  <2>3. shares = PreviewDeposit(x)
    BY DEF PreviewDeposit, SharesDown
  <2> HIDE DEF shares
  <2> QED
    BY <2>1, <2>2, <2>3 DEF EntryFair
<1>3. EntryFair(PreviewMint(x), x)
  <2> DEFINE assets == MulDivUp(x, T, S)
  <2>1. assets \in Nat /\ x * T <= assets * S /\ assets * S < x * T + S
    BY <1>1, MulDivUpBounds
  <2> HIDE DEF assets
  <2>2. (assets - 1) * S < (x + 1) * T
    BY <1>1, <2>1
  <2> USE DEF assets, T, S
  <2>3. assets = PreviewMint(x)
    BY DEF PreviewMint, AssetsUp
  <2> HIDE DEF assets
  <2> QED
    BY <2>1, <2>2, <2>3 DEF EntryFair
<1> QED
  BY <1>2, <1>3

LEMMA ExitRounding ==
    ASSUME VaultInv, NEW x \in Nat
    PROVE  ExitFair(x, PreviewWithdraw(x)) /\ ExitFair(PreviewRedeem(x), x)
<1> DEFINE T == TotalAssets + 1
           S == totalSupply + 1
<1>1. T \in Nat /\ T > 0 /\ S \in Nat /\ S > 0
  BY Views
<1> HIDE DEF T, S
<1>2. ExitFair(x, PreviewWithdraw(x))
  <2> DEFINE shares == MulDivUp(x, S, T)
  <2>1. shares \in Nat /\ x * S <= shares * T /\ shares * T < x * S + T
    BY <1>1, MulDivUpBounds
  <2> HIDE DEF shares
  <2>2. (shares - 1) * T < (x + 1) * S
    BY <1>1, <2>1
  <2> USE DEF shares, T, S
  <2>3. shares = PreviewWithdraw(x)
    BY DEF PreviewWithdraw, SharesUp
  <2> HIDE DEF shares
  <2> QED
    BY <2>1, <2>2, <2>3 DEF ExitFair
<1>3. ExitFair(PreviewRedeem(x), x)
  <2> DEFINE assets == MulDivDown(x, T, S)
  <2>1. assets \in Nat /\ assets * S <= x * T /\ x * T < assets * S + S
    BY <1>1, MulDivDownBounds
  <2> HIDE DEF assets
  <2>2. (x - 1) * T < (assets + 1) * S
    BY <1>1, <2>1
  <2> USE DEF assets, T, S
  <2>3. assets = PreviewRedeem(x)
    BY DEF PreviewRedeem, AssetsDown
  <2> HIDE DEF assets
  <2> QED
    BY <2>1, <2>2, <2>3 DEF ExitFair
<1> QED
  BY <1>2, <1>3

LEMMA CallKinds ==
    ASSUME StakedInv, NEW sender \in Caller, StakedCall(sender) \/ ExitCall(sender)
    PROVE  \/ Enters(sender)
           \/ Leaves(sender)
           \/ MovesShares(sender)
           \/ Seizes(sender)
           \/ Rewards(sender)
           \/ MovesNothing
<1>1. /\ VaultInv /\ sender \in Address /\ Vault \in Address /\ Zero \in Address
      /\ Amount \subseteq Nat /\ Recipient \subseteq Address
  BY StakedAssumption, AccessAssumption, AccountsAssumption DEF StakedInv
<1>2. CASE AccessCall(sender)
  BY <1>2 DEF AccessCall, MovesNothing, vaultVars, shareVars
<1>3. CASE ShareCall(sender)
  <2> SUFFICES ASSUME NEW amount \in Amount, NEW to \in Recipient,
                      \/ Deposit(sender, amount, to)
                      \/ Mint(sender, amount, to)
                      \/ Transfer(sender, to, amount)
                      \/ \E from \in Address : TransferFrom(sender, from, to, amount)
               PROVE  Enters(sender) \/ MovesShares(sender)
    BY <1>3 DEF ShareCall
  <2>1. amount \in Nat /\ to \in Address
    BY <1>1
  <2>2. CASE Deposit(sender, amount, to)
    <3>1. PreviewDeposit(amount) \in Nat /\ EntryFair(amount, PreviewDeposit(amount))
      BY <1>1, <2>1, Previews, EntryRounding
    <3> QED
      BY <2>1, <2>2, <3>1 DEF Deposit, Enters
  <2>3. CASE Mint(sender, amount, to)
    <3>1. PreviewMint(amount) \in Nat /\ EntryFair(PreviewMint(amount), amount)
      BY <1>1, <2>1, Previews, EntryRounding
    <3> QED
      BY <2>1, <2>3, <3>1 DEF Mint, Enters
  <2>4. CASE Transfer(sender, to, amount)
    BY <1>1, <2>1, <2>4 DEF Transfer, MovesShares
  <2>5. ASSUME NEW from \in Address, TransferFrom(sender, from, to, amount)
        PROVE  MovesShares(sender)
    BY <2>1, <2>5 DEF TransferFrom, MovesShares
  <2> QED
    BY <2>2, <2>3, <2>4, <2>5
<1>4. ASSUME NEW spender \in Spender, NEW shares \in Approval,
             Approve(sender, spender, shares)
      PROVE  MovesNothing
  BY <1>4 DEF Approve, MovesNothing
<1>5. CASE ManagerCall(sender)
  <2>1. ASSUME NEW amount \in Amount, TransferInRewards(sender, amount)
        PROVE  Rewards(sender)
    BY <1>1, <2>1 DEF Rewards
  <2>2. ASSUME NEW in \in RoleInput, NEW isFull \in BOOLEAN,
               \/ AddToBlacklist(sender, in[2], isFull)
               \/ RemoveFromBlacklist(sender, in[2], isFull)
        PROVE  MovesNothing
    BY <2>2 DEF AddToBlacklist, RemoveFromBlacklist, MovesNothing, vaultVars, shareVars
  <2>3. ASSUME NEW amount \in Amount, NEW to \in Recipient,
               RescueTokens(sender, amount, to)
        PROVE  MovesShares(sender)
    BY <1>1, <2>3 DEF RescueTokens, MovesShares
  <2>4. ASSUME NEW from \in Address, NEW to \in Recipient \cup {Zero},
               RedistributeLockedAmount(sender, from, to)
        PROVE  Seizes(sender)
    BY <1>1, <2>4 DEF Seizes
  <2> QED
    BY <1>5, <2>1, <2>2, <2>3, <2>4 DEF ManagerCall
<1>6. CASE ExitCall(sender)
  <2> SUFFICES ASSUME NEW amount \in Amount, NEW to \in Recipient, NEW account \in Address,
                      \/ Withdraw(sender, amount, to, account)
                      \/ Redeem(sender, amount, to, account)
               PROVE  Leaves(sender)
    BY <1>6 DEF ExitCall
  <2>1. amount \in Nat /\ to \in Address
    BY <1>1
  <2>2. CASE Withdraw(sender, amount, to, account)
    <3>1. PreviewWithdraw(amount) \in Nat /\ ExitFair(amount, PreviewWithdraw(amount))
      BY <1>1, <2>1, Previews, ExitRounding
    <3> QED
      BY <2>1, <2>2, <3>1 DEF Withdraw, Leaves
  <2>3. CASE Redeem(sender, amount, to, account)
    <3>1. PreviewRedeem(amount) \in Nat /\ ExitFair(PreviewRedeem(amount), amount)
      BY <1>1, <2>1, Previews, ExitRounding
    <3> QED
      BY <2>1, <2>3, <3>1 DEF Redeem, Leaves
  <2> QED
    BY <2>2, <2>3
<1> QED
  BY <1>2, <1>3, <1>4, <1>5, <1>6 DEF StakedCall

-----------------------------------------------------------------------------
(* Moving an amount between two entries of a table.                          *)

LEMMA MoveEntries ==
    ASSUME NEW table \in [Address -> Nat], NEW from \in Address, NEW to \in Address,
           NEW amount \in Nat, amount <= table[from], NEW a \in Address
    PROVE  /\ a \notin {from, to} => Move(table, from, to, amount)[a] = table[a]
           /\ a # from => Move(table, from, to, amount)[a] >= table[a]
           /\ from = to => Move(table, from, to, amount)[a] = table[a]
           /\ from # to => Move(table, from, to, amount)[from] = table[from] - amount
BY DEF Move

\* Only the side a movement takes from can lose shares or avUSD.
LEMMA EntryMoves ==
    ASSUME VaultTypeOK, NEW receiver \in Address, NEW caller \in Address,
           NEW assets \in Nat, NEW shares \in Nat,
           EnterVault(caller, receiver, assets, shares), NEW a \in Address
    PROVE  /\ balanceOf'[a] >= balanceOf[a]
           /\ a # receiver => balanceOf'[a] = balanceOf[a]
           /\ a # caller => avUSD'[a] >= avUSD[a]
<1>1. /\ balanceOf \in [Address -> Nat] /\ avUSD \in [Address -> Nat]
      /\ Vault \in Address
  BY StakedAssumption DEF VaultTypeOK
<1>2. /\ balanceOf' = [balanceOf EXCEPT ![receiver] = @ + shares]
      /\ avUSD' = Move(avUSD, caller, Vault, assets) /\ assets <= avUSD[caller]
  BY <1>1 DEF EnterVault, MintTo, MoveAvUSD
<1>3. a # caller => avUSD'[a] >= avUSD[a]
  BY <1>1, <1>2, MoveEntries
<1> QED
  BY <1>1, <1>2, <1>3

LEMMA ExitMoves ==
    ASSUME VaultTypeOK, NEW caller \in Address, NEW receiver \in Address,
           NEW account \in Address, NEW assets \in Nat, NEW shares \in Nat,
           LeaveVault(caller, receiver, account, assets, shares), NEW a \in Address
    PROVE  /\ a # account => balanceOf'[a] = balanceOf[a]
           /\ balanceOf'[account] = balanceOf[account] - shares
           /\ a # Vault => avUSD'[a] >= avUSD[a]
<1>1. /\ balanceOf \in [Address -> Nat] /\ avUSD \in [Address -> Nat]
      /\ Vault \in Address
  BY StakedAssumption DEF VaultTypeOK
<1>2. /\ balanceOf' = [balanceOf EXCEPT ![account] = @ - shares]
      /\ avUSD' = Move(avUSD, Vault, receiver, assets) /\ assets <= avUSD[Vault]
  BY <1>1 DEF LeaveVault, BurnFrom, MoveAvUSD
<1>3. a # Vault => avUSD'[a] >= avUSD[a]
  BY <1>1, <1>2, MoveEntries
<1> QED
  BY <1>1, <1>2, <1>3

\* A seizure empties the account it takes from, which is restricted, and gives
\* nothing to an account that is.
LEMMA SeizureMoves ==
    ASSUME VaultInv, NEW sender \in Address, NEW from \in Address, NEW to \in Address,
           RedistributeLockedAmount(sender, from, to), NEW a \in Address
    PROVE  /\ FullRestricted(from) /\ from # to
           /\ balanceOf'[from] = 0
           /\ a \notin {from, to} => balanceOf'[a] = balanceOf[a]
           /\ a # from => balanceOf'[a] >= balanceOf[a]
           /\ UNCHANGED avUSD
           /\ FullRestricted(a) => a # to
           /\ \/ UNCHANGED <<totalSupply, vestingVars>>
              \/ /\ totalSupply' = totalSupply - balanceOf[from]
                 /\ balanceOf[from] \in Nat /\ balanceOf[from] <= totalSupply
                 /\ UpdateVestingAmount(PreviewRedeem(balanceOf[from]))
<1>1. /\ balanceOf \in [Address -> Nat] /\ VaultTypeOK /\ SupplyIsBalances
      /\ balanceOf[from] \in Nat /\ balanceOf[from] <= balanceOf[from]
      /\ FullRestricted(from) /\ ~FullRestricted(to) /\ UNCHANGED avUSD
  BY DEF VaultInv, VaultTypeOK, RedistributeLockedAmount
<1>2. from # to /\ (FullRestricted(a) => a # to)
  BY <1>1
<1>3. CASE to = Zero
  <2>1. /\ BurnFrom(from, balanceOf[from])
        /\ UpdateVestingAmount(PreviewRedeem(balanceOf[from]))
    BY <1>3 DEF RedistributeLockedAmount
  <2>2. totalSupply' = totalSupply - balanceOf[from] /\ balanceOf[from] <= totalSupply
    BY <1>1, <2>1, SharesBurned
  <2>3. balanceOf' = [balanceOf EXCEPT ![from] = @ - balanceOf[from]]
    BY <2>1 DEF BurnFrom
  <2> QED
    BY <1>1, <1>2, <2>1, <2>2, <2>3
<1>4. CASE to # Zero
  <2>1. /\ balanceOf' = Move(balanceOf, from, to, balanceOf[from])
        /\ UNCHANGED <<totalSupply, vestingVars>>
    BY <1>4 DEF RedistributeLockedAmount
  <2>2. /\ balanceOf'[from] = balanceOf[from] - balanceOf[from]
        /\ a \notin {from, to} => balanceOf'[a] = balanceOf[a]
        /\ a # from => balanceOf'[a] >= balanceOf[a]
    BY <1>1, <1>2, <2>1, MoveEntries
  <2> QED
    BY <1>1, <1>2, <2>1, <2>2
<1> QED
  BY <1>3, <1>4

-----------------------------------------------------------------------------
(* The action properties, of one step.                                       *)

\* Neither a share nor the vesting schedule is touched.
Idle == UNCHANGED <<balanceOf, totalSupply, vestingVars>>

LEMMA StepKinds ==
    ASSUME StakedInv, [StakedNext]_stakedVars
    PROVE  \/ \E sender \in Caller : \/ Enters(sender)
                                     \/ Leaves(sender)
                                     \/ MovesShares(sender)
                                     \/ Seizes(sender)
                                     \/ Rewards(sender)
           \/ Idle
<1>1. CASE UNCHANGED stakedVars
  BY <1>1 DEF stakedVars, vaultVars, shareVars, Idle
<1>2. ASSUME NEW sender \in Caller, StakedCall(sender) \/ ExitCall(sender)
      PROVE  \/ Enters(sender) \/ Leaves(sender) \/ MovesShares(sender)
             \/ Seizes(sender) \/ Rewards(sender) \/ Idle
  BY <1>2, CallKinds DEF MovesNothing, Idle
<1>3. CASE AvUSDElsewhere(Address \ {Zero, Vault})
  BY <1>3, ElsewhereMoves DEF StakedInv, VaultInv, shareVars, Idle
<1>4. CASE Tick
  BY <1>4 DEF Tick, shareVars, Idle
<1> QED
  BY <1>1, <1>2, <1>3, <1>4 DEF StakedNext

\* What the action properties say of one step.
FairStep ==
    LET minted == totalSupply' - totalSupply
        paid   == avUSD'[Vault] - avUSD[Vault]
    IN  /\ minted > 0 =>
              (paid - 1) * (totalSupply + 1) < (minted + 1) * (TotalAssets + 1)
        /\ minted < 0 /\ paid < 0 =>
              (-minted - 1) * (TotalAssets + 1) < (-paid + 1) * (totalSupply + 1)

VestingStep ==
    vestingVars' # vestingVars =>
       TotalAssets' = TotalAssets - AssetsDown(totalSupply - totalSupply',
                                               totalSupply, TotalAssets)

DustStep ==
    ~Dust(totalSupply) /\ Dust(totalSupply') =>
       \E a \in Address : /\ FullRestricted(a)
                          /\ balanceOf'[a] = 0
                          /\ totalSupply' = totalSupply - balanceOf[a]

FrozenStep ==
    \A a \in Address :
       FullRestricted(a) /\ FullRestricted(a)' /\ balanceOf'[a] # balanceOf[a] =>
          /\ balanceOf'[a] = 0
          /\ \/ totalSupply' = totalSupply - balanceOf[a]
             \/ totalSupply' = totalSupply

\* A step that leaves the supply and the schedule alone owes nothing.
LEMMA SupplyKept ==
    ASSUME VaultInv, UNCHANGED totalSupply
    PROVE  FairStep /\ DustStep
BY Views DEF FairStep, DustStep

LEMMA EntrySteps ==
    ASSUME StakedInv, NEW sender \in Caller, Enters(sender)
    PROVE  FairStep /\ VestingStep /\ DustStep /\ FrozenStep
<1> PICK receiver \in Address, assets \in Nat, shares \in Nat :
       EntryFair(assets, shares) /\ EnterVault(sender, receiver, assets, shares)
  BY DEF Enters
<1>1. /\ VaultInv /\ VaultTypeOK /\ SupplyIsBalances
      /\ sender \in Address /\ sender # Vault /\ Vault \in Address
  BY StakedAssumption, AccessAssumption, AccountsAssumption DEF StakedInv, VaultInv
<1>2. /\ totalSupply' = totalSupply + shares /\ totalSupply \in Nat
      /\ avUSD'[Vault] = avUSD[Vault] + assets /\ avUSD[Vault] \in Nat
      /\ TotalAssets \in Nat
  <2>1. MoveAvUSD(sender, Vault, assets) /\ MintTo(receiver, shares)
    BY DEF EnterVault
  <2> QED
    BY <1>1, <2>1, SharesMinted, AvUSDMoved, Views
<1>3. FairStep
  <2>1. totalSupply' - totalSupply = shares /\ avUSD'[Vault] - avUSD[Vault] = assets
    BY <1>2
  <2> QED
    BY <1>2, <2>1 DEF FairStep, EntryFair
<1>4. VestingStep
  BY DEF VestingStep, EnterVault
<1>5. DustStep
  BY StakedAssumption, <1>2 DEF DustStep, Dust, EnterVault, CheckMinShares
<1>6. FrozenStep
  <2> SUFFICES ASSUME NEW a \in Address, FullRestricted(a)
               PROVE  balanceOf'[a] = balanceOf[a]
    BY DEF FrozenStep
  <2>1. a # receiver
    BY DEF EnterVault, MintTo, MayUpdate
  <2> QED
    BY <1>1, <2>1, EntryMoves
<1> QED
  BY <1>3, <1>4, <1>5, <1>6

LEMMA ExitSteps ==
    ASSUME StakedInv, NEW sender \in Caller, Leaves(sender)
    PROVE  FairStep /\ VestingStep /\ DustStep /\ FrozenStep
<1> PICK receiver \in Address, account \in Address, assets \in Nat, shares \in Nat :
       /\ ExitFair(assets, shares)
       /\ LeaveVault(sender, receiver, account, assets, shares)
  BY DEF Leaves
<1>1. /\ VaultInv /\ VaultTypeOK /\ SupplyIsBalances
      /\ sender \in Address /\ Vault \in Address
  BY StakedAssumption, AccessAssumption, AccountsAssumption DEF StakedInv, VaultInv
<1>2. /\ totalSupply' = totalSupply - shares /\ totalSupply \in Nat
      /\ totalSupply' \in Nat
      /\ avUSD'[Vault] = avUSD[Vault] - assets \/ avUSD'[Vault] = avUSD[Vault]
      /\ avUSD[Vault] \in Nat /\ TotalAssets \in Nat
  <2>1. MoveAvUSD(Vault, receiver, assets) /\ BurnFrom(account, shares)
    BY DEF LeaveVault
  <2> QED
    BY <1>1, <2>1, SharesBurned, AvUSDMoved, Views
<1>3. FairStep
  <2>1. totalSupply' - totalSupply = -shares
    BY <1>2
  <2>2. CASE avUSD'[Vault] = avUSD[Vault]
    BY <1>2, <2>1, <2>2 DEF FairStep
  <2>3. CASE avUSD'[Vault] = avUSD[Vault] - assets
    <3>1. avUSD'[Vault] - avUSD[Vault] = -assets
      BY <1>2, <2>3
    <3>2. -(-shares) = shares /\ -(-assets) = assets /\ ~(-shares > 0)
      OBVIOUS
    <3> QED
      BY <2>1, <3>1, <3>2 DEF FairStep, ExitFair
  <2> QED
    BY <1>2, <2>2, <2>3
<1>4. VestingStep
  BY DEF VestingStep, LeaveVault
<1>5. DustStep
  BY StakedAssumption, <1>2 DEF DustStep, Dust, LeaveVault, CheckMinShares
<1>6. FrozenStep
  <2> SUFFICES ASSUME NEW a \in Address, FullRestricted(a)
               PROVE  balanceOf'[a] = balanceOf[a]
    BY DEF FrozenStep
  <2>1. a # account
    BY DEF LeaveVault, MayLeave
  <2>2. a # account => balanceOf'[a] = balanceOf[a]
    BY <1>1, ExitMoves
  <2> QED
    BY <2>1, <2>2
<1> QED
  BY <1>3, <1>4, <1>5, <1>6

LEMMA ShareMoveSteps ==
    ASSUME StakedInv, NEW sender \in Caller, MovesShares(sender)
    PROVE  FairStep /\ VestingStep /\ DustStep /\ FrozenStep
<1> PICK from \in Address, to \in Address, shares \in Nat :
       MoveShares(from, to, shares) /\ UNCHANGED vestingVars
  BY DEF MovesShares
<1>1. /\ VaultInv /\ balanceOf \in [Address -> Nat] /\ shares <= balanceOf[from]
      /\ balanceOf' = Move(balanceOf, from, to, shares)
      /\ UNCHANGED totalSupply
  BY DEF StakedInv, VaultInv, VaultTypeOK, MoveShares
<1>2. FairStep /\ VestingStep /\ DustStep
  BY <1>1, SupplyKept DEF VestingStep
<1>3. FrozenStep
  <2> SUFFICES ASSUME NEW a \in Address, FullRestricted(a)
               PROVE  balanceOf'[a] = balanceOf[a]
    BY DEF FrozenStep
  <2>1. a \notin {from, to}
    BY DEF MoveShares, MayUpdate
  <2> QED
    BY <1>1, <2>1, MoveEntries
<1> QED
  BY <1>2, <1>3

LEMMA SeizureSteps ==
    ASSUME StakedInv, NEW sender \in Caller, Seizes(sender)
    PROVE  FairStep /\ VestingStep /\ DustStep /\ FrozenStep
<1> PICK from \in Address, to \in Address : RedistributeLockedAmount(sender, from, to)
  BY DEF Seizes
<1>1. /\ VaultInv /\ sender \in Address /\ Vault \in Address
      /\ avUSD[Vault] \in Nat /\ totalSupply \in Nat /\ TotalAssets \in Nat
      /\ avUSD[Vault] = TotalAssets + UnvestedAmount
  BY StakedAssumption, AccessAssumption, AccountsAssumption, Views DEF StakedInv
<1> DEFINE shares == balanceOf[from]
<1>2. /\ FullRestricted(from) /\ from # to /\ balanceOf'[from] = 0
      /\ UNCHANGED avUSD /\ UNCHANGED now
  BY <1>1, SeizureMoves DEF RedistributeLockedAmount
<1>3. \/ UNCHANGED <<totalSupply, vestingVars>>
      \/ /\ totalSupply' = totalSupply - shares
         /\ shares \in Nat /\ shares <= totalSupply
         /\ UpdateVestingAmount(PreviewRedeem(shares))
  BY <1>1, SeizureMoves
<1>4. FrozenStep
  <2> SUFFICES ASSUME NEW a \in Address, FullRestricted(a), a # from
               PROVE  balanceOf'[a] = balanceOf[a]
    BY <1>2, <1>3 DEF FrozenStep
  <2>1. FullRestricted(a) => a # to
    BY <1>1, SeizureMoves
  <2>2. a \notin {from, to} => balanceOf'[a] = balanceOf[a]
    BY <1>1, SeizureMoves
  <2> QED
    BY <2>1, <2>2
<1>5. CASE UNCHANGED <<totalSupply, vestingVars>>
  BY <1>1, <1>4, <1>5, SupplyKept DEF VestingStep
<1>6. CASE /\ totalSupply' = totalSupply - shares
           /\ shares \in Nat /\ shares <= totalSupply
           /\ UpdateVestingAmount(PreviewRedeem(shares))
  <2>1. FairStep
    <3>1. avUSD'[Vault] - avUSD[Vault] = 0 /\ ~(totalSupply' - totalSupply > 0)
      BY <1>1, <1>2, <1>6
    <3> QED
      BY <3>1 DEF FairStep
  <2>2. DustStep
    BY <1>2, <1>6 DEF DustStep
  <2>3. VestingStep
    <3>1. PreviewRedeem(shares) \in Nat
      BY <1>1, <1>6, Previews
    <3>2. UnvestedAmount = 0 /\ UnvestedAmount' = PreviewRedeem(shares)
      BY <1>1, <1>2, <1>6, <3>1, NewDistribution
    <3>3. TotalAssets' = TotalAssets - PreviewRedeem(shares)
      BY <1>1, <1>2, <3>2 DEF TotalAssets
    <3>4. totalSupply - totalSupply' = shares
      BY <1>1, <1>6
    <3> QED
      BY <3>3, <3>4 DEF VestingStep, PreviewRedeem
  <2> QED
    BY <1>4, <2>1, <2>2, <2>3
<1> QED
  BY <1>3, <1>5, <1>6

LEMMA RewardSteps ==
    ASSUME StakedInv, NEW sender \in Caller, Rewards(sender)
    PROVE  FairStep /\ VestingStep /\ DustStep /\ FrozenStep
<1> PICK amount \in Nat : TransferInRewards(sender, amount)
  BY DEF Rewards
<1>1. /\ VaultInv /\ VaultTypeOK /\ sender \in Address /\ sender # Vault
      /\ Vault \in Address
      /\ avUSD[Vault] \in Nat /\ totalSupply \in Nat /\ TotalAssets \in Nat
      /\ avUSD[Vault] = TotalAssets + UnvestedAmount
  BY StakedAssumption, AccessAssumption, AccountsAssumption, Views DEF StakedInv, VaultInv
<1>2. /\ UpdateVestingAmount(amount) /\ MoveAvUSD(sender, Vault, amount)
      /\ UNCHANGED <<balanceOf, totalSupply>> /\ UNCHANGED now
  BY DEF TransferInRewards, shareVars
<1>3. FairStep /\ DustStep /\ FrozenStep
  BY <1>1, <1>2, SupplyKept DEF FrozenStep
<1>4. UnvestedAmount = 0 /\ UnvestedAmount' = amount
  BY <1>1, <1>2, NewDistribution
<1>5. avUSD'[Vault] = avUSD[Vault] + amount
  BY <1>1, <1>2, AvUSDMoved
<1>6. TotalAssets' = TotalAssets
  BY <1>1, <1>4, <1>5 DEF TotalAssets
<1>7. AssetsDown(totalSupply - totalSupply', totalSupply, TotalAssets) = 0
  <2>1. totalSupply - totalSupply' = 0 /\ totalSupply + 1 > 0
    BY <1>1, <1>2
  <2>2. 0 * (TotalAssets + 1) = 0
    BY <1>1
  <2>3. 0 \div (totalSupply + 1) = 0
    BY <1>1
  <2> QED
    BY <2>1, <2>2, <2>3 DEF AssetsDown, MulDivDown
<1>8. VestingStep
  BY <1>1, <1>6, <1>7 DEF VestingStep
<1> QED
  BY <1>3, <1>8

LEMMA StepProperties ==
    ASSUME StakedInv, [StakedNext]_stakedVars
    PROVE  FairStep /\ VestingStep /\ DustStep /\ FrozenStep
<1>1. CASE Idle
  BY <1>1, SupplyKept DEF Idle, StakedInv, VestingStep, FrozenStep
<1> QED
  BY <1>1, StepKinds, EntrySteps, ExitSteps, ShareMoveSteps, SeizureSteps, RewardSteps

-----------------------------------------------------------------------------

\* Rounding costs nobody more than a share and a unit of avUSD: what enters for
\* new shares, or is paid for burned ones, is that close to the price.
THEOREM StakedFairExchange == StakedSpec => FairExchange
<1>1. StakedInv /\ [StakedNext]_stakedVars => [FairStep]_stakedVars
  BY StepProperties
<1>2. [][FairStep]_stakedVars => FairExchange
  BY PTL DEF FairStep, FairExchange
<1> QED
  BY <1>1, <1>2, StakedInvariant, PTL DEF StakedSpec

\* A distribution and a seizure for the stakers leave totalAssets() where it was,
\* but for the value of the burned shares: there is no jump to be captured.
THEOREM StakedRewardsVest == StakedSpec => RewardsVestWithoutJump
<1>1. StakedInv /\ [StakedNext]_stakedVars => [VestingStep]_stakedVars
  BY StepProperties
<1>2. [][VestingStep]_stakedVars => RewardsVestWithoutJump
  BY PTL DEF VestingStep, RewardsVestWithoutJump
<1> QED
  BY <1>1, <1>2, StakedInvariant, PTL DEF StakedSpec

\* The supply falls below MIN_SHARES only when the admin burns the balance of a
\* restricted account.
THEOREM StakedDust == StakedSpec => DustOnlyByRedistribution
<1>1. StakedInv /\ [StakedNext]_stakedVars => [DustStep]_stakedVars
  BY StepProperties
<1>2. [][DustStep]_stakedVars => DustOnlyByRedistribution
  BY PTL DEF DustStep, DustOnlyByRedistribution
<1> QED
  BY <1>1, <1>2, StakedInvariant, PTL DEF StakedSpec

\* A step that burns all shares of a and pays it what they are worth. It says of each
\* variable what it becomes, so that every state has such a successor.
Exit(a) ==
    /\ balanceOf' = [balanceOf EXCEPT ![a] = @ - balanceOf[a]]
    /\ totalSupply' = totalSupply - balanceOf[a]
    /\ avUSD' = Move(avUSD, Vault, a, PreviewRedeem(balanceOf[a]))
    /\ UNCHANGED <<accessVars, allowance, vestingVars, now>>

LEMMA ExitIsRedeem ==
    ASSUME StakedInv, NEW a \in Caller, MayExit(a), Exit(a)
    PROVE  Redeem(a, balanceOf[a], a, a)
<1> DEFINE b == balanceOf[a]
           p == PreviewRedeem(b)
<1>1. /\ VaultTypeOK /\ SupplyIsBalances /\ Solvent /\ balanceOf \in [Address -> Nat]
      /\ totalSupply \in Nat
      /\ a \in Address /\ a # Zero /\ Vault # Zero /\ IsFiniteSet(Address)
  BY StakedAssumption, AccessAssumption, AccountsAssumption DEF StakedInv, VaultInv, VaultTypeOK
<1>2. /\ avUSD[Vault] \in Nat /\ TotalAssets \in Nat /\ UnvestedAmount \in Nat
      /\ avUSD[Vault] = TotalAssets + UnvestedAmount
  BY <1>1, Views DEF StakedInv, VaultInv
<1>3. b \in Nat /\ b <= totalSupply
  BY <1>1, TotalBounds DEF SupplyIsBalances
<1>4. p \in Nat /\ p * (totalSupply + 1) <= b * (TotalAssets + 1)
  BY <1>1, <1>3, Previews DEF StakedInv, VaultInv
<1>5. avUSD[Vault] >= p
  <2>1. p <= TotalAssets
    BY <1>1, <1>2, <1>3, <1>4, ValueBelowTotal
  <2> QED
    BY <1>2, <1>4, <2>1
<1>6. CheckMinShares(totalSupply')
  <2>1. totalSupply' = totalSupply - b /\ totalSupply - b \in Nat
    BY <1>1, <1>3 DEF Exit
  <2> QED
    BY <2>1, StakedAssumption DEF MayExit, Dust, CheckMinShares
<1>7. b <= MaxRedeem(a) /\ b # 0 /\ p # 0
  BY <1>3, <1>4 DEF MaxRedeem, MayExit
<1>8. BurnFrom(a, b)
  BY <1>1, <1>3 DEF BurnFrom, MayUpdate, MayExit, Exit
<1>9. MoveAvUSD(Vault, a, p)
  BY <1>1, <1>5 DEF MoveAvUSD, Exit
<1> QED
  BY <1>6, <1>7, <1>8, <1>9 DEF Redeem, LeaveVault, MayLeave, MayExit, Exit

\* Whatever others do, the exit of a holder not fully restricted that leaves no dust passes
\* every check of redeem: the vault holds what it pays (StakedAvUSD.sol 217-236).
THEOREM ExitPassesChecks ==
    StakedSpec => [][\A a \in Caller : MayExit(a) /\ Exit(a)
                                          => Redeem(a, balanceOf[a], a, a)]_stakedVars
<1> DEFINE A == \A a \in Caller : MayExit(a) /\ Exit(a) => Redeem(a, balanceOf[a], a, a)
<1>1. StakedInv => A
  BY ExitIsRedeem
<1> HIDE DEF A
<1>2. StakedInv /\ [StakedNext]_stakedVars => [A]_stakedVars
  BY <1>1
<1>3. StakedSpec => [][A]_stakedVars
  BY <1>2, StakedInvariant, PTL DEF StakedSpec
<1> QED
  BY <1>3 DEF A

\* The shares of a fully restricted account stay, or go all at once.
THEOREM StakedFrozenBalance == StakedSpec => FrozenBalance
<1>1. StakedInv /\ [StakedNext]_stakedVars => [FrozenStep]_stakedVars
  BY StepProperties
<1>2. [][FrozenStep]_stakedVars => FrozenBalance
  BY PTL DEF FrozenStep, FrozenBalance
<1> QED
  BY <1>1, <1>2, StakedInvariant, PTL DEF StakedSpec

=============================================================================
