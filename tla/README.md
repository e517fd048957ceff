# TLA+ models of the avUSD contracts

This directory holds TLA+ specifications of the Solidity contracts under
`src/contracts`, TLC configurations that model-check them on small instances,
and theorems about them that TLAPS checks for every value of the constants.
One action of a specification is one transaction that succeeds. A call that
reverts changes nothing and is not a step. "OZ" is OpenZeppelin Contracts 5,
a git submodule that is not part of the repository: what the contracts inherit
from it is modelled from how they use it and marked external in `PROJECT.json`.
The repository does hold `lib/openzeppelin-contracts-upgradeable` (the "vendored
library"), an older release with its JavaScript sources: the templates its data
structures are generated from, and scripts. Templates and the prover script are
modelled too.

## 1. The system

| Component | State it keeps | Operations | Works with |
|---|---|---|---|
| `SingleAdminAccessControl` | role members, `_currentDefaultAdmin`, `_pendingDefaultAdmin` | `transferAdmin`, `acceptAdmin`, `grantRole`, `revokeRole`, `renounceRole` | base of the staking vault and of both minting contracts |
| `AvUSD` | ERC-20 balances, supply, allowances; `minter`; owner and pending owner | ERC-20, `burn`, `burnFrom`, `permit`, `mint`, `setMinter`, two-step ownership | minted and burned by the minting contract, staked in the vault |
| `AvUSDMintingV2` | supported assets, custodians, nonce bitmaps, delegated signers, per-block counters and limits, `stablesDeltaLimit`, its collateral | `mint`, `redeem`, limits, delegation, `transferToCustody`, lists of assets and custodians, gatekeeper removals | calls `AvUSD.mint`/`burnFrom`, moves collateral between benefactors, custodians and itself |
| `AvUSDMinting` (V1) | as V2, without the price check and contract wallets | as V2; mints paid in WAVAX are unwrapped and reach custodians as native coins | superseded by V2; calls `WETH9` |
| `WETH9` | wrapped balances, allowances, its native coins | `deposit`, `withdraw`, `approve`, `transfer`, `transferFrom` | V1 unwraps what benefactors pay with |
| `StakedAvUSD` | savUSD balances, supply, allowances; `vestingAmount`, `lastDistributionTimestamp` | ERC-4626 entry and exit, ERC-20, rewards, blacklist, seizure, rescue | holds avUSD; access control |
| `StakedAvUSDV2`, `AvUSDSilo` | `cooldowns`, `cooldownDuration`; the silo's avUSD | `cooldownAssets`, `cooldownShares`, `unstake`, `setCooldownDuration`, gated `withdraw`/`redeem` | the vault redeems into the silo and pays out of it |
| `EnumerableSet`, `EnumerableMap`, `Checkpoints`, `SafeCast` (templates) | an array and a table of positions; values of keys; an array of checkpoints | `add`, `remove`, `at`, `values`; `set`, `tryGet`, `get`; `push`, lookups; casts | the minting contracts keep assets and custodians in such sets; the map is built on the set |
| `certora/run.js` | queue and pool of child processes, output table, exit code | start, output and end of children, report | runs the prover on the library's specs |
| `TestnetERC20`, mocks, `lib/math`, `TransferHelper`, interfaces, deployment and other scripts | - | - | not part of the deployed protocol, or without behaviour of their own |

**What is hard.** Everything on chain is sequential, but the order of calls is
not: any account may call at any moment and several calls share a timestamp.
The hard behaviours are therefore long sequences of legal calls by different
actors: rewards that vest while stakers enter and leave; rounding repeated many
times; restrictions added and lifted between two steps of the same staker;
seizures whose two halves must agree; claims that are added to, claimed, and
re-timed by an admin who changes the duration; an admin role handed over in two
steps; signed orders replayed, delegated signers revoked, limits lowered in
mid-block. In the vendored library they are long sequences of calls that keep two
stores consistent, searches at the borders, and child processes that end in any
order. `PROJECT.json` lists them line by line under `hazards`.

**What makes each component correct.**

* Access control: one admin at all times, recorded consistently in two places,
  handed over only to the account the admin nominated last.
* Vault: the share price never falls; rewards still vesting are covered and
  accrue with time only; supply is the sum of the balances; frozen shares stay;
  nobody but the admin's restriction can block an exit; value leaves an account
  only on its own word.
* Cooldown vault: pending claims are backed by the silo, bounded in time, paid
  once and whole, and paid eventually; the whole remains a correct vault.
* Minting: an order executes at most once, on the word of its benefactor or a
  delegate it trusts, within the limits, moving the whole collateral, never
  cheaper than the allowed delta. In V1, without a price check, the block limits are
  all that bounds what orders issue, so every order is counted; and every WAVAX stays
  backed by a native coin.
* Structures: a set, a map and a history are what their interfaces promise,
  whatever they do inside; casts are exact or revert.
* Prover script: exit code 0 means that all that was asked for was verified.

## 2. The modules

| Module | Models |
|---|---|
| `Accounts` | the addresses, callers and the infinite allowance all contracts share, and what is assumed of them |
| `SingleAdmin` | abstract: a role with exactly one holder, handed over by nomination and acceptance |
| `SingleAdminAccessControl` | the contract; `HandoverPromise` is the refinement of `SingleAdmin` |
| `VaultMath`, `Powers` | sums of tables, `mulDiv`, the ERC-4626 conversions; powers as a recursive function |
| `StakedAvUSD` | the vault; EXTENDS `SingleAdminAccessControl` and `VaultMath` |
| `StakedAvUSDV2` | the cooldown vault and the silo; EXTENDS `StakedAvUSD`; `ImplementsStakedAvUSD` is its refinement of the plain vault |
| `AvUSD` | the token; `OwnershipPromise` is a second refinement of `SingleAdmin` |
| `AvUSDSystem` | token, cooldown vault and silo as deployed together, with a history variable `msgSender`; `ImplementsParts` is its refinement of both parts |
| `OrderExecution` | abstract: an order, named by benefactor and nonce, executes at most once; between executions the supply only falls while the contract is the issuer, and no execution issues while it is not |
| `AvUSDMintingV2` | the minting contract composed with access control and the token; `ImplementsOrderExecution` refines `OrderExecution` |
| `AvUSDMinting` | V1 and `WETH9`; EXTENDS `AvUSDMintingV2` for what both versions share word for word |
| `AbstractSet`, `AbstractMap` | abstract: a set and a partial function with their calls |
| `SafeCast` | casts and the conversions between words and typed values |
| `EnumerableSet`, `EnumerableMap` | the set of words with swap-and-pop, the map over it; `ImplementsSet` and `ImplementsMap` are their refinements |
| `Checkpoints` | traces and histories, with the bookkeeping of the generated tests as variables |
| `CertoraRun` | `certora/run.js` with its children |
| `AvUSDMintingV2History` | the minting contract with history variables for sender, signer, trust, turnover, stops and dismissals |
| `MC*` | instances for TLC |
| `*Proofs` | theorems and lemmas |

Definitions whose comment begins "Mutant of" are plausible bugs; no specification
uses them. Every property has one that breaks it, named in `PROJECT.json`.

### Correspondence

`SingleAdminAccessControl`: `members[r]` is the OZ role table; the actions carry
the names of the functions. `GrantRoleInternal` is the overridden `_grantRole`,
which every grant of every inheriting contract goes through.

`StakedAvUSD`: `balanceOf`, `totalSupply` and `allowance` are savUSD, `avUSD` is
the balance table of the asset, `now` is `block.timestamp`. `EnterVault` and
`LeaveVault` are `_deposit` and `_withdraw` with everything they call: the role
checks, the token transfer, the mint or burn with the hook `_update`
(`MayUpdate`), the allowance and `_checkMinShares` on the resulting supply. The
prices are computed on the state before the call, as the OZ functions do.
`RedistributeLockedAmount` is the seizure, its burn and the mint or the new
distribution in one step. `permit` is `Approve`: the signature is the owner's
call. `AvUSDElsewhere` is what happens to avUSD in calls of the token that do not
come from the vault: transfers, a donation to the vault among them, issue by the
minter, and burning by holders. The vault's own avUSD is out of its reach, and in
`StakedAvUSDV2` the silo's too; `AvUSDSystem` shows why that may be assumed.
`renounceRole` reverts in the vault, so `AccessCall` leaves it out.

`StakedAvUSDV2`: `cooldowns[a]` is the struct; `% UINT152` is the truncating
cast, and the checked addition a guard. The silo is an address whose avUSD moves
only by `SiloWithdraw`, that is, only in `Unstake` (`onlyStakingVault`).

`AvUSDSystem`: `avUSD` is now the token's balance table, and supply, allowances,
minter and owner are variables beside it. `VaultCall` is a call of the cooldown vault
together with what it asks of the token: if the sender's avUSD falls, `PaysToken` is
the `transferFrom` by which the vault pulls it, with the allowance it needs and uses
up; payments of the vault and the silo are transfers of their own balance. `TokenCall`
is a call of the token by any account, the minter included. `msgSender` remembers who
sent the last transaction. Only accounts that can call - not the vault, not the silo -
approve; that the contracts have no code that approves is what `Caller` says.

`AvUSD`: the operations carry the prefix `AvUSD` because minting and vault have
functions of the same names. The first argument is `msg.sender`, so that the
same operation serves a holder's call (`AvUSDCall`) and a call by the minting
contract (`AvUSDMint`, `AvUSDBurnFrom`, `AvUSDTransfer` with `Minting` as sender).
`MinterCall` stands for a minter that is an account and mints at will, up to
`MaxAvUSD`. Both compositions use it: the owner of the token may replace the minter
at any moment, the minting contract included, and put it back. The properties of
mints say so: while the contract is the minter, only paid orders raise the supply.
V1 keeps a history variable, `elsewhere`, of what calls of the token added to the
supply (or burned, as a negative number); it guards nothing.

`AvUSDMintingV2`: `Mint` and `Redeem` have the order of the code: the modifier's
counter, the checks of order and route, the nonce, and the transfers, in one
atomic step, because a revert undoes all of it. `orderBitmaps[b][slot]` is the set
of bits of a 256-bit word that are set; `Slot` and `Bit` are the shift and the
mask of `verifyNonce`, with 256 and 2^64 as constants `BITS` and `UINT64`.
`TransferCollateral` makes one transfer after the other from the table the
previous one left. `collateral` is the balance table of every collateral asset,
the native coin included. `RemoveRole` is the three removal functions of the
gatekeeper, which bypass `revokeRole` and its admin check.

`AvUSDMinting`: the WAVAX balances are `collateral[WAVAX]`, the coins of the WETH9
contract the native balance of its address. `TransferEthCollateral` is
`_transferEthCollateral`: the transfer of the WAVAX, the unwrapping and all sends;
because one refusing recipient reverts all, and the coins just unwrapped cover the
sends, their order is immaterial and the table after them is given at once
(`PaidTo` adds up what a route pays to an account it names twice). A recipient that
refuses native coins is one outside `Payable`.

`EnumerableSet`, `EnumerableMap`: words are `0 .. WORDS - 1`; `Inner...` are the
functions on words, the others the typed ones with their conversions, for a type
that is a constant. `result` is what the last call returned. The contracts on chain
treat `supportedAssets` and `custodianAddresses` as sets; `SetRefines` is the reason
the minting modules may.

`Checkpoints`: `flavour` chooses between a trace, whose keys the caller gives, and
a history, whose keys are block numbers. Beside the array the state holds what the
template of the tests (`Checkpoints.t.js`) keeps: the number of pushes and of
repeated keys, the last push, and for each key the value that an upper and a lower
lookup should find, updated push by push as the tests do. `LookupsAsTracked` and
`PushesAsCounted` are the assertions of those tests, in every state. `push` returns
two values nobody keeps; they are left out. `Sqrt` is given by what it computes.

`SafeCast`: `operand` is the argument of a cast, and every value of the widest types
may be the next one. `TwoTo` is a table of powers of two, evaluated once.

`CertoraRun`: a step is what the script does between two awaits, or a step of a
child. All jobs enter the queue at once and in the order of `specs.json`, so that the
queue is a set of positions and its first element the least of them. `OnExit` ends the stream and loses output that is still in the pipe, because
`exit` may precede the last data; the row then has no link. A child that cannot be
started makes an await reject, and the unhandled rejection ends the script.

### What is abstracted

* In `StakedAvUSD` and `StakedAvUSDV2` stakers and the rewarder have approved the
  vault for the avUSD they send it; in `AvUSDSystem` the allowance is modelled.
  Benefactors have approved the minting contract for the collateral of orders.
* A signature is a record of its type and of the account it recovers to. Nothing
  is assumed about which orders an account signed: every signature of the
  instance may come with every order, so that consent is decided by the checks
  of `verifyOrder` alone. A contract wallet answers `isValidSignature` for itself.
* `block.timestamp` in `verifyOrder` is counted in blocks.
* All entry points that call out are `nonReentrant`, or do so last, so that a call
  back is a later transaction of the model. Collateral tokens move what they are
  asked to move; tokens with fees on transfer are outside the model.
* `rescueTokens` of the vault is modelled for savUSD; other tokens have no state.
* A signature recovers to an account that has a key or answers `isValidSignature`; the
  minting contract does neither, so that no signature is its own.
* In V1 neither custodians nor beneficiaries are the WAVAX contract itself, whose
  `receive` would wrap the coins again; `DeltaInput` is empty, as V1 has no delta limit.
* Events, names, `decimals` of savUSD and EIP-712 hashing are left out.
* 256-bit overflow of balances is left out: amounts are naturals, and the total
  in the model bounds them. The uint152 cast is kept.
* `uint104(block.timestamp)` is exact for every time before the year 10^23.

### Bounds

`Amount`, `Approval`, `Recipient`, `Spender`, `RoleInput`, `AdminInput`,
`DurationInput`, `OrderInput`, `RouteInput` and the other constants ending in
`Input` are the inputs of calls; `MaxTime` and `MaxBlock` bound the clock and the
block number; `MaxAvUSD` bounds the avUSD in existence where a minter that is an
account mints it (orders have no such bound), and `Issuance` holds the amounts it issues and holders burn. The
modules of the vault start from `InitialAvUSD`, the composition from nothing. In the cooldown module a cooldown that
would end after `MaxTime` is not explored, so that every claim of the model can
end inside it. Orders bound the supply of the minting module by themselves: each
executes once. In the structures the widths of words, keys and values, the key gap
of the tests (`KEY_MAX_GAP`), `MaxBlockNumber` and `MaxDuplicates` are the bounds.
A key type is used up after finitely many keys, so that a behaviour of checkpoints
may stop; only this run does without the deadlock check.

## 3. The runs

| Run | Instance | What it shows |
|---|---|---|
| `staking` | two stakers with 3 avUSD each, `olga`, who is rewarder and manager too, and `bob`, who may let her spend; the vault may own shares and be given avUSD; vesting period 2, time 2 to 4, minimum supply 2, amounts up to 3; `bob` and address(0) may be restricted | the inductive invariant of the vault (types, one admin, supply, solvency); price never falls, seizures included; exchanges within one unit of the price; rewards never jump; a holder that is not fully restricted can always leave; dust only by seizure; frozen shares stay |
| `system` | token, vault and silo; olga, the first admin, stakes and may be frozen; alice spends for her, manages the blacklist and becomes admin; amounts 1 and 2, at most 2 avUSD; an infinite and a finite allowance; cooldown on, then off; time 1 to 2 | the inductive invariant (those of vault and token, and no allowance by a contract); every transaction is a step of each part; value moves on the owner's word only; only the admin can restrict itself |
| `cooldown` | at most 3 avUSD, issued and burned one by one, and UINT152 = 4, time 1 to 4, durations 0, 1 and 3 (refused), alice may be frozen, fairness | the inductive invariant (that of the vault, avUSD bounded, claims backed by the silo, waiting bounded); avUSD leaves only as claims; claims settle once and whole and are paid in the end unless their owner is fully restricted; implements `StakedAvUSD` |
| `minting_orders` | two mints of alice that share a bit, one redemption that shares a slot and one that shares a nonce with a mint, one that asks too much, a mint of a contract wallet that is a custodian too; routes with remainders, one with too few ratios, one to a non-custodian; decimals 0, 1 and 2; delta limit 0 then 9.09 %; 2 blocks; a custodian removed and added; olga made the minter in between, who issues up to 1 avUSD | types; each order executes once; mints are paid in full to custodians within the price limit; collateral leaves only to custodians or for burned avUSD |
| `minting_roles` | minting contract, access control and token composed: admin handover and token handover olga -> alice, roles granted, revoked, renounced and removed, the minter replaced by alice, who mints herself up to 2 avUSD, and put back; avUSD minted by an order, moved, approved and burned | the inductive invariant: `owner()` is the only holder of the admin role and never its own nominee, supply is the sum of the balances, bitmaps have their shape; both handovers implement `SingleAdmin` in the composed system |
| `minting_v1` | mints of 4 WAVAX and 2 dai, redemptions, routes that name a custodian twice and the contract itself, wrapping, approving and moving WAVAX in between, to oneself too; 4 native coins in the contract; olga made the minter, who issues 1 avUSD; limits changed; a custodian removed; 2 blocks | WAVAX stays backed; what orders issue is what the counters of the blocks hold; mints are paid whole, natively for WAVAX, and not by the contract's own coins |
| `minting_trust` | orders for alice signed by dora, delegation offered, confirmed, withdrawn in both directions; limits lowered, raised, disabled in 2 blocks; dora granted and dismissed | orders execute on a trusted word only; turnover stays within the limit in force; stops and dismissals hold |
| `vendored` | set and map over words of 4 bits with 4 inputs, addresses among them; casts from words of 4 bits to 1, 2 and 3 bits and between signed and unsigned, of every operand; traces of 3-bit keys (up to 8 checkpoints, beyond the split at 5) and histories up to block 9; the prover script with 3 jobs, 2 at a time, under 10 requests | set and map implement their abstractions and their readers agree; casts are exact; keys ascend, lookups and counts are those of the tests, the past is fixed; the exit code tells the truth and every job is reported |
| `dust_supply`, `soft_withdraw`, `full_unstake`, `native_redeem` | instances of the same modules | four statements of comments and README that the code does not keep |

The bounds are small, but every mechanism needs only a few units: two stakers
give every sharing of rounding losses, amounts up to 3 against 6 give prices
that are not whole numbers, a whole vesting period fits in the clock, with a distribution
before and after it, and two
recipients with one restricted account give all pairs of restricted and free.
Slots of 2 bits and nonces 1 to 4 give every relation two nonces can have: same
slot, same bit, both, neither. One avUSD decimal against 0 and 2 gives scaling up
and scaling down with a loss, and ratios 1:2 of 29 units a remainder. The proofs
remove the bounds for the statements they cover. Deadlock is checked in every
run but `vendored`, and no reachable state of those is without a step.

**Fairness** (`FairSpecV2` and `PoolSpec`). `WF(Tick)`: the chain keeps producing blocks,
until the clock's bound. `WF(Unstake(a, a))` for each staker: an account that
wants its claim keeps calling `unstake` for itself. Nothing is assumed of the
admin, the manager or other accounts. A staker who starts further cooldowns
postpones its own claim; in the model time ends that, on chain its own choice.
`WF(Progress)` of the script: the event loop goes on and each child ends some day;
nothing is assumed of a child's output or of its result. `unstake` looks at no role, so
that the model pays the claims of restricted stakers too; the contract promises no such
thing, and the property excepts them.

**History variables.** `minting_trust` compares the contract with what an
observer of the calls knows: `trusts` holds a pair only if the benefactor asked,
the delegate confirmed after that, and the benefactor has not taken it back;
`issued` and `retired` add up changes of the supply, not the contract's counters;
`stopped` and `dismissed` remember a gatekeeper's acts until an admin undoes them.
`system` records the sender, which is no part of any contract's state but decides on
whose word a step happens; it guards nothing.

**The disagreements** (`findings`): `redistributeLockedAmount` to address(0) does
not check the minimum supply its comment promises; soft-restricted accounts can
withdraw, which the README denies and a test expects; fully restricted accounts
can unstake what they cooled down before, to any receiver, which the comment on
`FULL_RESTRICTED_STAKER_ROLE` and the README deny; redemptions of the native
coin, which `_transferToBeneficiary` pays and a comment presupposes, always
revert because `verifyOrder` asks the asset for its decimals. Two more are seen in
the model and are no runs of their own: that comment denies staking too, but
`_deposit` consults the soft role only, and the hook on the shares it mints refuses
a restricted receiver, so that such an account may still stake for another; and
`notOwner` asks who is owner when the restriction
is made, so that a nominee restricted before it accepts becomes a restricted admin,
which can lift that itself (`OwnerRestrictsOnlyItself` is about the call alone).

## 4. The proofs

All theorems are of the form `Spec => ...`, for every set of accounts (finite
where sums are taken), every amount and every bound, from the assumptions
`AccountsAssumption`, `AccessAssumption`, `StakedAssumption`, `CooldownAssumption`, `AvUSDAssumption`,
`SystemAssumption`, `MintingAssumption`, `WavaxAssumption`, `WordAssumption` and those of
the structures, which TLC evaluates on the instances. The inductive invariants
`StakedInv`, `V2Inv`, `SystemInv` and `MintingInv` (with `AccessInv` and `AvUSDInv`
inside) stand with the properties of their modules, and runs check them too; the further ones stand in the proof modules.

* `SingleAdminAccessControlProofs`. The inductive invariant `AccessInv` is the
  conjunction of the three invariants: `OwnerIsTheAdmin` alone is not inductive,
  because an acceptance by the owner itself, or by address(0), must be excluded.
  `AdminSafety` and `AccessImplementsSingleAdmin` follow.
* `VaultMathProofs`. Rounding bounds of `mulDiv`; the arithmetic of entering,
  leaving and giving; `TotalUpdate` and `MoveTotal`: a sum changes as its entries
  do. Sums are cardinalities of sets of unit coins, so that no induction is needed.
  Where induction cannot be avoided - the transfers of a route, the parts of a
  payment, powers - `NoFirstFailure` takes its place: among the positions at which a
  statement fails there is a least one, and it is not the first. `RecursionSolved`
  gives from it that a recursion along `1 .. n` has a solution. `PaidAlong` follows
  the transfers of a route, `RouteTotal` says that its payments add up to the whole.
* `StakedAvUSDProofs`. `StakedInv` joins `AccessInv` with types, the sum and
  solvency. Solvency needs types and the sum: an exit pays at most
  `TotalAssets` because the burned shares are at most the supply, which they are
  because the supply is the sum of the balances. The same lemmas give, for each
  action, that the price does not fall. From the same invariant, action by action:
  an exchange is within one unit of the price (`StakedFairExchange`), only time and
  what is given away accrue to stakers (`StakedRewardsVest`), only a seizure leaves dust
  (`StakedDust`), and frozen shares stay (`StakedFrozenBalance`).
  `ExitPassesChecks` proves the part of `ExitNeverBlocked` that is about the code: the
  step that burns a holder's shares that is not fully restricted and pays their worth passes all checks. That
  such a step exists, because it gives each variable one value, is left to TLC.
* `StakedAvUSDV2Proofs`, in two parts. *Cooldown*: every step is first shown to be a
  step of `StakedSpec`, or a stutter (`StepIsStaked`), so that `StakedInv` is kept for
  free; this is also the refinement `V2ImplementsStaked`. `V2Inv` adds what the cooldown
  needs: types of the claims, the bound on their waiting time, their backing, and the
  bound on avUSD. The last is what makes the cast harmless: what is cast is at most
  the avUSD in existence, which `CooldownAssumption` keeps below `UINT152`. Without it
  a truncated claim would still be backed, but `LeavesAsClaims` would fail.
  `V2ClaimsSettledWhole` needs no more than that. *Token and vault*: `SystemInv` joins
  `V2Inv` and `AvUSDInv` with `OnlyCallersApprove`. The third part is what makes the
  composition work: the vault alone assumes that others cannot move its avUSD or the
  silo's, and a `transferFrom` or `burnFrom` by others would do so if either had given
  an allowance. `TokenCallEffect` says of every call of the token what it does to the
  balances and to whose; with the invariant it is an `AvUSDElsewhere` of the vault, or
  a stutter when nothing moves (`SystemStepIsV2`). Conversely, `VaultCallEffect` says
  what a call of the vault is for the token: a `transferFrom` by the vault, a transfer
  of the vault or the silo, or nothing (`SystemStepIsToken`). `SystemImplementsParts`
  follows, and with it every theorem about vault and token holds of what is deployed.
  `SystemByConsent` and `SystemOwnerRestricts` then go through the calls one by one: a
  step that takes shares or avUSD from an account was sent by it, or used up an
  allowance it gave, or is one of the named exceptions.
* `AvUSDProofs`. One lemma per operation about supply, balances and allowances,
  stated for any caller so that the minting contract can use it; then types, the
  sum, and the handover of ownership.
* `AvUSDMintingV2Proofs`, in three parts. *Orders and handovers*: `MintingInv` joins
  `AccessInv`, `AvUSDInv` and the shape of the bitmaps. `NoncePlace` and `NonceApart`:
  slot and bit are in range and determine the nonce, for every width of a slot; so
  setting a bit executes one order and no other (`DeduplicateExecutes`). `MintingStep`
  shows once, for every step, that it keeps the invariant and is a step or stutter of
  the orders and of both handovers; a minter that is an account is the issuer of
  another (`MinterCallKeeps`, `OtherStepIsElsewhere`). *State and payment*: `MintingStateInv` adds the
  types of settings, counters and collateral, and that an account without a key has
  no delegate. That collateral stays a table of naturals is where the recursion over a
  route enters: no transfer takes more than the table before it holds. `MintsArePaid`
  and `CollateralLeavesPaid` follow from what a route pays and from `WithinLimit`, which
  turns the check in basis points into an inequality without division. A benefactor
  that is a custodian itself pays other custodians, which adds nothing to what all of
  them hold: the property says so. *History*: `HistoryInv` ties each history variable
  to the state - turnover to the counters, a stop to limits of zero, a dismissal to the
  roles, a status of delegation to the offer and the consent that made it - and the
  four properties are step by step consequences.
* `AvUSDMintingProofs`. `V1Inv` joins what `MintingInv` joins with two parts of its
  own. WAVAX: every operation of WETH9 and the unwrapping of a mint changes the
  sum of the wrapped balances as it changes the coins of the contract. Counters:
  the supply and both sums of counters change together, whatever order executes;
  what the token issues or burns otherwise is booked in `elsewhere`. The steps that V1 shares with V2
  are covered by the lemmas of V2. `V1StateInv` adds the types and that WAVAX is no
  custodian; `V1MintsArePaid` then compares what custodians gain with what the
  benefactor loses, also where the one is native and the other wrapped.
* `StructuresProofs`. *Casts*: a signed cast lands in its type and keeps what is in it
  (`SignedIs`), which makes the comparison after the cast exact (`CastsExact`).
  *Set and map*: `SetState` says that positions and members correspond one to one, and
  members are values of the type; the case of removal splits on whether the last
  element is the one removed. The map adds that absent keys hold zero. *Checkpoints*:
  `SearchFinds` states for every array in order, every key and every interval what the
  binary search returns; it is proved without induction on data, by a least length of
  the interval for which it fails. With it each lookup returns the value the
  bookkeeping of the tests holds, and a value of a past block is fixed because a push
  only touches the checkpoint of the current block. *Prover script*: `ScriptInv` says
  where each job is, that below the header there is one row for each job that is done,
  and that the exit code remembers the failures heard of. Rows and finished jobs are in
  bijection, so that the exit code tells the truth for every list of specs.

Model-checked only: `ClaimsEventuallyPaid` and `EveryJobIsReported`, which are liveness;
`ExitNeverBlocked` and `NativeRedeemable`, which are about `ENABLED`; and the four
statements the code does not keep. Every other property of a run is a theorem.

## 5. Not modelled

* `TestnetERC20`, the mocks: tokens for tests. `lib/math`, `TransferHelper`: third-party
  code that no contract imports. Interfaces: declarations. Deployment scripts: run
  once; what they leave is the initial state of the modules.
* The Solidity of the vendored library beside the templates above: the protocol
  imports the other OpenZeppelin release.
* Its other scripts rewrite files and texts in one pass, drive releases through GitHub,
  or are configuration. `StorageSlot.js` generates one-line assembly accessors.

## 6. Plan

1. Done: access control, vault, cooldown vault, token, both minting contracts and
   their composition with access control and token, WETH9, the structures and the
   prover script of the vendored library; runs, refinements and theorems above.
2. Done: token, vault and silo composed. Left: the minting contract as the minter of
   that composition. Its calls of the token are those of `AvUSDMintingV2`, which has
   its own composition; in `AvUSDSystem` an account stands for it that may mint at will.
3. Proofs: done for every property of a run but those named at the end of section 4.
