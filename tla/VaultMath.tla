------------------------------ MODULE VaultMath ------------------------------
(***************************************************************************)
(* Arithmetic shared by the staking modules: the sum of a table of         *)
(* amounts, moving an amount between two entries, and the ERC-4626         *)
(* conversions with one virtual share and one virtual asset.               *)
(***************************************************************************)
EXTENDS Integers, FiniteSets

\* The sum of a table of naturals, as the number of its unit coins: a
\* definition without recursion, which the provers can reason about.
Coins(table) == UNION {{a} \X (1 .. table[a]) : a \in DOMAIN table}
Total(table) == Cardinality(Coins(table))

Move(table, from, to, amount) ==
    LET debited == [table EXCEPT ![from] = @ - amount]
    IN  [debited EXCEPT ![to] = @ + amount]

\* Math.mulDiv(x, y, d) rounded down, and rounded up.
MulDivDown(x, y, d) == (x * y) \div d
MulDivUp(x, y, d)   == (x * y + d - 1) \div d

\* ERC4626._convertToShares and _convertToAssets, decimals offset 0.
SharesDown(assets, supply, total) == MulDivDown(assets, supply + 1, total + 1)
SharesUp(assets, supply, total)   == MulDivUp(assets, supply + 1, total + 1)
AssetsDown(shares, supply, total) == MulDivDown(shares, total + 1, supply + 1)
AssetsUp(shares, supply, total)   == MulDivUp(shares, total + 1, supply + 1)
=============================================================================
