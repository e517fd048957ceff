--------------------------- MODULE VaultMathProofs ---------------------------
(* Lemmas about sums, rounding, recursion and powers. *)
EXTENDS VaultMath, Powers, FiniteSetTheorems, WellFoundedInduction, TLAPS

\* Integer division by a positive divisor.
LEMMA DivBounds ==
    ASSUME NEW n \in Nat, NEW d \in Nat, d > 0
    PROVE  /\ n \div d \in Nat
           /\ d * (n \div d) <= n
           /\ n < d * (n \div d) + d
OBVIOUS

\* A quotient stays below a bound the dividend respects.
LEMMA DivLess ==
    ASSUME NEW n \in Nat, NEW d \in Nat, d > 0, NEW b \in Nat, n < d * b
    PROVE  n \div d < b
OBVIOUS

\* Rounding down takes away less than one unit.
LEMMA MulDivDownBounds ==
    ASSUME NEW x \in Nat, NEW y \in Nat, NEW d \in Nat, d > 0
    PROVE  /\ MulDivDown(x, y, d) \in Nat
           /\ MulDivDown(x, y, d) * d <= x * y
           /\ x * y < MulDivDown(x, y, d) * d + d
<1>1. x * y \in Nat
  OBVIOUS
<1> QED
  BY <1>1, DivBounds DEF MulDivDown

\* Rounding up adds less than one unit.
LEMMA MulDivUpBounds ==
    ASSUME NEW x \in Nat, NEW y \in Nat, NEW d \in Nat, d > 0
    PROVE  /\ MulDivUp(x, y, d) \in Nat
           /\ x * y <= MulDivUp(x, y, d) * d
           /\ MulDivUp(x, y, d) * d < x * y + d
<1>1. x * y + d - 1 \in Nat
  <2>1. x * y \in Nat
    OBVIOUS
  <2> QED
    BY <2>1
<1>2. /\ (x * y + d - 1) \div d \in Nat
      /\ d * ((x * y + d - 1) \div d) <= x * y + d - 1
      /\ x * y + d - 1 < d * ((x * y + d - 1) \div d) + d
  BY <1>1, DivBounds
<1> QED
  BY <1>2 DEF MulDivUp

\* No more assets than there are can be the value of shares that exist.
LEMMA ValueBelowTotal ==
    ASSUME NEW assets \in Nat, NEW shares \in Nat,
           NEW total \in Nat, NEW supply \in Nat,
           shares <= supply, assets * (supply + 1) <= shares * (total + 1)
    PROVE  assets <= total
<1> SUFFICES ASSUME assets >= total + 1
             PROVE  FALSE
  OBVIOUS
<1>1. (total + 1) * (supply + 1) <= assets * (supply + 1)
  OBVIOUS
<1>2. shares * (total + 1) <= supply * (total + 1)
  OBVIOUS
<1>3. supply * (total + 1) < (total + 1) * (supply + 1)
  OBVIOUS
<1> QED
  BY <1>1, <1>2, <1>3

\* Shares issued for assets at the price, or below it, keep the price.
LEMMA EntryKeepsPrice ==
    ASSUME NEW assets \in Nat, NEW shares \in Nat,
           NEW total \in Nat, NEW supply \in Nat,
           shares * (total + 1) <= assets * (supply + 1)
    PROVE  (total + 1) * (supply + shares + 1) <= (total + assets + 1) * (supply + 1)
OBVIOUS

\* Assets paid for shares at the price, or below it, keep the price; the more so
\* when not all of them leave.
LEMMA ExitKeepsPrice ==
    ASSUME NEW assets \in Nat, NEW shares \in Nat,
           NEW total \in Nat, NEW supply \in Nat, NEW rest \in Nat,
           assets * (supply + 1) <= shares * (total + 1),
           assets <= total, shares <= supply, total - assets <= rest
    PROVE  (total + 1) * (supply - shares + 1) <= (rest + 1) * (supply + 1)
<1>1. (total + 1) * (supply - shares + 1) <= (total - assets + 1) * (supply + 1)
  OBVIOUS
<1>2. (total - assets + 1) * (supply + 1) <= (rest + 1) * (supply + 1)
  OBVIOUS
<1> QED
  BY <1>1, <1>2

\* More assets raise the price.
LEMMA GiftKeepsPrice ==
    ASSUME NEW total \in Nat, NEW supply \in Nat, NEW more \in Nat, total <= more
    PROVE  (total + 1) * (supply + 1) <= (more + 1) * (supply + 1)
OBVIOUS

-----------------------------------------------------------------------------

\* The coins of one entry.
Pile(table, a) == {a} \X (1 .. table[a])

\* The coins of every entry but one.
OtherCoins(table, a) == UNION {Pile(table, b) : b \in DOMAIN table \ {a}}

LEMMA PileFinite ==
    ASSUME NEW D, NEW table \in [D -> Nat], NEW a \in D
    PROVE  IsFiniteSet(Pile(table, a)) /\ Cardinality(Pile(table, a)) = table[a]
<1>1. table[a] \in Nat
  OBVIOUS
<1>2. IsFiniteSet(1 .. table[a]) /\ Cardinality(1 .. table[a]) = table[a]
  BY <1>1, FS_Interval
<1>3. IsFiniteSet({a}) /\ Cardinality({a}) = 1
  BY FS_Singleton
<1>4. /\ IsFiniteSet({a} \X (1 .. table[a]))
      /\ Cardinality({a} \X (1 .. table[a])) = 1 * table[a]
  BY <1>2, <1>3, FS_Product
<1> QED
  BY <1>1, <1>4 DEF Pile

LEMMA PilesFinite ==
    ASSUME NEW D, IsFiniteSet(D), NEW table \in [D -> Nat], NEW E \in SUBSET D
    PROVE  IsFiniteSet(UNION {Pile(table, b) : b \in E})
<1> DEFINE Piles == {Pile(table, b) : b \in E}
           pile  == [b \in E |-> Pile(table, b)]
<1>1. IsFiniteSet(E)
  BY FS_Subset
<1>2. pile \in Surjection(E, Piles)
  BY DEF Surjection
<1>3. IsFiniteSet(Piles)
  BY <1>1, <1>2, FS_Surjection
<1>4. \A T \in Piles : IsFiniteSet(T)
  BY PileFinite
<1> QED
  BY <1>3, <1>4, FS_UNION

\* A sum is one entry and the rest.
LEMMA TotalSplit ==
    ASSUME NEW D, IsFiniteSet(D), NEW table \in [D -> Nat], NEW a \in D
    PROVE  /\ Cardinality(OtherCoins(table, a)) \in Nat
           /\ Total(table) = Cardinality(OtherCoins(table, a)) + table[a]
<1>1. Coins(table) = OtherCoins(table, a) \cup Pile(table, a)
  BY DEF Coins, OtherCoins, Pile
<1>2. OtherCoins(table, a) \cap Pile(table, a) = {}
  BY DEF OtherCoins, Pile
<1>3. IsFiniteSet(OtherCoins(table, a))
  BY PilesFinite DEF OtherCoins
<1>4. IsFiniteSet(Pile(table, a)) /\ Cardinality(Pile(table, a)) = table[a]
  BY PileFinite
<1>5. Cardinality(OtherCoins(table, a)) \in Nat /\ table[a] \in Nat
  BY <1>3, FS_CardinalityType
<1>6. Cardinality({}) = 0
  BY FS_EmptySet
<1>7. Cardinality(OtherCoins(table, a) \cup Pile(table, a)) =
        Cardinality(OtherCoins(table, a)) + Cardinality(Pile(table, a))
           - Cardinality(OtherCoins(table, a) \cap Pile(table, a))
  BY <1>3, <1>4, FS_Union
<1>8. Total(table) = Cardinality(OtherCoins(table, a) \cup Pile(table, a))
  BY <1>1 DEF Total
<1>9. Cardinality(OtherCoins(table, a) \cap Pile(table, a)) = 0
  BY <1>2, <1>6
<1> QED
  BY <1>4, <1>5, <1>7, <1>8, <1>9

\* Sums are naturals, and no entry exceeds the sum.
LEMMA TotalBounds ==
    ASSUME NEW D, IsFiniteSet(D), NEW table \in [D -> Nat], NEW a \in D
    PROVE  Total(table) \in Nat /\ table[a] <= Total(table)
BY TotalSplit

\* Changing one entry changes the sum by as much.
LEMMA TotalUpdate ==
    ASSUME NEW D, IsFiniteSet(D), NEW table \in [D -> Nat],
           NEW a \in D, NEW v \in Nat
    PROVE  Total([table EXCEPT ![a] = v]) = Total(table) - table[a] + v
<1> DEFINE new == [table EXCEPT ![a] = v]
<1>1. new \in [D -> Nat] /\ new[a] = v
  OBVIOUS
<1>2. OtherCoins(new, a) = OtherCoins(table, a)
  BY DEF OtherCoins, Pile
<1>3. Total(new) = Cardinality(OtherCoins(new, a)) + new[a]
  BY <1>1, TotalSplit
<1>4. /\ Cardinality(OtherCoins(table, a)) \in Nat
      /\ Total(table) = Cardinality(OtherCoins(table, a)) + table[a]
  BY TotalSplit
<1> QED
  BY <1>1, <1>2, <1>3, <1>4

\* A table of zeros sums to zero.
LEMMA TotalZero ==
    ASSUME NEW D
    PROVE  Total([a \in D |-> 0]) = 0
<1>1. Coins([a \in D |-> 0]) = {}
  BY DEF Coins
<1> QED
  BY <1>1, FS_EmptySet DEF Total

\* Moving an amount the source holds keeps the table natural and its sum.
LEMMA MoveTotal ==
    ASSUME NEW D, IsFiniteSet(D), NEW table \in [D -> Nat],
           NEW from \in D, NEW to \in D, NEW amount \in Nat,
           amount <= table[from]
    PROVE  /\ Move(table, from, to, amount) \in [D -> Nat]
           /\ Total(Move(table, from, to, amount)) = Total(table)
<1> DEFINE less == [table EXCEPT ![from] = table[from] - amount]
           more == [less EXCEPT ![to] = less[to] + amount]
<1>1. less \in [D -> Nat] /\ table[from] - amount \in Nat
  OBVIOUS
<1>2. Total(less) = Total(table) - table[from] + (table[from] - amount)
  <2>1. \A v \in Nat : Total([table EXCEPT ![from] = v]) = Total(table) - table[from] + v
    BY TotalUpdate
  <2> QED
    BY <1>1, <2>1
<1>3. more \in [D -> Nat] /\ less[to] + amount \in Nat
  BY <1>1
<1>4. Total(more) = Total(less) - less[to] + (less[to] + amount)
  BY <1>1, <1>3, TotalUpdate
<1>5. Move(table, from, to, amount) = more
  BY DEF Move
<1>6. Total(table) \in Nat /\ Total(less) \in Nat /\ less[to] \in Nat
  BY <1>1, TotalBounds
<1>7. table[from] \in Nat
  OBVIOUS
<1> QED
  BY <1>2, <1>3, <1>4, <1>5, <1>6, <1>7

-----------------------------------------------------------------------------
(* Sums along a sequence, and recursion along it. Induction is by a least  *)
(* counterexample.                                                         *)

LEMMA LeastNatural ==
    ASSUME NEW T, T \subseteq Nat, T # {}
    PROVE  \E x \in T : \A y \in T : x <= y
<1> DEFINE R == {ends \in Nat \X Nat : ends[1] < ends[2]}
<1>1. IsWellFoundedOn(R, Nat)
  BY NatLessThanWellFounded DEF OpToRel
<1>2. \A x, y \in Nat : x < y => <<x, y>> \in R
  OBVIOUS
<1> HIDE DEF R
<1>3. PICK x \in T : \A y \in T : ~ (<<y, x>> \in R)
  BY <1>1, WFMin
<1>4. ASSUME NEW y \in T
      PROVE  x <= y
  <2>1. x \in Nat /\ y \in Nat /\ ~ (y < x)
    BY <1>2, <1>3
  <2> QED
    BY <2>1
<1> QED
  BY <1>4

\* The numbers up to n at which something goes wrong are none, if it does not at
\* zero and never for the first time.
LEMMA NoFirstFailure ==
    ASSUME NEW n \in Nat, NEW wrong \in SUBSET (0 .. n), 0 \notin wrong,
           \A k \in 0 .. n - 1 : k \notin wrong => k + 1 \notin wrong
    PROVE  wrong = {}
<1> SUFFICES ASSUME wrong # {}
             PROVE  FALSE
  OBVIOUS
<1>1. PICK x \in wrong : \A y \in wrong : x <= y
  <2>1. wrong \subseteq Nat
    OBVIOUS
  <2> QED
    BY <2>1, LeastNatural
<1>2. x \in 0 .. n /\ x # 0
  OBVIOUS
<1>3. x - 1 \in 0 .. n - 1 /\ x - 1 + 1 = x /\ ~ (x <= x - 1)
  BY <1>2
<1>4. x - 1 \notin wrong
  BY <1>1, <1>3
<1>5. x - 1 + 1 \notin wrong
  BY <1>3, <1>4
<1> QED
  BY <1>3, <1>5

\* f is what a recursion along 1 .. n defines.
Solves(f, n, base, step) == f[0] = base /\ \A i \in 1 .. n : f[i] = step[i][f[i - 1]]

\* A recursion along 1 .. n has a solution.
LEMMA RecursionSolved ==
    ASSUME NEW S, NEW base \in S, NEW n \in Nat, NEW step \in [1 .. n -> [S -> S]]
    PROVE  \E f \in [0 .. n -> S] : Solves(f, n, base, step)
<1> DEFINE wrong == {k \in 0 .. n : ~ \E f \in [0 .. k -> S] : Solves(f, k, base, step)}
<1>1. 0 \notin wrong
  <2> DEFINE f == [i \in 0 .. 0 |-> base]
  <2>1. f \in [0 .. 0 -> S] /\ Solves(f, 0, base, step)
    BY DEF Solves
  <2> QED
    BY <2>1
<1>2. ASSUME NEW k \in 0 .. n - 1, k \notin wrong
      PROVE  k + 1 \notin wrong
  <2>1. k \in 0 .. n /\ k + 1 \in 1 .. n
    OBVIOUS
  <2>2. PICK f \in [0 .. k -> S] : Solves(f, k, base, step)
    BY <1>2, <2>1
  <2> DEFINE v == step[k + 1][f[k]]
             g == [i \in 0 .. k + 1 |-> IF i = k + 1 THEN v ELSE f[i]]
  <2>3. v \in S
    <3>1. f[k] \in S
      BY <2>1
    <3> QED
      BY <3>1
  <2> HIDE DEF v
  <2>4. g \in [0 .. k + 1 -> S]
    BY <2>3
  <2>5. g[k + 1] = v /\ \A i \in 0 .. k : g[i] = f[i]
    OBVIOUS
  <2> HIDE DEF g
  <2>6. ASSUME NEW i \in 1 .. k + 1
        PROVE  g[i] = step[i][g[i - 1]]
    <3>1. CASE i = k + 1
      <4>1. i - 1 = k /\ k \in 0 .. k
        BY <3>1
      <4>2. g[i - 1] = f[k]
        BY <2>5, <4>1
      <4> QED
        BY <2>5, <3>1, <4>2 DEF v
    <3>2. CASE i # k + 1
      <4>1. i \in 1 .. k /\ i \in 0 .. k /\ i - 1 \in 0 .. k
        BY <3>2
      <4> QED
        BY <2>2, <2>5, <4>1 DEF Solves
    <3> QED
      BY <3>1, <3>2
  <2>7. g[0] = base
    BY <2>2, <2>5 DEF Solves
  <2>8. Solves(g, k + 1, base, step)
    BY <2>6, <2>7 DEF Solves
  <2> QED
    BY <2>1, <2>4, <2>8
<1>3. n \in 0 .. n /\ wrong \in SUBSET (0 .. n)
  OBVIOUS
<1>4. n \notin wrong
  <2> HIDE DEF wrong
  <2>1. wrong = {}
    BY <1>1, <1>2, <1>3, NoFirstFailure
  <2> QED
    BY <2>1
<1> QED
  BY <1>3, <1>4

\* The powers of a base up to one of them.
PowersTo(base, n) ==
    CHOOSE power : power = [k \in 0 .. n |-> IF k = 0 THEN 1 ELSE base * power[k - 1]]

\* f is a table of the powers of a base.
IsPowers(f, base, n) ==
    /\ f \in [0 .. n -> Nat \ {0}]
    /\ f[0] = 1 /\ \A k \in 1 .. n : f[k] = base * f[k - 1]

LEMMA PowersRecur ==
    ASSUME NEW base \in Nat \ {0}, NEW n \in Nat
    PROVE  IsPowers(PowersTo(base, n), base, n) /\ Power(base, n) = PowersTo(base, n)[n]
<1> DEFINE S == Nat \ {0}
           times(v) == base * v
           next(f) == [k \in 0 .. n |-> IF k = 0 THEN 1 ELSE times(f[k - 1])]
           power == CHOOSE f : f = next(f)
           step == [i \in 1 .. n |-> [v \in S |-> times(v)]]
<1>1. Power(base, n) = power[n] /\ PowersTo(base, n) = power
  BY Zenon DEF Power, PowersTo
<1>2. 1 \in S /\ \A v \in S : times(v) \in S
  OBVIOUS
<1> HIDE DEF S, times
<1>3. /\ step \in [1 .. n -> [S -> S]]
      /\ \A i \in 1 .. n : \A v \in S : step[i][v] = times(v)
  BY <1>2
<1>4. ASSUME NEW f
      PROVE  \A k \in 0 .. n : next(f)[k] = IF k = 0 THEN 1 ELSE times(f[k - 1])
  OBVIOUS
<1>5. \A f : next(f) = [k \in 0 .. n |-> next(f)[k]]
  OBVIOUS
<1> HIDE DEF next, step, power
<1>6. PICK f \in [0 .. n -> S] : Solves(f, n, 1, step)
  BY <1>2, <1>3, RecursionSolved
<1>7. f = next(f)
  <2>1. ASSUME NEW k \in 0 .. n
        PROVE  f[k] = next(f)[k]
    <3>1. CASE k = 0
      BY <1>4, <1>6, <3>1 DEF Solves
    <3>2. CASE k # 0
      <4>1. k \in 1 .. n /\ k - 1 \in 0 .. n
        BY <3>2
      <4>2. f[k - 1] \in S
        BY <1>6, <4>1
      <4>3. f[k] = times(f[k - 1])
        BY <1>3, <1>6, <4>1, <4>2 DEF Solves
      <4> QED
        BY <1>4, <3>2, <4>3
    <3> QED
      BY <3>1, <3>2
  <2>2. f = [k \in 0 .. n |-> f[k]] /\ next(f) = [k \in 0 .. n |-> next(f)[k]]
    BY <1>5, <1>6
  <2> QED
    BY <2>1, <2>2
<1>8. power = next(power)
  BY <1>7 DEF power
<1>9. power[0] = 1 /\ \A k \in 1 .. n : power[k] = times(power[k - 1])
  <2>1. 0 \in 0 .. n /\ \A k \in 1 .. n : k \in 0 .. n /\ k # 0
    OBVIOUS
  <2> QED
    BY <1>4, <1>8, <2>1
<1>10. \A k \in 0 .. n : power[k] \in S
  <2> DEFINE wrong == {k \in 0 .. n : power[k] \notin S}
  <2>1. wrong \in SUBSET (0 .. n) /\ 0 \notin wrong
    BY <1>2, <1>9
  <2>2. ASSUME NEW k \in 0 .. n - 1, k \notin wrong
        PROVE  k + 1 \notin wrong
    <3>1. k \in 0 .. n /\ k + 1 \in 1 .. n /\ k + 1 - 1 = k
      OBVIOUS
    <3> QED
      BY <1>2, <1>9, <2>2, <3>1
  <2>3. wrong = {}
    <3> HIDE DEF wrong
    <3> QED
      BY <2>1, <2>2, NoFirstFailure
  <2> QED
    BY <2>3
<1>11. power \in [0 .. n -> S]
  <2>1. power = [k \in 0 .. n |-> power[k]]
    BY <1>5, <1>8
  <2> QED
    BY <1>10, <2>1
<1> QED
  BY <1>1, <1>9, <1>11 DEF IsPowers, S, times

\* A power is positive, and the next one is the base times it.
LEMMA PowerPositive ==
    ASSUME NEW base \in Nat \ {0}, NEW n \in Nat
    PROVE  Power(base, n) \in Nat \ {0}
<1>1. /\ PowersTo(base, n) \in [0 .. n -> Nat \ {0}]
      /\ Power(base, n) = PowersTo(base, n)[n]
  BY PowersRecur DEF IsPowers
<1>2. n \in 0 .. n
  OBVIOUS
<1> QED
  BY <1>1, <1>2

LEMMA PowerSteps ==
    ASSUME NEW base \in Nat \ {0}, NEW n \in Nat
    PROVE  Power(base, 0) = 1 /\ Power(base, n + 1) = base * Power(base, n)
<1> DEFINE f == PowersTo(base, n)
           g == PowersTo(base, n + 1)
           wrong == {k \in 0 .. n : f[k] # g[k]}
<1>1. n + 1 \in Nat /\ 0 \in Nat
  OBVIOUS
<1>2. Power(base, 0) = 1
  BY <1>1, PowersRecur DEF IsPowers
<1>3. IsPowers(f, base, n) /\ Power(base, n) = f[n]
  BY PowersRecur
<1>4. IsPowers(g, base, n + 1) /\ Power(base, n + 1) = g[n + 1]
  BY <1>1, PowersRecur
<1> HIDE DEF f, g
<1>5. 0 \notin wrong
  BY <1>3, <1>4 DEF IsPowers
<1>6. ASSUME NEW k \in 0 .. n - 1, k \notin wrong
      PROVE  k + 1 \notin wrong
  <2>1. /\ k \in 0 .. n /\ k + 1 \in 1 .. n /\ k + 1 \in 1 .. n + 1
        /\ k + 1 - 1 = k
    OBVIOUS
  <2>2. f[k + 1] = base * f[k] /\ g[k + 1] = base * g[k]
    BY <1>3, <1>4, <2>1 DEF IsPowers
  <2> QED
    BY <1>6, <2>1, <2>2
<1>7. wrong = {}
  <2>1. wrong \in SUBSET (0 .. n)
    OBVIOUS
  <2> HIDE DEF wrong
  <2> QED
    BY <1>5, <1>6, <2>1, NoFirstFailure
<1>8. g[n + 1] = base * g[n] /\ f[n] = g[n]
  <2>1. n + 1 \in 1 .. n + 1 /\ n + 1 - 1 = n /\ n \in 0 .. n
    OBVIOUS
  <2>2. g[n + 1] = base * g[n]
    BY <1>4, <2>1 DEF IsPowers
  <2>3. ~ (f[n] # g[n])
    BY <1>7, <2>1
  <2> QED
    BY <2>2, <2>3
<1> QED
  BY <1>2, <1>3, <1>4, <1>8

\* A sum of nothing.
LEMMA TotalNone ==
    ASSUME NEW table, DOMAIN table = {}
    PROVE  Total(table) = 0
<1>1. Coins(table) = {}
  BY DEF Coins
<1> QED
  BY <1>1, FS_EmptySet DEF Total

\* One more entry.
LEMMA TotalInsert ==
    ASSUME NEW D, IsFiniteSet(D), NEW a, a \notin D, NEW table \in [D \cup {a} -> Nat]
    PROVE  /\ Total([d \in D |-> table[d]]) \in Nat
           /\ Total(table) = Total([d \in D |-> table[d]]) + table[a]
<1> DEFINE E == D \cup {a}
           first == [d \in D |-> table[d]]
<1>1. IsFiniteSet(E) /\ a \in E /\ E \ {a} = D
  BY FS_AddElement
<1>2. Coins(first) = OtherCoins(table, a)
  <2>1. DOMAIN first = D /\ DOMAIN table = E
    OBVIOUS
  <2>2. \A d \in D : Pile(table, d) = {d} \X (1 .. first[d])
    BY DEF Pile
  <2> HIDE DEF first
  <2> QED
    BY <1>1, <2>1, <2>2 DEF Coins, OtherCoins
<1>3. Total(first) = Cardinality(OtherCoins(table, a))
  BY <1>2 DEF Total
<1> HIDE DEF first
<1>4. /\ Cardinality(OtherCoins(table, a)) \in Nat
      /\ Total(table) = Cardinality(OtherCoins(table, a)) + table[a]
  BY <1>1, TotalSplit
<1> QED
  BY <1>3, <1>4 DEF first

LEMMA TotalExtend ==
    ASSUME NEW k \in Nat, NEW table \in [1 .. k + 1 -> Nat]
    PROVE  /\ Total([i \in 1 .. k |-> table[i]]) \in Nat
           /\ Total(table) = Total([i \in 1 .. k |-> table[i]]) + table[k + 1]
<1> DEFINE D == 1 .. k
<1>1. D \cup {k + 1} = 1 .. k + 1 /\ k + 1 \notin D
  OBVIOUS
<1>2. IsFiniteSet(D)
  BY FS_Interval
<1>3. table \in [D \cup {k + 1} -> Nat]
  BY <1>1
<1> HIDE DEF D
<1>4. /\ Total([i \in D |-> table[i]]) \in Nat
      /\ Total(table) = Total([i \in D |-> table[i]]) + table[k + 1]
  BY <1>1, <1>2, <1>3, TotalInsert
<1> QED
  BY <1>4 DEF D

\* The first k entries of a table, and their sum.
SumUpTo(table, k) == Total([i \in 1 .. k |-> table[i]])

LEMMA SumSteps ==
    ASSUME NEW n \in Nat, NEW table \in [1 .. n -> Nat]
    PROVE  /\ SumUpTo(table, 0) = 0
           /\ \A k \in 0 .. n - 1 : SumUpTo(table, k + 1) = SumUpTo(table, k) + table[k + 1]
           /\ \A k \in 0 .. n : SumUpTo(table, k) \in Nat
           /\ SumUpTo(table, n) = Total(table)
<1>1. SumUpTo(table, 0) = 0
  <2>1. DOMAIN [i \in 1 .. 0 |-> table[i]] = {}
    OBVIOUS
  <2> QED
    BY <2>1, TotalNone DEF SumUpTo
<1>2. ASSUME NEW k \in 0 .. n - 1
      PROVE  /\ SumUpTo(table, k) \in Nat
             /\ SumUpTo(table, k + 1) = SumUpTo(table, k) + table[k + 1]
  <2> DEFINE first == [i \in 1 .. k + 1 |-> table[i]]
  <2>1. first \in [1 .. k + 1 -> Nat] /\ first[k + 1] = table[k + 1] /\ k \in Nat
    OBVIOUS
  <2>2. [i \in 1 .. k |-> first[i]] = [i \in 1 .. k |-> table[i]]
    OBVIOUS
  <2>3. SumUpTo(table, k + 1) = Total(first)
    BY DEF SumUpTo
  <2> HIDE DEF first
  <2> QED
    BY <2>1, <2>2, <2>3, TotalExtend DEF SumUpTo
<1>3. SumUpTo(table, n) = Total(table)
  <2>1. [i \in 1 .. n |-> table[i]] = table
    OBVIOUS
  <2> QED
    BY <2>1 DEF SumUpTo
<1>4. ASSUME NEW k \in 0 .. n
      PROVE  SumUpTo(table, k) \in Nat
  <2>1. CASE k < n
    BY <1>2, <2>1
  <2>2. CASE k = n /\ n # 0
    <3>1. n - 1 \in 0 .. n - 1 /\ n - 1 + 1 = n /\ table[n] \in Nat
      BY <2>2
    <3>2. SumUpTo(table, n) = SumUpTo(table, n - 1) + table[n] /\ SumUpTo(table, n - 1) \in Nat
      BY <1>2, <3>1
    <3> QED
      BY <2>2, <3>1, <3>2
  <2> QED
    BY <1>1, <2>1, <2>2
<1> QED
  BY <1>1, <1>2, <1>3, <1>4

\* Parts of an amount that are at most their shares of it.
WithinShares(parts, amount, whole, n, ratios) ==
    \A i \in 1 .. n : whole * parts[i] <= amount * ratios[i]

\* Their sum is at most the sum of the shares.
LEMMA SharesSum ==
    ASSUME NEW amount \in Nat, NEW whole \in Nat \ {0},
           NEW n \in Nat, NEW ratios \in [1 .. n -> Nat],
           NEW rounded \in [1 .. n -> Nat],
           WithinShares(rounded, amount, whole, n, ratios)
    PROVE  /\ Total(rounded) \in Nat /\ Total(ratios) \in Nat
           /\ whole * Total(rounded) <= amount * Total(ratios)
<1> DEFINE wrong == {k \in 0 .. n :
                        ~ whole * SumUpTo(rounded, k) <= amount * SumUpTo(ratios, k)}
<1>1. ASSUME NEW i \in 1 .. n
      PROVE  rounded[i] \in Nat /\ whole * rounded[i] <= amount * ratios[i]
  BY DEF WithinShares
<1>2. 0 \notin wrong
  <2>1. SumUpTo(rounded, 0) = 0
    BY SumSteps
  <2>2. SumUpTo(ratios, 0) = 0
    BY SumSteps
  <2>3. whole * 0 <= amount * 0
    OBVIOUS
  <2> QED
    BY <2>1, <2>2, <2>3
<1>3. ASSUME NEW k \in 0 .. n - 1, k \notin wrong
      PROVE  k + 1 \notin wrong
  <2>1. /\ k \in 0 .. n /\ k + 1 \in 1 .. n
        /\ SumUpTo(rounded, k) \in Nat /\ SumUpTo(ratios, k) \in Nat
        /\ SumUpTo(rounded, k + 1) = SumUpTo(rounded, k) + rounded[k + 1]
        /\ SumUpTo(ratios, k + 1) = SumUpTo(ratios, k) + ratios[k + 1]
        /\ ratios[k + 1] \in Nat
    <3>1. k \in 0 .. n /\ k + 1 \in 1 .. n /\ ratios[k + 1] \in Nat
      OBVIOUS
    <3>2. /\ SumUpTo(rounded, k) \in Nat
          /\ SumUpTo(rounded, k + 1) = SumUpTo(rounded, k) + rounded[k + 1]
      BY <3>1, SumSteps
    <3>3. /\ SumUpTo(ratios, k) \in Nat
          /\ SumUpTo(ratios, k + 1) = SumUpTo(ratios, k) + ratios[k + 1]
      BY <3>1, SumSteps
    <3> QED
      BY <3>1, <3>2, <3>3
  <2>2. whole * SumUpTo(rounded, k) <= amount * SumUpTo(ratios, k)
    BY <1>3, <2>1
  <2>3. rounded[k + 1] \in Nat /\ whole * rounded[k + 1] <= amount * ratios[k + 1]
    BY <1>1, <2>1
  <2>4. /\ whole * (SumUpTo(rounded, k) + rounded[k + 1])
              = whole * SumUpTo(rounded, k) + whole * rounded[k + 1]
        /\ amount * (SumUpTo(ratios, k) + ratios[k + 1])
              = amount * SumUpTo(ratios, k) + amount * ratios[k + 1]
    BY <2>1, <2>3
  <2>5. whole * SumUpTo(rounded, k + 1) <= amount * SumUpTo(ratios, k + 1)
    <3> DEFINE a == whole * SumUpTo(rounded, k)
               b == whole * rounded[k + 1]
               c == amount * SumUpTo(ratios, k)
               d == amount * ratios[k + 1]
    <3>1. a \in Int /\ b \in Int /\ c \in Int /\ d \in Int
      BY <2>1, <2>3
    <3>2. a <= c /\ b <= d
      BY <2>2, <2>3
    <3> HIDE DEF a, b, c, d
    <3>3. a + b <= c + d
      BY <3>1, <3>2
    <3> QED
      BY <2>1, <2>4, <3>3 DEF a, b, c, d
  <2> QED
    BY <2>5
<1>4. n \in 0 .. n /\ wrong \in SUBSET (0 .. n)
  OBVIOUS
<1>5. whole * SumUpTo(rounded, n) <= amount * SumUpTo(ratios, n)
  <2>1. n \notin wrong
    <3> HIDE DEF wrong
    <3>1. wrong = {}
      BY <1>2, <1>3, <1>4, NoFirstFailure
    <3> QED
      BY <3>1
  <2> QED
    BY <1>4, <2>1
<1>6. /\ SumUpTo(rounded, n) = Total(rounded) /\ SumUpTo(ratios, n) = Total(ratios)
      /\ SumUpTo(rounded, n) \in Nat /\ SumUpTo(ratios, n) \in Nat
  BY <1>4, SumSteps
<1> QED
  BY <1>5, <1>6

-----------------------------------------------------------------------------
(* Amounts moved along a list of accounts, one after the other, all from    *)
(* the same account.                                                        *)

\* What a group of accounts holds.
HeldBy(group, table) == Total([a \in group |-> table[a]])

\* A move within a group leaves what it holds, a move into it adds to that.
LEMMA MoveIntoGroup ==
    ASSUME NEW D, IsFiniteSet(D), NEW table \in [D -> Nat],
           NEW from \in D, NEW amount \in Nat, amount <= table[from],
           NEW group \in SUBSET D, NEW to \in group
    PROVE  LET moved == Move(table, from, to, amount)
           IN  /\ HeldBy(group, table) \in Nat
               /\ from \in group => HeldBy(group, moved) = HeldBy(group, table)
               /\ from \notin group => HeldBy(group, moved) = HeldBy(group, table) + amount
<1> DEFINE moved == Move(table, from, to, amount)
           held  == [a \in group |-> table[a]]
<1>1. IsFiniteSet(group) /\ held \in [group -> Nat] /\ held[to] = table[to]
  BY FS_Subset
<1>2. Total(held) \in Nat
  BY <1>1, TotalBounds
<1>3. CASE from \in group
  <2>1. [a \in group |-> moved[a]] = Move(held, from, to, amount)
    BY <1>3 DEF Move
  <2>2. amount <= held[from]
    BY <1>3
  <2> HIDE DEF held, moved
  <2>3. Total(Move(held, from, to, amount)) = Total(held)
    BY <1>1, <1>3, <2>2, MoveTotal
  <2> QED
    BY <1>2, <1>3, <2>1, <2>3 DEF HeldBy, held, moved
<1>4. CASE from \notin group
  <2>1. [a \in group |-> moved[a]] = [held EXCEPT ![to] = held[to] + amount]
    BY <1>4 DEF Move
  <2>2. held[to] \in Nat /\ held[to] + amount \in Nat
    BY <1>1
  <2> HIDE DEF held, moved
  <2>3. Total([held EXCEPT ![to] = held[to] + amount]) = Total(held) - held[to] + (held[to] + amount)
    BY <1>1, <2>2, TotalUpdate
  <2>4. Total([held EXCEPT ![to] = held[to] + amount]) = Total(held) + amount
    BY <1>2, <2>2, <2>3
  <2> QED
    BY <1>2, <1>4, <2>1, <2>4 DEF HeldBy, held, moved
<1> QED
  BY <1>3, <1>4

\* What a move does to the source, the destination and all the others.
LEMMA MoveEffect ==
    ASSUME NEW D, IsFiniteSet(D), NEW table \in [D -> Nat],
           NEW from \in D, NEW to \in D, NEW amount \in Nat, amount <= table[from]
    PROVE  LET moved == Move(table, from, to, amount)
           IN  /\ moved \in [D -> Nat] /\ Total(moved) = Total(table)
               /\ \A a \in D \ {from, to} : moved[a] = table[a]
               /\ from # to => /\ moved[from] = table[from] - amount
                               /\ moved[to] = table[to] + amount
               /\ from = to => moved[to] = table[to]
<1> DEFINE debited == [table EXCEPT ![from] = table[from] - amount]
           moved   == [debited EXCEPT ![to] = debited[to] + amount]
<1>1. /\ debited \in [D -> Int] /\ debited[from] = table[from] - amount
      /\ \A a \in D \ {from} : debited[a] = table[a]
  OBVIOUS
<1>2. table[from] \in Nat /\ table[to] \in Nat
  OBVIOUS
<1>3. Move(table, from, to, amount) = moved
  BY DEF Move
<1> HIDE DEF debited
<1>4. moved[to] = debited[to] + amount /\ \A a \in D \ {to} : moved[a] = debited[a]
  BY <1>1
<1> HIDE DEF moved
<1>5. \A a \in D \ {from, to} : moved[a] = table[a]
  BY <1>1, <1>4
<1>6. moved \in [D -> Nat] /\ Total(moved) = Total(table)
  BY <1>3, MoveTotal
<1>7. from # to => moved[from] = table[from] - amount /\ moved[to] = table[to] + amount
  BY <1>1, <1>4
<1>8. from = to => moved[to] = table[to]
  BY <1>1, <1>2, <1>4
<1> QED
  BY <1>3, <1>5, <1>6, <1>7, <1>8

\* One account after the other, as a function of how many are paid.
Paying(f, n, table, from, to, parts) ==
    f = [i \in 0 .. n |-> IF i = 0 THEN table ELSE Move(f[i - 1], from, to[i], parts[i])]

LEMMA PayingDefined ==
    ASSUME NEW D, NEW table \in [D -> Nat], NEW from \in D, NEW n \in Nat,
           NEW to \in [1 .. n -> D], NEW parts \in [1 .. n -> Nat]
    PROVE  \E f : Paying(f, n, table, from, to, parts)
<1> DEFINE S == [D -> Int]
           step == [i \in 1 .. n |-> [t \in S |-> Move(t, from, to[i], parts[i])]]
<1>1. ASSUME NEW i \in 1 .. n, NEW t \in S
      PROVE  Move(t, from, to[i], parts[i]) \in S
  <2>1. to[i] \in D /\ parts[i] \in Int
    OBVIOUS
  <2>2. [t EXCEPT ![from] = t[from] - parts[i]] \in S
    BY <2>1
  <2> QED
    BY <2>1, <2>2 DEF Move
<1>2. table \in S
  OBVIOUS
<1>3. step \in [1 .. n -> [S -> S]]
  <2> HIDE DEF S
  <2> QED
    BY <1>1
<1>4. \A i \in 1 .. n : \A t \in S : step[i][t] = Move(t, from, to[i], parts[i])
  <2> HIDE DEF S
  <2> QED
    OBVIOUS
<1> HIDE DEF S, step
<1>5. PICK f \in [0 .. n -> S] : Solves(f, n, table, step)
  BY <1>2, <1>3, RecursionSolved
<1>6. ASSUME NEW i \in 1 .. n
      PROVE  f[i] = Move(f[i - 1], from, to[i], parts[i])
  <2>1. f[i - 1] \in S
    <3>1. i - 1 \in 0 .. n
      OBVIOUS
    <3> QED
      BY <3>1
  <2> QED
    BY <1>4, <1>5, <2>1 DEF Solves
<1>7. f = [i \in 0 .. n |-> IF i = 0 THEN table ELSE Move(f[i - 1], from, to[i], parts[i])]
  <2>1. \A i \in 0 .. n : i # 0 => i \in 1 .. n
    OBVIOUS
  <2>2. \A i \in 0 .. n : f[i] = IF i = 0 THEN table ELSE Move(f[i - 1], from, to[i], parts[i])
    BY <1>5, <1>6, <2>1 DEF Solves
  <2>3. f = [i \in 0 .. n |-> f[i]]
    OBVIOUS
  <2> QED
    BY <2>2, <2>3
<1> QED
  BY <1>7 DEF Paying

\* A table after one of the accounts has paid so much to others of a group.
PaidOut(D, group, from, table, paid, sum) ==
    /\ paid \in [D -> Nat] /\ Total(paid) = Total(table)
    /\ \A a \in D \ {from} : paid[a] >= table[a]
    /\ paid[from] <= table[from]
    /\ \A a \in D \ (group \cup {from}) : paid[a] = table[a]
    /\ from \in group => HeldBy(group, paid) = HeldBy(group, table)
    /\ from \notin group => /\ HeldBy(group, paid) = HeldBy(group, table) + sum
                            /\ paid[from] = table[from] - sum

LEMMA PaysOneMore ==
    ASSUME NEW D, IsFiniteSet(D), NEW table \in [D -> Nat], NEW from \in D,
           NEW group \in SUBSET D, NEW to \in group, NEW amount \in Nat,
           NEW paid, NEW sum \in Nat, PaidOut(D, group, from, table, paid, sum),
           amount <= paid[from]
    PROVE  PaidOut(D, group, from, table, Move(paid, from, to, amount), sum + amount)
<1> DEFINE next == Move(paid, from, to, amount)
<1>1. paid \in [D -> Nat] /\ to \in D
  BY DEF PaidOut
<1>2. /\ next \in [D -> Nat] /\ Total(next) = Total(paid)
      /\ \A a \in D \ {from, to} : next[a] = paid[a]
      /\ from # to => next[from] = paid[from] - amount /\ next[to] = paid[to] + amount
      /\ from = to => next[to] = paid[to]
  BY <1>1, MoveEffect
<1>3. /\ HeldBy(group, paid) \in Nat
      /\ from \in group => HeldBy(group, next) = HeldBy(group, paid)
      /\ from \notin group => HeldBy(group, next) = HeldBy(group, paid) + amount
  BY <1>1, MoveIntoGroup
<1> HIDE DEF next
<1>4. \A a \in D : paid[a] \in Nat /\ table[a] \in Nat
  BY <1>1
<1>5. HeldBy(group, table) \in Nat
  <2>1. IsFiniteSet(group) /\ [a \in group |-> table[a]] \in [group -> Nat]
    BY FS_Subset
  <2> QED
    BY <2>1, TotalBounds DEF HeldBy
<1>6. /\ \A a \in D \ {from} : next[a] >= table[a]
      /\ next[from] <= table[from]
      /\ \A a \in D \ (group \cup {from}) : next[a] = table[a]
  BY <1>2, <1>4 DEF PaidOut
<1>7. from \notin group =>
          /\ HeldBy(group, next) = HeldBy(group, table) + (sum + amount)
          /\ next[from] = table[from] - (sum + amount)
  <2>1. from \notin group => from # to
    OBVIOUS
  <2> QED
    BY <1>2, <1>3, <1>4, <1>5, <2>1 DEF PaidOut
<1> QED
  BY <1>2, <1>3, <1>6, <1>7 DEF PaidOut, next

\* If the payer can afford every part, nobody else loses, nobody outside the group
\* that is paid gains, and the group gets all of the parts, unless it pays itself.
LEMMA PaidAlong ==
    ASSUME NEW D, IsFiniteSet(D), NEW table \in [D -> Nat], NEW from \in D, NEW n \in Nat,
           NEW to \in [1 .. n -> D], NEW parts \in [1 .. n -> Nat],
           NEW f, Paying(f, n, table, from, to, parts),
           \A i \in 1 .. n : f[i - 1][from] >= parts[i],
           NEW group \in SUBSET D, \A i \in 1 .. n : to[i] \in group
    PROVE  PaidOut(D, group, from, table, f[n], Total(parts))
<1> DEFINE wrong == {k \in 0 .. n :
                        ~ PaidOut(D, group, from, table, f[k], SumUpTo(parts, k))}
<1>1. /\ f[0] = table
      /\ \A i \in 1 .. n : f[i] = Move(f[i - 1], from, to[i], parts[i])
  <2>1. f = [i \in 0 .. n |-> IF i = 0 THEN table ELSE Move(f[i - 1], from, to[i], parts[i])]
    BY DEF Paying
  <2> DEFINE e(i) == IF i = 0 THEN table ELSE Move(f[i - 1], from, to[i], parts[i])
  <2>2. \A i \in 0 .. n : f[i] = e(i)
    <3> HIDE DEF e
    <3>1. f = [i \in 0 .. n |-> e(i)]
      BY <2>1 DEF e
    <3> QED
      BY <3>1
  <2>3. 0 \in 0 .. n /\ \A i \in 1 .. n : i \in 0 .. n /\ i # 0
    OBVIOUS
  <2> QED
    BY <2>2, <2>3
<1>2. /\ SumUpTo(parts, 0) = 0 /\ SumUpTo(parts, n) = Total(parts)
      /\ \A k \in 0 .. n : SumUpTo(parts, k) \in Nat
      /\ \A k \in 0 .. n - 1 : SumUpTo(parts, k + 1) = SumUpTo(parts, k) + parts[k + 1]
  BY SumSteps
<1>3. 0 \notin wrong
  <2>1. from \notin group =>
           /\ HeldBy(group, table) = HeldBy(group, table) + 0
           /\ table[from] = table[from] - 0
    <3>1. CASE group = {}
      <4>1. DOMAIN [a \in group |-> table[a]] = {}
        BY <3>1
      <4> QED
        BY <4>1, TotalNone DEF HeldBy
    <3>2. CASE group # {}
      <4>1. IsFiniteSet(group) /\ [a \in group |-> table[a]] \in [group -> Nat]
        BY FS_Subset
      <4>2. HeldBy(group, table) \in Nat
        BY <3>2, <4>1, TotalBounds DEF HeldBy
      <4> QED
        BY <4>2
    <3> QED
      BY <3>1, <3>2
  <2>2. PaidOut(D, group, from, table, table, 0)
    BY <2>1 DEF PaidOut
  <2> QED
    BY <1>1, <1>2, <2>2
<1>4. ASSUME NEW k \in 0 .. n - 1, k \notin wrong
      PROVE  k + 1 \notin wrong
  <2>1. k + 1 \in 1 .. n /\ k + 1 - 1 = k /\ k \in 0 .. n
    OBVIOUS
  <2>2. /\ PaidOut(D, group, from, table, f[k], SumUpTo(parts, k))
        /\ SumUpTo(parts, k) \in Nat
        /\ SumUpTo(parts, k + 1) = SumUpTo(parts, k) + parts[k + 1]
    BY <1>2, <1>4, <2>1
  <2>3. parts[k + 1] \in Nat /\ to[k + 1] \in group
    BY <2>1
  <2>4. f[k + 1] = Move(f[k], from, to[k + 1], parts[k + 1])
    BY <1>1, <2>1
  <2>5. parts[k + 1] <= f[k][from]
    <3>1. f[k + 1 - 1][from] >= parts[k + 1]
      BY <2>1
    <3>2. f[k][from] \in Nat
      BY <2>2 DEF PaidOut
    <3> QED
      BY <2>1, <2>3, <3>1, <3>2
  <2>6. PaidOut(D, group, from, table, f[k + 1], SumUpTo(parts, k + 1))
    BY <2>2, <2>3, <2>4, <2>5, PaysOneMore
  <2> QED
    BY <2>6
<1>5. n \in 0 .. n /\ wrong \in SUBSET (0 .. n)
  OBVIOUS
<1>6. n \notin wrong
  <2> HIDE DEF wrong
  <2>1. wrong = {}
    BY <1>3, <1>4, <1>5, NoFirstFailure
  <2> QED
    BY <2>1
<1> QED
  BY <1>2, <1>5, <1>6

-----------------------------------------------------------------------------
(* A route that names its accounts in any order, and several times. *)

\* What the first k parts pay to an account.
PaidIn(account, to, parts, k) ==
    Total([i \in {j \in 1 .. k : to[j] = account} |-> parts[i]])

\* It grows with each part that names the account.
PaysByPart(account, to, parts, n) ==
    /\ PaidIn(account, to, parts, 0) = 0
    /\ \A k \in 0 .. n : PaidIn(account, to, parts, k) \in Nat
    /\ \A k \in 0 .. n - 1 :
          PaidIn(account, to, parts, k + 1) = PaidIn(account, to, parts, k)
             + (IF to[k + 1] = account THEN parts[k + 1] ELSE 0)

LEMMA PaidInSteps ==
    ASSUME NEW n \in Nat, NEW to, NEW parts \in [1 .. n -> Nat], NEW account
    PROVE  PaysByPart(account, to, parts, n)
<1> DEFINE Named(k) == {j \in 1 .. k : to[j] = account}
           pays(k)  == [i \in Named(k) |-> parts[i]]
<1>1. PaidIn(account, to, parts, 0) = 0
  <2>1. DOMAIN pays(0) = {}
    OBVIOUS
  <2> QED
    BY <2>1, TotalNone DEF PaidIn
<1>2. ASSUME NEW k \in 0 .. n
      PROVE  IsFiniteSet(Named(k)) /\ pays(k) \in [Named(k) -> Nat]
  <2>1. IsFiniteSet(1 .. k) /\ Named(k) \subseteq 1 .. k
    BY FS_Interval
  <2> QED
    BY <2>1, FS_Subset
<1>3. ASSUME NEW k \in 0 .. n
      PROVE  PaidIn(account, to, parts, k) \in Nat
  <2>1. PaidIn(account, to, parts, k) = Total(pays(k)) /\ DOMAIN pays(k) = Named(k)
    BY DEF PaidIn
  <2>2. IsFiniteSet(Named(k)) /\ pays(k) \in [Named(k) -> Nat]
    BY <1>2
  <2> HIDE DEF pays, Named
  <2>3. CASE Named(k) = {}
    BY <2>1, <2>3, TotalNone
  <2>4. CASE Named(k) # {}
    BY <2>1, <2>2, <2>4, TotalBounds
  <2> QED
    BY <2>3, <2>4
<1>4. ASSUME NEW k \in 0 .. n - 1
      PROVE  PaidIn(account, to, parts, k + 1) = PaidIn(account, to, parts, k)
                + (IF to[k + 1] = account THEN parts[k + 1] ELSE 0)
  <2>1. k \in 0 .. n /\ k + 1 \in 0 .. n /\ k + 1 \notin 1 .. k /\ 1 .. k + 1 = (1 .. k) \cup {k + 1}
    OBVIOUS
  <2>2. CASE to[k + 1] = account
    <3>1. Named(k + 1) = Named(k) \cup {k + 1} /\ k + 1 \notin Named(k)
      BY <2>1, <2>2
    <3>2. pays(k) = [i \in Named(k) |-> pays(k + 1)[i]] /\ pays(k + 1)[k + 1] = parts[k + 1]
      BY <3>1
    <3>3. IsFiniteSet(Named(k)) /\ pays(k + 1) \in [Named(k) \cup {k + 1} -> Nat]
      BY <1>2, <2>1, <3>1
    <3>4. /\ PaidIn(account, to, parts, k) = Total(pays(k))
          /\ PaidIn(account, to, parts, k + 1) = Total(pays(k + 1))
      BY DEF PaidIn
    <3> HIDE DEF pays, Named
    <3>5. /\ Total([i \in Named(k) |-> pays(k + 1)[i]]) \in Nat
          /\ Total(pays(k + 1)) = Total([i \in Named(k) |-> pays(k + 1)[i]])
                                     + pays(k + 1)[k + 1]
      BY <3>1, <3>3, TotalInsert
    <3>6. PaidIn(account, to, parts, k + 1) = PaidIn(account, to, parts, k) + parts[k + 1]
      BY <3>2, <3>4, <3>5, Zenon
    <3> QED
      BY <2>2, <3>6, Zenon
  <2>3. CASE to[k + 1] # account
    <3>1. Named(k + 1) = Named(k)
      BY <2>1, <2>3
    <3>2. PaidIn(account, to, parts, k + 1) = PaidIn(account, to, parts, k)
      BY <3>1 DEF PaidIn
    <3>3. PaidIn(account, to, parts, k) \in Nat
      BY <1>3, <2>1
    <3> QED
      BY <2>3, <3>2, <3>3
  <2> QED
    BY <2>2, <2>3
<1> QED
  BY <1>1, <1>3, <1>4 DEF PaysByPart

\* What accounts hold, with what the first k parts pay them.
HeldWith(D, base, to, parts, k) ==
    [c \in D |-> base[c] + PaidIn(c, to, parts, k)]

\* If everyone who is paid is one of the accounts, they get all that is paid.
LEMMA RouteTotal ==
    ASSUME NEW D, IsFiniteSet(D), NEW base \in [D -> Nat], NEW n \in Nat,
           NEW to \in [1 .. n -> D], NEW parts \in [1 .. n -> Nat], Total(base) \in Nat
    PROVE  Total(HeldWith(D, base, to, parts, n)) = Total(base) + Total(parts)
<1> DEFINE held(k) == HeldWith(D, base, to, parts, k)
           wrong == {k \in 0 .. n : Total(held(k)) # Total(base) + SumUpTo(parts, k)}
<1>1. /\ SumUpTo(parts, 0) = 0 /\ SumUpTo(parts, n) = Total(parts)
      /\ \A k \in 0 .. n : SumUpTo(parts, k) \in Nat
      /\ \A k \in 0 .. n - 1 : SumUpTo(parts, k + 1) = SumUpTo(parts, k) + parts[k + 1]
  BY SumSteps
<1>2. ASSUME NEW c \in D
      PROVE  base[c] \in Nat /\ PaysByPart(c, to, parts, n)
  BY PaidInSteps
<1>3. 0 \notin wrong
  <2>1. held(0) = base
    BY <1>2 DEF HeldWith, PaysByPart
  <2> QED
    BY <1>1, <2>1
<1>4. ASSUME NEW k \in 0 .. n - 1, k \notin wrong
      PROVE  k + 1 \notin wrong
  <2> DEFINE now == held(k)
             r   == to[k + 1]
             part == parts[k + 1]
  <2>1. k + 1 \in 1 .. n /\ k \in 0 .. n /\ r \in D /\ part \in Nat
    OBVIOUS
  <2>2. now \in [D -> Nat] /\ now[r] \in Nat
    <3>1. ASSUME NEW c \in D
          PROVE  base[c] + PaidIn(c, to, parts, k) \in Nat
      <4>1. base[c] \in Nat /\ PaidIn(c, to, parts, k) \in Nat
        BY <1>2, <2>1 DEF PaysByPart
      <4> QED
        BY <4>1
    <3> QED
      BY <2>1, <3>1 DEF HeldWith
  <2>3. held(k + 1) = [now EXCEPT ![r] = now[r] + part]
    <3>1. ASSUME NEW c \in D
          PROVE  base[c] + PaidIn(c, to, parts, k + 1)
                    = IF c = r THEN base[c] + PaidIn(c, to, parts, k) + part
                               ELSE base[c] + PaidIn(c, to, parts, k)
      <4>1. /\ base[c] \in Nat /\ PaidIn(c, to, parts, k) \in Nat
            /\ PaidIn(c, to, parts, k + 1) = PaidIn(c, to, parts, k)
                  + (IF r = c THEN part ELSE 0)
        BY <1>2, <2>1 DEF PaysByPart
      <4> HIDE DEF r, part
      <4> QED
        BY <2>1, <4>1
    <3> HIDE DEF r, part
    <3> QED
      BY <2>1, <3>1 DEF HeldWith
  <2>4. Total(now) = Total(base) + SumUpTo(parts, k)
    BY <1>4, <2>1
  <2> HIDE DEF now, r, part
  <2>5. Total(held(k + 1)) = Total(now) - now[r] + (now[r] + part)
    <3>1. now[r] + part \in Nat
      BY <2>1, <2>2
    <3>2. Total([now EXCEPT ![r] = now[r] + part]) = Total(now) - now[r] + (now[r] + part)
      BY <2>1, <2>2, <3>1, TotalUpdate
    <3> QED
      BY <2>3, <3>2
  <2>6. SumUpTo(parts, k) \in Nat /\ SumUpTo(parts, k + 1) = SumUpTo(parts, k) + part
    BY <1>1, <2>1 DEF part
  <2>7. Total(held(k + 1)) = Total(base) + SumUpTo(parts, k + 1)
    <3> HIDE DEF held
    <3> QED
      BY <2>1, <2>2, <2>4, <2>5, <2>6
  <2> QED
    BY <2>7
<1>5. n \in 0 .. n /\ wrong \in SUBSET (0 .. n)
  OBVIOUS
<1>6. n \notin wrong
  <2> HIDE DEF wrong
  <2>1. wrong = {}
    BY <1>3, <1>4, <1>5, NoFirstFailure
  <2> QED
    BY <2>1
<1> QED
  BY <1>1, <1>5, <1>6
=============================================================================
