-------------------------- MODULE StructuresProofs --------------------------
(***************************************************************************)
(* Machine-checked theorems about the structures of the vendored library:  *)
(* casts are exact, the set and the map keep their promises, and           *)
(* checkpoints are ordered, for every size of the words, every type and    *)
(* every input; and the exit code of the prover script tells the truth.    *)
(***************************************************************************)
EXTENDS EnumerableMap, Checkpoints, CertoraRun, VaultMathProofs, FunctionTheorems,
        SequenceTheorems

-----------------------------------------------------------------------------
(* Widths, conversions and casts. *)

\* The powers of two.
LEMMA TwoToIs ==
    ASSUME NEW n \in 0 .. WORD_BITS
    PROVE  /\ TwoTo[n] \in Nat \ {0}
           /\ n = 0 => TwoTo[n] = 1
           /\ n > 0 => TwoTo[n] = 2 * TwoTo[n - 1]
<1>1. n \in Nat /\ \A k \in 0 .. WORD_BITS : TwoTo[k] = Power(2, k)
  BY WordAssumption DEF TwoTo
<1>2. Power(2, n) \in Nat \ {0}
  BY <1>1, PowerPositive
<1>3. Power(2, 0) = 1
  BY PowerSteps
<1>4. ASSUME n > 0
      PROVE  TwoTo[n] = 2 * TwoTo[n - 1]
  <2>1. n - 1 \in Nat /\ n - 1 \in 0 .. WORD_BITS /\ n - 1 + 1 = n
    BY <1>1, <1>4, WordAssumption
  <2>2. Power(2, n) = 2 * Power(2, n - 1)
    BY <2>1, PowerSteps
  <2> QED
    BY <1>1, <2>1, <2>2
<1> QED
  BY <1>1, <1>2, <1>3, <1>4

LEMMA WordSize == WORDS \in Nat \ {0}
<1>1. WORD_BITS \in 0 .. WORD_BITS
  BY WordAssumption
<1> QED
  BY <1>1, TwoToIs DEF WORDS

LEMMA KeyMaxNatural ==
    /\ KeyMax \in Nat /\ KeyMax = TwoTo[KEY_BITS] - 1
    /\ TwoTo[KEY_BITS] \in Nat \ {0} /\ Reverted \notin Nat
<1>1. KEY_BITS \in 0 .. WORD_BITS
  BY WordAssumption, CheckpointsAssumption
<1>2. TwoTo[KEY_BITS] \in Nat \ {0}
  BY <1>1, TwoToIs
<1> QED
  BY <1>2, WordAssumption DEF KeyMax

\* The low bits of a number that is in range, or below zero by less than that.
LEMMA LowBits ==
    ASSUME NEW n \in Nat \ {0}, NEW x \in Int
    PROVE  /\ x % n \in 0 .. n - 1
           /\ x \in 0 .. n - 1 => x % n = x
           /\ x \in -n .. -1 => x % n = x + n
OBVIOUS

\* A signed cast returns a number of its type, and every number of it unchanged.
LEMMA SignedIs ==
    ASSUME NEW bits \in 1 .. WORD_BITS, NEW x \in Int
    PROVE  /\ Signed(bits, x) \in IntRange(bits)
           /\ x \in IntRange(bits) => Signed(bits, x) = x
<1> DEFINE n == TwoTo[bits]
           h == TwoTo[bits - 1]
           u == x % n
<1>1. n \in Nat \ {0} /\ h \in Nat \ {0} /\ n = 2 * h
  <2>1. bits \in 0 .. WORD_BITS /\ bits - 1 \in 0 .. WORD_BITS /\ bits > 0
    BY WordAssumption
  <2> QED
    BY <2>1, TwoToIs
<1>2. Signed(bits, x) = IF u < h THEN u ELSE u - n
  BY DEF Signed, Unsigned
<1>3. IntRange(bits) = -h .. h - 1
  BY DEF IntRange
<1> HIDE DEF n, h
<1>4. /\ u \in 0 .. n - 1
      /\ x \in 0 .. n - 1 => u = x
      /\ x \in -n .. -1 => u = x + n
  BY <1>1, LowBits
<1> HIDE DEF u
<1> QED
  BY <1>1, <1>2, <1>3, <1>4

LEMMA UnsignedIs ==
    ASSUME NEW bits \in 0 .. WORD_BITS, NEW x \in UintRange(bits)
    PROVE  Unsigned(bits, x) = x
<1> DEFINE n == TwoTo[bits]
<1>1. n \in Nat \ {0}
  BY TwoToIs
<1>2. x \in 0 .. n - 1
  BY DEF UintRange
<1> HIDE DEF n
<1>3. x \in Int
  BY <1>1, <1>2
<1>4. x % n = x
  BY <1>1, <1>2, <1>3, LowBits
<1> QED
  BY <1>4 DEF n, Unsigned

LEMMA EachCastIsExact ==
    ASSUME operand \in Operand
    PROVE  CastsAreExact
<1>1. WORD_BITS \in 0 .. WORD_BITS /\ WORD_BITS \in 1 .. WORD_BITS
  BY WordAssumption
<1>2. ASSUME NEW bits \in 1 .. WORD_BITS
      PROVE  /\ TwoTo[bits] \in Nat \ {0} /\ TwoTo[bits - 1] \in Nat \ {0}
             /\ bits \in 0 .. WORD_BITS
  <2>1. bits \in 0 .. WORD_BITS /\ bits - 1 \in 0 .. WORD_BITS
    BY WordAssumption
  <2> QED
    BY <2>1, TwoToIs
<1>3. operand \in Int
  BY <1>1, <1>2 DEF Operand, UintRange, IntRange
<1>4. ASSUME NEW bits \in 1 .. WORD_BITS, operand \in UintRange(WORD_BITS)
      PROVE  ToUintDownCast(bits, operand)
                = IF operand \in UintRange(bits) THEN operand ELSE Reverted
  <2>1. operand \in 0 .. TwoTo[WORD_BITS] - 1
    BY <1>4 DEF UintRange
  <2>2. operand <= TwoTo[bits] - 1 <=> operand \in UintRange(bits)
    BY <1>1, <1>2, <2>1 DEF UintRange
  <2> QED
    BY <1>2, <2>2, UnsignedIs DEF ToUintDownCast
<1>5. ASSUME NEW bits \in 1 .. WORD_BITS
      PROVE  ToIntDownCast(bits, operand)
                = IF operand \in IntRange(bits) THEN operand ELSE Reverted
  <2>1. Signed(bits, operand) = operand <=> operand \in IntRange(bits)
    BY <1>3, SignedIs
  <2> QED
    BY <2>1, Zenon DEF ToIntDownCast
<1>6. ASSUME operand \in UintRange(WORD_BITS)
      PROVE  ToInt(WORD_BITS, operand)
                = IF operand \in IntRange(WORD_BITS) THEN operand ELSE Reverted
  <2>1. operand <= TwoTo[WORD_BITS - 1] - 1 <=> operand \in IntRange(WORD_BITS)
    BY <1>1, <1>2, <1>6 DEF UintRange, IntRange
  <2> QED
    BY <1>1, <1>3, <2>1, SignedIs DEF ToInt
<1>7. ASSUME operand \in IntRange(WORD_BITS)
      PROVE  ToUint(WORD_BITS, operand)
                = IF operand \in UintRange(WORD_BITS) THEN operand ELSE Reverted
  <2>1. operand >= 0 <=> operand \in UintRange(WORD_BITS)
    <3> DEFINE n == TwoTo[WORD_BITS]
               h == TwoTo[WORD_BITS - 1]
    <3>1. n \in Nat /\ h \in Nat /\ n = 2 * h
      BY <1>1, TwoToIs, WordAssumption, <1>2
    <3>2. operand \in -h .. h - 1
      BY <1>7 DEF IntRange
    <3> HIDE DEF n, h
    <3>3. operand >= 0 <=> operand \in 0 .. n - 1
      BY <3>1, <3>2
    <3> QED
      BY <3>3 DEF UintRange, n
  <2> QED
    BY <1>1, <2>1, UnsignedIs DEF ToUint
<1>8. LENGTHS \subseteq 1 .. WORD_BITS
  BY WordAssumption
<1> QED
  BY <1>4, <1>5, <1>6, <1>7, <1>8 DEF CastsAreExact

\* Every cast is exact or reverts, for every width and every operand.
THEOREM CastsExact == CastSpec => []CastsAreExact
<1>1. CastInit => operand \in Operand
  <2>1. WORD_BITS \in 0 .. WORD_BITS
    BY WordAssumption
  <2>2. 0 \in UintRange(WORD_BITS)
    BY <2>1, TwoToIs DEF UintRange
  <2> QED
    BY <2>2 DEF CastInit, Operand
<1>2. operand \in Operand /\ [CastNext]_operand => (operand \in Operand)'
  BY DEF CastNext, Operand, UintRange, IntRange
<1>3. operand \in Operand => CastsAreExact
  BY EachCastIsExact
<1> QED
  BY <1>1, <1>2, <1>3, PTL DEF CastSpec

\* On the values of a type the conversions change nothing.
LEMMA ConversionsKeepValues ==
    ASSUME NEW type \in DataType, NEW v \in Value(type)
    PROVE  v \in Word /\ toBytes32(type, v) = v /\ fromBytes32(type, v) = v
BY WordAssumption, WordSize DEF DataType, Value, Word, toBytes32, fromBytes32

-----------------------------------------------------------------------------
(* The set of words, whose words are the values of a type. *)

Stored == {values[i] : i \in 1 .. Len(values)}

SetState(type) ==
    /\ values \in Seq(Value(type))
    /\ indexes \in [Word -> Nat]
    /\ IndexesArePositions

LEMMA ContainsStored ==
    ASSUME NEW type \in DataType, SetState(type), NEW w \in Word
    PROVE  InnerContains(w) <=> w \in Stored
BY DEF SetState, IndexesArePositions, InnerContains, Stored

LEMMA SetInitState ==
    ASSUME NEW type \in DataType, SetInit
    PROVE  SetState(type) /\ Stored = {}
BY DEF SetInit, SetState, IndexesArePositions, Stored

LEMMA SetStutterState ==
    ASSUME NEW type \in DataType, SetState(type), UNCHANGED <<values, indexes>>
    PROVE  SetState(type)' /\ Stored' = Stored
BY DEF SetState, IndexesArePositions, Stored

LEMMA AddEffect ==
    ASSUME NEW type \in DataType, SetState(type), NEW v \in Value(type), InnerAdd(v)
    PROVE  /\ SetState(type)'
           /\ Stored' = Stored \cup {v}
           /\ result' = (v \notin Stored)
<1>1. v \in Word
  BY ConversionsKeepValues
<1>2. InnerContains(v) <=> v \in Stored
  BY <1>1, ContainsStored
<1>3. CASE InnerContains(v)
  BY <1>2, <1>3, SetStutterState DEF InnerAdd
<1>4. CASE ~InnerContains(v)
  <2> DEFINE n == Len(values) + 1
  <2>1. values' = Append(values, v) /\ indexes' = [indexes EXCEPT ![v] = n] /\ result' = TRUE
    BY <1>4 DEF InnerAdd
  <2>2. /\ values' \in Seq(Value(type)) /\ Len(values') = n /\ n \in Nat \ {0}
        /\ values'[n] = v
        /\ \A i \in 1 .. n - 1 : values'[i] = values[i]
    BY <2>1 DEF SetState
  <2>3. /\ indexes' \in [Word -> Nat] /\ indexes'[v] = n
        /\ \A w \in Word \ {v} : indexes'[w] = indexes[w]
    BY <1>1, <2>1, <2>2 DEF SetState
  <2>4. \A i \in 1 .. n - 1 : values[i] # v
    BY <1>2, <1>4 DEF Stored
  <2>5. \A i \in 1 .. n : indexes'[values'[i]] = i
    <3>1. \A i \in 1 .. n - 1 : values[i] \in Word /\ indexes[values[i]] = i
      BY ConversionsKeepValues DEF SetState, IndexesArePositions
    <3> QED
      BY <2>2, <2>3, <2>4, <3>1
  <2>6. ASSUME NEW w \in Word, indexes'[w] # 0
        PROVE  indexes'[w] \in 1 .. n /\ values'[indexes'[w]] = w
    BY <2>2, <2>3, <2>6 DEF SetState, IndexesArePositions
  <2>7. Stored' = Stored \cup {v}
    BY <2>2 DEF Stored
  <2> QED
    BY <1>2, <1>4, <2>1, <2>2, <2>3, <2>5, <2>6, <2>7 DEF SetState, IndexesArePositions
<1> QED
  BY <1>3, <1>4

LEMMA RemoveEffect ==
    ASSUME NEW type \in DataType, SetState(type), NEW v \in Value(type), InnerRemove(v)
    PROVE  /\ SetState(type)'
           /\ Stored' = Stored \ {v}
           /\ result' = (v \in Stored)
<1>1. v \in Word
  BY ConversionsKeepValues
<1>2. InnerContains(v) <=> v \in Stored
  BY <1>1, ContainsStored
<1>3. CASE ~InnerContains(v)
  <2>1. UNCHANGED <<values, indexes>> /\ result' = FALSE
    BY <1>3 DEF InnerRemove
  <2>2. Stored \ {v} = Stored
    BY <1>2, <1>3
  <2>3. SetState(type)' /\ Stored' = Stored
    BY <2>1, SetStutterState
  <2>4. (v \in Stored) = FALSE
    BY <1>2, <1>3
  <2> QED
    BY <2>1, <2>2, <2>3, <2>4
<1>4. CASE InnerContains(v)
  <2> DEFINE n     == Len(values)
             p     == indexes[v]
             moved == [values EXCEPT ![p] = values[n]]
  <2>1. /\ values' = SubSeq(moved, 1, n - 1)
        /\ indexes' = [indexes EXCEPT ![values[n]] = p, ![v] = 0]
        /\ result' = TRUE
    BY <1>4 DEF InnerRemove
  <2>2. n \in Nat \ {0} /\ p \in 1 .. n /\ values[p] = v
    BY <1>1, <1>4 DEF SetState, IndexesArePositions, InnerContains
  <2>3. \A i \in 1 .. n : values[i] \in Value(type) /\ values[i] \in Word /\ indexes[values[i]] = i
    BY ConversionsKeepValues DEF SetState, IndexesArePositions
  <2>4. moved \in Seq(Value(type)) /\ Len(moved) = n
    BY <2>2, <2>3 DEF SetState
  <2>5. /\ values' \in Seq(Value(type)) /\ Len(values') = n - 1
        /\ \A i \in 1 .. n - 1 : values'[i] = IF i = p THEN values[n] ELSE values[i]
    <3>1. \A i \in 1 .. n : moved[i] = IF i = p THEN values[n] ELSE values[i]
      BY <2>2 DEF SetState
    <3> HIDE DEF moved
    <3> QED
      BY <2>1, <2>2, <2>4, <3>1
  <2>6. /\ indexes' \in [Word -> Nat] /\ indexes'[v] = 0
        /\ values[n] # v => indexes'[values[n]] = p
        /\ \A w \in Word \ {v, values[n]} : indexes'[w] = indexes[w]
    BY <1>1, <2>1, <2>2, <2>3 DEF SetState
  <2>7. values[n] = v <=> p = n
    BY <2>2, <2>3
  <2>8. indexes[v] = p
    OBVIOUS
  <2> HIDE DEF n, p, moved
  <2>9. ASSUME NEW i \in 1 .. n - 1
         PROVE  indexes'[values'[i]] = i
    <3>1. i \in 1 .. n /\ n \in 1 .. n /\ i # n
      BY <2>2
    <3>2. CASE i = p
      BY <2>5, <2>6, <2>7, <3>1, <3>2
    <3>3. CASE i # p
      <4>1. values[i] \in Word \ {v, values[n]}
        BY <2>3, <2>8, <3>1, <3>3
      <4> QED
        BY <2>3, <2>5, <2>6, <3>1, <3>3, <4>1
    <3> QED
      BY <3>2, <3>3
  <2>10. ASSUME NEW w \in Word, indexes'[w] # 0
        PROVE  indexes'[w] \in 1 .. n - 1 /\ values'[indexes'[w]] = w
    <3>1. CASE w = values[n]
      BY <2>2, <2>5, <2>6, <2>7, <2>10, <3>1
    <3>2. CASE w # values[n]
      <4>1. indexes'[w] = indexes[w] /\ w # v
        BY <2>6, <2>10, <3>2
      <4>2. indexes[w] \in 1 .. n /\ values[indexes[w]] = w
        BY <2>10, <4>1 DEF SetState, IndexesArePositions, n
      <4> QED
        BY <2>2, <2>5, <3>2, <4>1, <4>2
    <3> QED
      BY <3>1, <3>2
  <2>11. Stored' = Stored \ {v}
    <3>1. \A w \in Word : w \in Stored <=> indexes[w] # 0
      BY ContainsStored DEF InnerContains
    <3>2. Stored \subseteq Word
      BY <2>3 DEF Stored, n
    <3>3. \A i \in 1 .. n - 1 : values'[i] \in Stored \ {v}
      BY <2>2, <2>3, <2>5, <2>7 DEF Stored, n
    <3>4. ASSUME NEW w \in Stored \ {v}
          PROVE  w \in Stored'
      <4>1. PICK i \in 1 .. n : values[i] = w
        BY DEF Stored, n
      <4>2. CASE i = n
        <5>1. p \in 1 .. n - 1 /\ values'[p] = w
          BY <2>2, <2>5, <2>7, <4>1, <4>2
        <5> QED
          BY <2>5, <5>1 DEF Stored
      <4>3. CASE i # n
        <5>1. i \in 1 .. n - 1 /\ values'[i] = w
          BY <2>2, <2>5, <4>1, <4>3
        <5> QED
          BY <2>5, <5>1 DEF Stored
      <4> QED
        BY <4>2, <4>3
    <3> QED
      BY <2>5, <3>3, <3>4 DEF Stored
  <2> QED
    BY <1>2, <1>4, <2>1, <2>5, <2>6, <2>10, <2>11, <2>9 DEF SetState, IndexesArePositions
<1> QED
  BY <1>3, <1>4

\* The words that are stored, counted by their positions.
LEMMA StoredCounted ==
    ASSUME NEW type \in DataType, SetState(type)
    PROVE  Len(values) = Cardinality(Stored)
<1> DEFINE n == Len(values)
           position == [i \in 1 .. n |-> values[i]]
<1>1. n \in Nat
  BY DEF SetState
<1>2. \A i \in 1 .. n : values[i] \in Stored /\ indexes[values[i]] = i
  BY DEF SetState, IndexesArePositions, Stored
<1>3. position \in Bijection(1 .. n, Stored)
  <2>1. position \in [1 .. n -> Stored]
    BY <1>2
  <2>2. \A i, j \in 1 .. n : position[i] = position[j] => i = j
    BY <1>2
  <2>3. \A w \in Stored : \E i \in 1 .. n : position[i] = w
    BY DEF Stored
  <2> HIDE DEF position
  <2> QED
    BY <2>1, <2>2, <2>3 DEF Bijection, Injection, Surjection, IsInjective
<1>4. ExistsBijection(1 .. n, Stored)
  BY <1>3 DEF ExistsBijection
<1> QED
  BY <1>1, <1>4, FS_CountingElements

-----------------------------------------------------------------------------
(* The set of a type. *)

LEMMA ElementsStored ==
    ASSUME SetState(SetType)
    PROVE  Elements = Stored
<1>1. \A i \in 1 .. Len(values) : fromBytes32(SetType, values[i]) = values[i]
  BY SetAssumption, ConversionsKeepValues DEF SetState
<1> QED
  BY <1>1 DEF Elements, Stored

LEMMA ElementsStayStored ==
    ASSUME SetState(SetType)'
    PROVE  Elements' = Stored'
<1>1. \A i \in 1 .. Len(values') : fromBytes32(SetType, values'[i]) = values'[i]
  BY SetAssumption, ConversionsKeepValues DEF SetState
<1> QED
  BY <1>1 DEF Elements, Stored

LEMMA SetNextEffect ==
    ASSUME SetState(SetType), [SetNext]_setVars
    PROVE  SetState(SetType)' /\ [Promise!Next]_(Promise!vars)
<1>1. SetType \in DataType /\ Elements = Stored
  BY SetAssumption, ElementsStored
<1>2. CASE UNCHANGED setVars
  <2>1. SetState(SetType)' /\ Elements' = Elements
    BY <1>1, <1>2, SetStutterState DEF setVars, Elements
  <2> QED
    BY <1>2, <2>1 DEF setVars, Promise!vars
<1>3. ASSUME NEW value \in SetInput, Add(value)
      PROVE  SetState(SetType)' /\ Promise!Add(value)
  <2>1. value \in Value(SetType) /\ InnerAdd(value)
    BY <1>3, SetAssumption, ConversionsKeepValues DEF Add
  <2>2. SetState(SetType)' /\ Stored' = Stored \cup {value} /\ result' = (value \notin Stored)
    BY <1>1, <2>1, AddEffect
  <2>3. Elements' = Stored'
    BY <2>2, ElementsStayStored
  <2> QED
    BY <1>1, <2>2, <2>3 DEF Promise!Add
<1>4. ASSUME NEW value \in SetInput, Remove(value)
      PROVE  SetState(SetType)' /\ Promise!Remove(value)
  <2>1. value \in Value(SetType) /\ InnerRemove(value)
    BY <1>4, SetAssumption, ConversionsKeepValues DEF Remove
  <2>2. SetState(SetType)' /\ Stored' = Stored \ {value} /\ result' = (value \in Stored)
    BY <1>1, <2>1, RemoveEffect
  <2>3. Elements' = Stored'
    BY <2>2, ElementsStayStored
  <2> QED
    BY <1>1, <2>2, <2>3 DEF Promise!Remove
<1> QED
  BY <1>2, <1>3, <1>4 DEF SetNext, Promise!Next

LEMMA SetInitEffect ==
    ASSUME SetInit
    PROVE  SetState(SetType) /\ Promise!Init
<1>1. SetState(SetType) /\ Stored = {}
  BY SetAssumption, SetInitState
<1> QED
  BY <1>1, ElementsStored DEF SetInit, Promise!Init

LEMMA SetStateAgrees ==
    ASSUME SetState(SetType)
    PROVE  EnumerationAgrees
<1>1. SetType \in DataType /\ Elements = Stored
  BY SetAssumption, ElementsStored
<1>2. \A i \in 1 .. Len(values) :
         values[i] \in Value(SetType) /\ fromBytes32(SetType, values[i]) = values[i]
  BY <1>1, ConversionsKeepValues DEF SetState
<1>3. Len(values) \in Nat
  BY DEF SetState
<1>4. \A i \in 0 .. Len(values) - 1 : At(i) = values[i + 1]
  BY <1>2, <1>3 DEF At, InnerAt
<1>5. {At(i) : i \in 0 .. Len(values) - 1} = Stored
  <2>1. \A i \in 0 .. Len(values) - 1 : At(i) \in Stored
    BY <1>3, <1>4 DEF Stored
  <2>2. ASSUME NEW w \in Stored
        PROVE  \E i \in 0 .. Len(values) - 1 : At(i) = w
    <3>1. PICK j \in 1 .. Len(values) : values[j] = w
      BY DEF Stored
    <3>2. j - 1 \in 0 .. Len(values) - 1 /\ At(j - 1) = w
      BY <1>3, <1>4, <3>1
    <3> QED
      BY <3>2
  <2> QED
    BY <2>1, <2>2
<1>6. ASSUME NEW v \in Value(SetType)
      PROVE  Contains(v) <=> v \in Stored
  BY <1>1, <1>6, ContainsStored, ConversionsKeepValues DEF Contains
<1>7. Len(values) = Cardinality(Stored)
  BY <1>1, StoredCounted
<1> QED
  BY <1>4, <1>5, <1>6, <1>7 DEF EnumerationAgrees, AllValues, InnerValues, InnerLength

\* Of a set of any type: positions and indexes are inverse, and enumeration,
\* membership and number agree, after any sequence of additions and removals.
THEOREM SetSound == SetSpec => []SetIsSound
<1>1. SetInit => SetState(SetType)
  BY SetInitEffect
<1>2. SetState(SetType) /\ [SetNext]_setVars => SetState(SetType)'
  BY SetNextEffect
<1>3. SetState(SetType) => SetIsSound
  BY SetStateAgrees DEF SetState, SetIsSound
<1> QED
  BY <1>1, <1>2, <1>3, PTL DEF SetSpec

\* The array and the indexes implement a set, which adds, removes and answers.
THEOREM SetRefines == SetSpec => ImplementsSet
<1>1. SetInit => SetState(SetType) /\ Promise!Init
  BY SetInitEffect
<1>2. SetState(SetType) /\ [SetNext]_setVars
         => SetState(SetType)' /\ [Promise!Next]_(Promise!vars)
  BY SetNextEffect
<1> QED
  BY <1>1, <1>2, PTL DEF SetSpec, ImplementsSet, Promise!Spec

-----------------------------------------------------------------------------
(* The map. *)

\* A key that is not stored has the value zero.
MapState ==
    /\ SetState(KeyType)
    /\ mapValues \in [Word -> Value(ValueType)]
    /\ \A w \in Word : mapValues[w] # 0 => w \in Stored

LEMMA EntriesStored ==
    ASSUME MapState
    PROVE  /\ Stored \subseteq Value(KeyType) /\ Keys = Stored
           /\ Entries = [k \in Stored |-> mapValues[k]]
<1>1. KeyType \in DataType /\ ValueType \in DataType
  BY MapAssumption
<1>2. \A i \in 1 .. Len(values) :
         values[i] \in Value(KeyType) /\ fromBytes32(KeyType, values[i]) = values[i]
  BY <1>1, ConversionsKeepValues DEF MapState, SetState
<1>3. Stored \subseteq Value(KeyType) /\ Keys = Stored
  BY <1>2 DEF Stored, Keys
<1>4. \A k \in Stored :
         fromBytes32(ValueType, mapValues[toBytes32(KeyType, k)]) = mapValues[k]
  BY <1>1, <1>3, ConversionsKeepValues DEF MapState
<1> QED
  BY <1>3, <1>4 DEF Entries

LEMMA EntriesStayStored ==
    ASSUME MapState'
    PROVE  Entries' = [k \in Stored' |-> mapValues'[k]]
<1>1. KeyType \in DataType /\ ValueType \in DataType
  BY MapAssumption
<1>2. \A i \in 1 .. Len(values') :
         values'[i] \in Value(KeyType) /\ fromBytes32(KeyType, values'[i]) = values'[i]
  BY <1>1, ConversionsKeepValues DEF MapState, SetState
<1>3. Stored' \subseteq Value(KeyType) /\ Keys' = Stored'
  BY <1>2 DEF Stored, Keys
<1>4. \A k \in Stored' :
         fromBytes32(ValueType, mapValues'[toBytes32(KeyType, k)]) = mapValues'[k]
  BY <1>1, <1>3, ConversionsKeepValues DEF MapState
<1> QED
  BY <1>3, <1>4 DEF Entries

LEMMA SetEntryEffect ==
    ASSUME MapState, NEW key \in KeyInput, NEW value \in ValueInput, SetEntry(key, value)
    PROVE  MapState' /\ MapPromise!Put(key, value)
<1>1. /\ key \in Value(KeyType) /\ key \in Word /\ KeyType \in DataType
      /\ value \in Value(ValueType) /\ ValueType \in DataType
      /\ InnerSet(key, value)
  BY MapAssumption, ConversionsKeepValues DEF SetEntry
<1>2. mapValues' = [mapValues EXCEPT ![key] = value] /\ InnerAdd(key)
  BY <1>1 DEF InnerSet
<1>3. /\ SetState(KeyType)' /\ Stored' = Stored \cup {key}
      /\ result' = (key \notin Stored)
  BY <1>1, <1>2, AddEffect DEF MapState
<1>4. MapState'
  BY <1>1, <1>2, <1>3 DEF MapState
<1>5. Entries = [k \in Stored |-> mapValues[k]] /\ Entries' = [k \in Stored' |-> mapValues'[k]]
  BY <1>4, EntriesStored, EntriesStayStored
<1>6. \A k \in Stored' : mapValues'[k] = IF k = key THEN value ELSE mapValues[k]
  <2>1. Stored' \subseteq Word
    BY <1>1, <1>3, ConversionsKeepValues, EntriesStored
  <2> QED
    BY <1>1, <1>2, <2>1 DEF MapState
<1>7. Entries' = [k \in DOMAIN Entries \cup {key} |-> IF k = key THEN value ELSE Entries[k]]
  BY <1>3, <1>5, <1>6
<1>8. DOMAIN Entries = Stored
  BY <1>5
<1> QED
  BY <1>3, <1>4, <1>7, <1>8 DEF MapPromise!Put

LEMMA DropEntryEffect ==
    ASSUME MapState, NEW key \in KeyInput, DropEntry(key)
    PROVE  MapState' /\ MapPromise!Drop(key)
<1>1. /\ key \in Value(KeyType) /\ key \in Word /\ KeyType \in DataType
      /\ 0 \in Value(ValueType) /\ InnerDrop(key)
  BY MapAssumption, WordAssumption, WordSize, ConversionsKeepValues
     DEF DropEntry, Value, Word
<1>2. mapValues' = [mapValues EXCEPT ![key] = 0] /\ InnerRemove(key)
  BY <1>1 DEF InnerDrop
<1>3. /\ SetState(KeyType)' /\ Stored' = Stored \ {key}
      /\ result' = (key \in Stored)
  BY <1>1, <1>2, RemoveEffect DEF MapState
<1>4. MapState'
  BY <1>1, <1>2, <1>3 DEF MapState
<1>5. Entries = [k \in Stored |-> mapValues[k]] /\ Entries' = [k \in Stored' |-> mapValues'[k]]
  BY <1>4, EntriesStored, EntriesStayStored
<1>6. \A k \in Stored' : k \in Stored /\ mapValues'[k] = mapValues[k]
  <2>1. Stored \subseteq Word
    BY <1>1, ConversionsKeepValues, EntriesStored
  <2> QED
    BY <1>2, <1>3, <2>1 DEF MapState
<1>7. Entries' = [k \in DOMAIN Entries \ {key} |-> Entries[k]]
  BY <1>3, <1>5, <1>6
<1>8. DOMAIN Entries = Stored
  BY <1>5
<1> QED
  BY <1>3, <1>4, <1>7, <1>8 DEF MapPromise!Drop

LEMMA MapNextEffect ==
    ASSUME MapState, [MapNext]_mapVars
    PROVE  MapState' /\ [MapPromise!Next]_(MapPromise!vars)
<1>1. CASE UNCHANGED mapVars
  <2>1. UNCHANGED <<values, indexes, mapValues, result>>
    BY <1>1 DEF mapVars, setVars
  <2>2. SetState(KeyType)' /\ Stored' = Stored
    BY <2>1, MapAssumption, SetStutterState DEF MapState
  <2>3. MapState'
    BY <2>1, <2>2 DEF MapState
  <2>4. Entries' = Entries
    BY <2>1 DEF Entries, Keys
  <2> QED
    BY <2>1, <2>3, <2>4 DEF MapPromise!vars
<1>2. ASSUME NEW key \in KeyInput, NEW value \in ValueInput, SetEntry(key, value)
      PROVE  MapState' /\ MapPromise!Next
  BY <1>2, MapAssumption, SetEntryEffect DEF MapPromise!Next
<1>3. ASSUME NEW key \in KeyInput, DropEntry(key)
      PROVE  MapState' /\ MapPromise!Next
  BY <1>3, DropEntryEffect DEF MapPromise!Next
<1> QED
  BY <1>1, <1>2, <1>3 DEF MapNext

LEMMA MapInitEffect ==
    ASSUME MapInit
    PROVE  MapState /\ MapPromise!Init
<1>1. SetState(KeyType) /\ Stored = {}
  BY MapAssumption, SetInitState DEF MapInit
<1>2. 0 \in Value(ValueType)
  BY WordAssumption, WordSize DEF Value, Word
<1>3. MapState
  BY <1>1, <1>2 DEF MapInit, MapState
<1>4. Entries = [k \in {} |-> 0]
  BY <1>1, <1>3, EntriesStored
<1> QED
  BY <1>3, <1>4 DEF MapInit, SetInit, MapPromise!Init

LEMMA MapStateReads ==
    ASSUME MapState
    PROVE  ReadsAgree
<1>1. KeyType \in DataType /\ ValueType \in DataType
  BY MapAssumption
<1>2. /\ Stored \subseteq Value(KeyType) /\ Keys = Stored
      /\ Entries = [k \in Stored |-> mapValues[k]]
  BY EntriesStored
<1>3. ASSUME NEW key \in Value(KeyType)
      PROVE  /\ HasKey(key) <=> key \in Keys
             /\ TryGet(key) = IF key \in Keys THEN <<TRUE, Entries[key]>> ELSE <<FALSE, 0>>
             /\ IF key \in Keys THEN Get(key) = Entries[key] ELSE Get(key) = Reverted
  <2>1. key \in Word /\ toBytes32(KeyType, key) = key
    BY <1>1, ConversionsKeepValues
  <2>2. InnerContains(key) <=> key \in Stored
    BY <1>1, <2>1, ContainsStored DEF MapState
  <2>3. /\ mapValues[key] \in Value(ValueType) /\ mapValues[key] \in Word
        /\ fromBytes32(ValueType, mapValues[key]) = mapValues[key]
        /\ fromBytes32(ValueType, 0) = 0
        /\ mapValues[key] # 0 => key \in Stored
    <3>1. mapValues[key] \in Value(ValueType) /\ 0 \in Value(ValueType)
      BY <2>1, WordAssumption, WordSize DEF MapState, Value, Word
    <3> QED
      BY <1>1, <2>1, <3>1, ConversionsKeepValues DEF MapState
  <2>4. mapValues[key] # Reverted
    BY <2>3, WordAssumption, WordSize DEF Word
  <2>5. HasKey(key) <=> key \in Keys
    BY <1>2, <2>1, <2>2 DEF HasKey
  <2>6. key \in Stored => Entries[key] = mapValues[key]
    BY <1>2
  <2>7. TryGet(key) = IF key \in Keys THEN <<TRUE, Entries[key]>> ELSE <<FALSE, 0>>
    <3>1. CASE key \in Stored
      <4>1. InnerContains(key) = TRUE
        BY <2>2, <3>1
      <4>2. InnerTryGet(key) = <<TRUE, mapValues[key]>>
        BY <4>1 DEF InnerTryGet
      <4>3. TryGet(key) = <<TRUE, mapValues[key]>>
        BY <2>1, <2>3, <4>2 DEF TryGet
      <4> QED
        BY <1>2, <2>6, <3>1, <4>3
    <3>2. CASE key \notin Stored
      <4>1. InnerContains(key) = FALSE /\ mapValues[key] = 0
        BY <2>2, <2>3, <3>2
      <4>2. InnerTryGet(key) = <<FALSE, 0>>
        BY <4>1 DEF InnerTryGet
      <4>3. TryGet(key) = <<FALSE, 0>>
        BY <2>1, <2>3, <4>2 DEF TryGet
      <4> QED
        BY <1>2, <3>2, <4>3
    <3> QED
      BY <3>1, <3>2
  <2>8. IF key \in Keys THEN Get(key) = Entries[key] ELSE Get(key) = Reverted
    <3>1. InnerGet(key) = IF key \in Stored THEN mapValues[key] ELSE Reverted
      BY <2>2, <2>3 DEF InnerGet
    <3> QED
      BY <1>2, <2>1, <2>3, <2>4, <2>6, <3>1 DEF Get
  <2> QED
    BY <2>5, <2>7, <2>8
<1>4. ASSUME NEW i \in 0 .. Len(values) - 1
      PROVE  /\ Entry(i)[1] \in Keys /\ Entry(i)[2] = Entries[Entry(i)[1]]
             /\ AllKeys[i + 1] = Entry(i)[1]
  <2> DEFINE w == values[i + 1]
  <2>1. Len(values) \in Nat /\ i + 1 \in 1 .. Len(values)
    BY DEF MapState, SetState
  <2>2. w \in Stored
    BY <2>1 DEF Stored
  <2>3. w \in Value(KeyType) /\ w \in Word /\ fromBytes32(KeyType, w) = w
    BY <1>1, <1>2, <2>2, ConversionsKeepValues
  <2>4. fromBytes32(ValueType, mapValues[w]) = mapValues[w]
    BY <1>1, <2>3, ConversionsKeepValues DEF MapState
  <2>5. Entry(i) = <<w, mapValues[w]>>
    BY <2>3, <2>4 DEF Entry, InnerEntry, InnerAt
  <2> QED
    BY <1>2, <2>2, <2>5 DEF AllKeys, InnerKeys, InnerValues
<1>5. NumberOfEntries = Cardinality(Keys)
  BY <1>1, <1>2, StoredCounted DEF MapState, NumberOfEntries, InnerLength
<1> QED
  BY <1>3, <1>4, <1>5 DEF ReadsAgree

\* Of a map of any types: every way to read it tells one story.
THEOREM MapReadsAgree == MapSpec => []ReadsAgree
<1>1. MapInit => MapState
  BY MapInitEffect
<1>2. MapState /\ [MapNext]_mapVars => MapState'
  BY MapNextEffect
<1>3. MapState => ReadsAgree
  BY MapStateReads
<1> QED
  BY <1>1, <1>2, <1>3, PTL DEF MapSpec

\* Keys and values implement a partial function.
THEOREM MapRefines == MapSpec => ImplementsMap
<1>1. MapInit => MapState /\ MapPromise!Init
  BY MapInitEffect
<1>2. MapState /\ [MapNext]_mapVars
         => MapState' /\ [MapPromise!Next]_(MapPromise!vars)
  BY MapNextEffect
<1> QED
  BY <1>1, <1>2, PTL DEF MapSpec, ImplementsMap, MapPromise!Spec

-----------------------------------------------------------------------------
(* Binary search.  Induction is by a least counterexample. *)

\* Where the search must end: at the first position of `left', or at the high end.
Boundary(left, low, high, pos) ==
    /\ pos \in low .. high
    /\ \A i \in low .. pos - 1 : i \notin left
    /\ pos < high => pos \in left

LEMMA BoundaryExists ==
    ASSUME NEW left, NEW high \in Nat, NEW low \in 0 .. high
    PROVE  \E pos \in Nat : Boundary(left, low, high, pos)
<1> DEFINE T == {i \in low .. high : i = high \/ i \in left}
<1>1. T \subseteq Nat /\ high \in T
  OBVIOUS
<1>2. PICK pos \in T : \A i \in T : pos <= i
  BY <1>1, LeastNatural
<1> QED
  BY <1>2 DEF Boundary

\* One iteration of the loop keeps the boundary between its ends.
LEMMA BoundaryStep ==
    ASSUME NEW left, NEW high \in Nat,
           \A i, j \in 0 .. high - 1 : i \in left /\ i < j => j \in left,
           NEW l \in 0 .. high, NEW h \in 0 .. high, l < h
    PROVE  LET mid == Average(l, h)
           IN  /\ mid \in l .. h - 1
               /\ \A pos : Boundary(left, l, h, pos) <=>
                     IF mid \in left THEN Boundary(left, l, mid, pos)
                                     ELSE Boundary(left, mid + 1, h, pos)
<1> DEFINE mid == Average(l, h)
<1>1. mid \in l .. h - 1
  BY DEF Average
<1> HIDE DEF mid
<1>2. CASE mid \in left
  <2>1. ASSUME NEW pos, Boundary(left, l, h, pos)
        PROVE  Boundary(left, l, mid, pos)
    BY <1>1, <1>2, <2>1 DEF Boundary
  <2>2. ASSUME NEW pos, Boundary(left, l, mid, pos)
        PROVE  Boundary(left, l, h, pos)
    BY <1>1, <1>2, <2>2 DEF Boundary
  <2> QED
    BY <1>1, <1>2, <2>1, <2>2 DEF mid
<1>3. CASE mid \notin left
  <2>1. \A i \in l .. mid : i \notin left
    BY <1>1, <1>3
  <2>2. ASSUME NEW pos, Boundary(left, l, h, pos)
        PROVE  Boundary(left, mid + 1, h, pos)
    BY <1>1, <2>1, <2>2 DEF Boundary
  <2>3. ASSUME NEW pos, Boundary(left, mid + 1, h, pos)
        PROVE  Boundary(left, l, h, pos)
    BY <1>1, <2>1, <2>3 DEF Boundary
  <2> QED
    BY <1>1, <1>3, <2>2, <2>3 DEF mid
<1> QED
  BY <1>2, <1>3

LEMMA BoundaryUnique ==
    ASSUME NEW left, NEW high \in Nat, NEW low \in Nat,
           NEW p, Boundary(left, low, high, p), NEW q, Boundary(left, low, high, q)
    PROVE  p = q
<1>1. p \in low .. high /\ q \in low .. high
  BY DEF Boundary
<1>2. ~ (p < q) /\ ~ (q < p)
  BY <1>1 DEF Boundary
<1> QED
  BY <1>1, <1>2

\* If `left' is closed upwards the search ends, and ends at its boundary: there is a
\* function with the recursion's equation, and each such function finds it.
LEMMA SearchFinds ==
    ASSUME NEW left, NEW high \in Nat, NEW low \in 0 .. high,
           \A i, j \in 0 .. high - 1 : i \in left /\ i < j => j \in left
    PROVE  Boundary(left, low, high, BinarySearch(left, low, high))
<1> DEFINE Ends == (0 .. high) \X (0 .. high)
           step(f) == [ends \in Ends |->
              LET mid == Average(ends[1], ends[2])
              IN  IF ends[1] >= ends[2] THEN ends[2]
                  ELSE IF mid \in left THEN f[<<ends[1], mid>>]
                                       ELSE f[<<mid + 1, ends[2]>>]]
           search == CHOOSE f : f = step(f)
           found == [ends \in Ends |->
              IF ends[1] >= ends[2] THEN ends[2]
              ELSE CHOOSE pos \in Nat : Boundary(left, ends[1], ends[2], pos)]
<1>1. BinarySearch(left, low, high) = search[<<low, high>>]
  BY Zenon DEF BinarySearch
<1>2. ASSUME NEW f, NEW l \in 0 .. high, NEW h \in 0 .. high
      PROVE  /\ l >= h => step(f)[<<l, h>>] = h
             /\ l < h => step(f)[<<l, h>>] = IF Average(l, h) \in left
                                              THEN f[<<l, Average(l, h)>>]
                                              ELSE f[<<Average(l, h) + 1, h>>]
  OBVIOUS
<1>3. ASSUME NEW l \in 0 .. high, NEW h \in 0 .. high
      PROVE  /\ l >= h => found[<<l, h>>] = h
             /\ l <= h => Boundary(left, l, h, found[<<l, h>>])
  <2>1. CASE l >= h
    BY <2>1 DEF Boundary
  <2>2. CASE l < h
    <3>1. \E pos \in Nat : Boundary(left, l, h, pos)
      <4>1. l \in 0 .. h /\ h \in Nat
        BY <2>2
      <4> QED
        BY <4>1, BoundaryExists
    <3>2. found[<<l, h>>] = CHOOSE pos \in Nat : Boundary(left, l, h, pos)
      BY <2>2
    <3> QED
      BY <2>2, <3>1, <3>2
  <2> QED
    BY <2>1, <2>2
<1>4. \A f : step(f) = [ends \in Ends |-> step(f)[ends]]
  OBVIOUS
<1>5. found = [ends \in Ends |-> found[ends]]
  OBVIOUS
<1> HIDE DEF step, found, search
<1>6. found = step(found)
  <2>1. ASSUME NEW l \in 0 .. high, NEW h \in 0 .. high
        PROVE  found[<<l, h>>] = step(found)[<<l, h>>]
    <3>1. CASE l >= h
      BY <1>2, <1>3, <3>1
    <3>2. CASE l < h
      <4> DEFINE mid == Average(l, h)
      <4>1. mid \in l .. h - 1
        BY <3>2, BoundaryStep
      <4>2. Boundary(left, l, h, found[<<l, h>>])
        BY <1>3, <3>2
      <4>3. step(found)[<<l, h>>] = IF mid \in left THEN found[<<l, mid>>]
                                                    ELSE found[<<mid + 1, h>>]
        BY <1>2, <3>2
      <4>4. IF mid \in left THEN Boundary(left, l, mid, found[<<l, h>>])
                            ELSE Boundary(left, mid + 1, h, found[<<l, h>>])
        BY <3>2, <4>2, BoundaryStep
      <4> HIDE DEF mid
      <4>5. CASE mid \in left
        <5>1. Boundary(left, l, mid, found[<<l, mid>>])
          BY <1>3, <4>1
        <5> QED
          BY <4>1, <4>3, <4>4, <4>5, <5>1, BoundaryUnique
      <4>6. CASE mid \notin left
        <5>1. Boundary(left, mid + 1, h, found[<<mid + 1, h>>])
          BY <1>3, <4>1
        <5> QED
          BY <4>1, <4>3, <4>4, <4>6, <5>1, BoundaryUnique
      <4> QED
        BY <4>5, <4>6
    <3> QED
      BY <3>1, <3>2
  <2>2. \A ends \in Ends : found[ends] = step(found)[ends]
    BY <2>1
  <2> HIDE DEF Ends
  <2> QED
    BY <1>4, <1>5, <2>2
<1>7. search = step(search)
  BY <1>6, Zenon DEF search
<1>8. ASSUME NEW l \in 0 .. high, NEW h \in 0 .. high
      PROVE  /\ l >= h => search[<<l, h>>] = h
             /\ l < h => search[<<l, h>>] = IF Average(l, h) \in left
                                             THEN search[<<l, Average(l, h)>>]
                                             ELSE search[<<Average(l, h) + 1, h>>]
  <2>1. search[<<l, h>>] = step(search)[<<l, h>>]
    BY <1>7, Zenon
  <2> QED
    BY <1>2, <2>1
<1>9. ASSUME NEW l \in 0 .. high, NEW h \in l .. high,
             ~ Boundary(left, l, h, search[<<l, h>>])
      PROVE  FALSE
  <2> DEFINE wrong(m, n) == ~ Boundary(left, m, n, search[<<m, n>>])
             T == {d \in 0 .. high : \E m \in 0 .. high - d : wrong(m, m + d)}
  <2>1. h - l \in T /\ T \subseteq 0 .. high
    <3>1. h - l \in 0 .. high /\ l \in 0 .. high - (h - l) /\ l + (h - l) = h
      OBVIOUS
    <3> QED
      BY <1>9, <3>1
  <2>2. \A d \in T : \E m \in 0 .. high - d : wrong(m, m + d)
    OBVIOUS
  <2>3. \A d \in 0 .. high : \A m \in 0 .. high - d : wrong(m, m + d) => d \in T
    OBVIOUS
  <2> HIDE DEF T, wrong
  <2>4. T \subseteq Nat /\ T # {}
    BY <2>1
  <2>5. PICK d \in T : \A e \in T : d <= e
    BY <2>4, LeastNatural
  <2>6. PICK m \in 0 .. high - d : wrong(m, m + d)
    BY <2>2
  <2> DEFINE n == m + d
  <2>7. d \in Nat /\ m \in 0 .. high /\ n \in 0 .. high /\ m <= n /\ wrong(m, n)
    BY <2>1, <2>6
  <2>8. ASSUME NEW a \in 0 .. high, NEW b \in a .. high, b - a < d
        PROVE  ~ wrong(a, b)
    <3>1. b - a \in 0 .. high /\ a \in 0 .. high - (b - a) /\ a + (b - a) = b
      OBVIOUS
    <3>2. wrong(a, b) => b - a \in T
      BY <2>3, <3>1
    <3>3. ~ (d <= b - a)
      BY <2>7, <2>8, <3>1
    <3> QED
      BY <2>5, <3>2, <3>3
  <2> HIDE DEF n
  <2>9. CASE m = n
    <3>1. search[<<m, n>>] = n
      BY <1>8, <2>7, <2>9
    <3> QED
      BY <2>7, <2>9, <3>1 DEF Boundary, wrong
  <2>10. CASE m < n
    <3> DEFINE mid == Average(m, n)
    <3>1. mid \in m .. n - 1
      BY <2>7, <2>10, BoundaryStep
    <3>2. search[<<m, n>>] = IF mid \in left THEN search[<<m, mid>>] ELSE search[<<mid + 1, n>>]
      BY <1>8, <2>7, <2>10
    <3>3. \A pos : Boundary(left, m, n, pos) <=>
                     IF mid \in left THEN Boundary(left, m, mid, pos)
                                     ELSE Boundary(left, mid + 1, n, pos)
      BY <2>7, <2>10, BoundaryStep
    <3> HIDE DEF mid
    <3>4. n - m = d
      BY <2>7 DEF n
    <3>5. ~ wrong(m, mid) /\ ~ wrong(mid + 1, n)
      <4>1. mid - m < d /\ n - (mid + 1) < d
        BY <2>7, <3>1, <3>4
      <4>2. m \in 0 .. high /\ mid \in m .. high /\ mid + 1 \in 0 .. high /\ n \in mid + 1 .. high
        BY <2>7, <3>1
      <4> QED
        BY <2>8, <4>1, <4>2
    <3> QED
      BY <2>7, <3>2, <3>3, <3>5 DEF wrong
  <2> QED
    BY <2>7, <2>9, <2>10
<1> QED
  BY <1>1, <1>9

-----------------------------------------------------------------------------
(* Lookups in checkpoints whose keys ascend. *)

Checkpoint == [key : CkptKey, value : Nat]

Ascending ==
    /\ checkpoints \in Seq(Checkpoint)
    /\ \A i, j \in 1 .. Length : i < j => checkpoints[i].key < checkpoints[j].key

\* The checkpoints up to a position are not after a key, those from it on are.
SplitAfter(pos, key) ==
    /\ pos \in 0 .. Length
    /\ \A i \in 1 .. pos : checkpoints[i].key <= key
    /\ \A i \in pos + 1 .. Length : checkpoints[i].key > key

\* The checkpoints up to a position are before a key, those from it on are not.
SplitBefore(pos, key) ==
    /\ pos \in 0 .. Length
    /\ \A i \in 1 .. pos : checkpoints[i].key < key
    /\ \A i \in pos + 1 .. Length : checkpoints[i].key >= key

LEMMA SqrtBounds ==
    ASSUME NEW a \in Nat \ {0}
    PROVE  Sqrt(a) \in 1 .. a
<1> DEFINE T == {r \in 0 .. a : a < (r + 1) * (r + 1)}
           square(r) == r * r <= a /\ a < (r + 1) * (r + 1)
<1>1. a \in T /\ T \subseteq Nat
  <2>1. (a + 1) * (a + 1) = a * a + 2 * a + 1 /\ a * a >= 0
    OBVIOUS
  <2> QED
    BY <2>1
<1>2. PICK r \in T : \A q \in T : r <= q
  BY <1>1, LeastNatural
<1>3. square(r)
  <2>1. CASE r = 0
    BY <1>2, <2>1
  <2>2. CASE r # 0
    <3>1. r - 1 \in 0 .. a /\ r - 1 \notin T /\ (r - 1) + 1 = r
      BY <1>2, <2>2
    <3>2. ~ (a < r * r)
      BY <3>1
    <3> QED
      BY <1>2, <3>2
  <2> QED
    BY <2>1, <2>2
<1>4. r \in 0 .. a
  BY <1>2
<1> HIDE DEF T, square
<1>5. Sqrt(a) \in 0 .. a /\ square(Sqrt(a))
  BY <1>3, <1>4 DEF Sqrt, square
<1>6. Sqrt(a) # 0
  BY <1>5 DEF square
<1> QED
  BY <1>5, <1>6

LEMMA UpperSearch ==
    ASSUME Ascending, NEW key \in Nat, NEW high \in 0 .. Length, NEW low \in 0 .. high
    PROVE  LET pos == UpperBinaryLookup(key, low, high)
           IN  /\ pos \in low .. high
               /\ \A i \in low + 1 .. pos : checkpoints[i].key <= key
               /\ \A i \in pos + 1 .. high : checkpoints[i].key > key
<1> DEFINE left == {p \in 0 .. Length - 1 : Access(p).key > key}
           pos == UpperBinaryLookup(key, low, high)
<1>1. Length \in Nat /\ high \in Nat
  BY DEF Ascending, Length
<1>2. \A i \in 1 .. Length : checkpoints[i].key \in Nat
  <2>1. \A i \in 1 .. Length : checkpoints[i] \in Checkpoint
    BY DEF Ascending, Length
  <2> QED
    BY <2>1 DEF Checkpoint, CkptKey
<1>3. \A p \in 0 .. Length - 1 :
         p + 1 \in 1 .. Length /\ (p \in left <=> checkpoints[p + 1].key > key)
  BY <1>1 DEF Access
<1>4. pos = BinarySearch(left, low, high)
  BY DEF UpperBinaryLookup
<1> HIDE DEF left, pos
<1>5. ASSUME NEW i \in 0 .. high - 1, NEW j \in 0 .. high - 1, i \in left, i < j
      PROVE  j \in left
  <2>1. i + 1 \in 1 .. Length /\ j + 1 \in 1 .. Length /\ i + 1 < j + 1
    BY <1>1, <1>5
  <2>2. checkpoints[i + 1].key < checkpoints[j + 1].key
    BY <2>1 DEF Ascending
  <2> QED
    BY <1>1, <1>2, <1>3, <1>5, <2>1, <2>2
<1>6. Boundary(left, low, high, pos)
  BY <1>1, <1>4, <1>5, SearchFinds
<1>7. pos \in low .. high
  BY <1>6 DEF Boundary
<1>8. ASSUME NEW i \in low + 1 .. pos
      PROVE  checkpoints[i].key <= key
  <2>1. i - 1 \in low .. pos - 1 /\ i - 1 \in 0 .. Length - 1 /\ (i - 1) + 1 = i
    BY <1>1, <1>7
  <2>2. i - 1 \notin left
    BY <1>6, <2>1 DEF Boundary
  <2> QED
    BY <1>2, <1>3, <2>1, <2>2
<1>9. ASSUME NEW i \in pos + 1 .. high
      PROVE  checkpoints[i].key > key
  <2>1. pos < high /\ pos \in 0 .. Length - 1 /\ i \in 1 .. Length
    BY <1>1, <1>7
  <2>2. checkpoints[pos + 1].key > key
    BY <1>3, <1>6, <2>1 DEF Boundary
  <2>3. pos + 1 \in 1 .. Length /\ (pos + 1 = i \/ pos + 1 < i)
    BY <1>1, <1>7, <2>1
  <2> QED
    BY <1>2, <2>1, <2>2, <2>3 DEF Ascending
<1> QED
  BY <1>7, <1>8, <1>9 DEF pos

LEMMA LowerSearch ==
    ASSUME Ascending, NEW key \in Nat
    PROVE  SplitBefore(LowerBinaryLookup(key, 0, Length), key)
<1> DEFINE left == {p \in 0 .. Length - 1 : ~ (Access(p).key < key)}
           pos == LowerBinaryLookup(key, 0, Length)
<1>1. Length \in Nat
  BY DEF Ascending, Length
<1>2. \A i \in 1 .. Length : checkpoints[i].key \in Nat
  <2>1. \A i \in 1 .. Length : checkpoints[i] \in Checkpoint
    BY DEF Ascending, Length
  <2> QED
    BY <2>1 DEF Checkpoint, CkptKey
<1>3. \A p \in 0 .. Length - 1 :
         p + 1 \in 1 .. Length /\ (p \in left <=> ~ (checkpoints[p + 1].key < key))
  BY <1>1 DEF Access
<1>4. pos = BinarySearch(left, 0, Length)
  BY DEF LowerBinaryLookup
<1> HIDE DEF left, pos
<1>5. ASSUME NEW i \in 0 .. Length - 1, NEW j \in 0 .. Length - 1, i \in left, i < j
      PROVE  j \in left
  <2>1. i + 1 \in 1 .. Length /\ j + 1 \in 1 .. Length /\ i + 1 < j + 1
    BY <1>1, <1>5
  <2>2. checkpoints[i + 1].key < checkpoints[j + 1].key
    BY <2>1 DEF Ascending
  <2> QED
    BY <1>1, <1>2, <1>3, <1>5, <2>1, <2>2
<1>6. Boundary(left, 0, Length, pos)
  BY <1>1, <1>4, <1>5, SearchFinds
<1>7. pos \in 0 .. Length
  BY <1>6 DEF Boundary
<1>8. ASSUME NEW i \in 1 .. pos
      PROVE  checkpoints[i].key < key
  <2>1. i - 1 \in 0 .. pos - 1 /\ i - 1 \in 0 .. Length - 1 /\ (i - 1) + 1 = i
    BY <1>1, <1>7
  <2>2. i - 1 \notin left
    BY <1>6, <2>1 DEF Boundary
  <2> QED
    BY <1>2, <1>3, <2>1, <2>2
<1>9. ASSUME NEW i \in pos + 1 .. Length
      PROVE  checkpoints[i].key >= key
  <2>1. pos < Length /\ pos \in 0 .. Length - 1 /\ i \in 1 .. Length
    BY <1>1, <1>7
  <2>2. ~ (checkpoints[pos + 1].key < key)
    BY <1>3, <1>6, <2>1 DEF Boundary
  <2>3. pos + 1 \in 1 .. Length /\ (pos + 1 = i \/ pos + 1 < i)
    BY <1>1, <1>7, <2>1
  <2>4. pos + 1 < i => checkpoints[pos + 1].key < checkpoints[i].key
    BY <2>1, <2>3 DEF Ascending
  <2> QED
    BY <1>2, <2>1, <2>2, <2>3, <2>4
<1> QED
  BY <1>7, <1>8, <1>9 DEF pos, SplitBefore

\* Each lookup returns the value where the checkpoints split, also the one that
\* looks among the most recent checkpoints first.
LEMMA LookupsFind ==
    ASSUME Ascending, NEW key \in Nat
    PROVE  /\ \E pos : SplitAfter(pos, key) /\ UpperLookup(key) = ValueBefore(pos)
           /\ \E pos : SplitAfter(pos, key) /\ UpperLookupRecent(key) = ValueBefore(pos)
<1>1. Length \in Nat
  BY DEF Ascending, Length
<1>2. LET pos == UpperBinaryLookup(key, 0, Length)
      IN  SplitAfter(pos, key) /\ UpperLookup(key) = ValueBefore(pos)
  BY <1>1, UpperSearch DEF SplitAfter, UpperLookup
<1>3. CASE Length <= 5
  <2>1. UpperLookupRecent(key) = UpperLookup(key)
    BY <1>3 DEF UpperLookupRecent, UpperLookup
  <2> QED
    BY <1>2, <2>1
<1>4. CASE ~ (Length <= 5)
  <2> DEFINE mid == Length - Sqrt(Length)
  <2>1. Sqrt(Length) \in 1 .. Length
    BY <1>1, <1>4, SqrtBounds
  <2>2. mid \in 0 .. Length - 1 /\ mid + 1 \in 1 .. Length
    BY <1>1, <2>1
  <2>3. UpperLookupRecent(key) =
           ValueBefore(IF key < Access(mid).key THEN UpperBinaryLookup(key, 0, mid)
                       ELSE UpperBinaryLookup(key, mid + 1, Length))
    BY <1>4 DEF UpperLookupRecent
  <2>4. Access(mid).key = checkpoints[mid + 1].key
    BY DEF Access
  <2> HIDE DEF mid
  <2>5. \A i \in 1 .. Length : checkpoints[i].key \in Nat
    <3>1. \A i \in 1 .. Length : checkpoints[i] \in Checkpoint
      BY DEF Ascending, Length
    <3> QED
      BY <3>1 DEF Checkpoint, CkptKey
  <2>6. CASE key < checkpoints[mid + 1].key
    <3> DEFINE pos == UpperBinaryLookup(key, 0, mid)
    <3>1. /\ pos \in 0 .. mid
          /\ \A i \in 1 .. pos : checkpoints[i].key <= key
          /\ \A i \in pos + 1 .. mid : checkpoints[i].key > key
      <4>1. mid \in 0 .. Length /\ 0 \in 0 .. mid /\ 0 + 1 = 1
        BY <1>1, <2>2
      <4>2. \A i \in 0 + 1 .. pos : checkpoints[i].key <= key
        BY <4>1, UpperSearch
      <4> QED
        BY <4>1, <4>2, UpperSearch
    <3> HIDE DEF pos
    <3>2. ASSUME NEW i \in mid + 1 .. Length
          PROVE  checkpoints[i].key > key
      <4>1. i \in 1 .. Length /\ (mid + 1 = i \/ mid + 1 < i)
        BY <1>1, <2>2
      <4>2. mid + 1 < i => checkpoints[mid + 1].key < checkpoints[i].key
        BY <2>2, <4>1 DEF Ascending
      <4> QED
        BY <2>2, <2>5, <2>6, <4>1, <4>2
    <3>3. SplitAfter(pos, key)
      BY <1>1, <2>2, <3>1, <3>2 DEF SplitAfter
    <3>4. UpperLookupRecent(key) = ValueBefore(pos)
      BY <2>3, <2>4, <2>6 DEF pos
    <3> QED
      BY <1>2, <3>3, <3>4
  <2>7. CASE ~ (key < checkpoints[mid + 1].key)
    <3> DEFINE pos == UpperBinaryLookup(key, mid + 1, Length)
    <3>1. /\ pos \in mid + 1 .. Length
          /\ \A i \in mid + 2 .. pos : checkpoints[i].key <= key
          /\ \A i \in pos + 1 .. Length : checkpoints[i].key > key
      <4>1. Length \in 0 .. Length /\ mid + 1 \in 0 .. Length /\ (mid + 1) + 1 = mid + 2
        BY <1>1, <2>2
      <4> QED
        BY <4>1, UpperSearch
    <3> HIDE DEF pos
    <3>2. ASSUME NEW i \in 1 .. mid + 1
          PROVE  checkpoints[i].key <= key
      <4>1. i \in 1 .. Length /\ (mid + 1 = i \/ i < mid + 1)
        BY <1>1, <2>2
      <4>2. i < mid + 1 => checkpoints[i].key < checkpoints[mid + 1].key
        BY <2>2, <4>1 DEF Ascending
      <4> QED
        BY <2>2, <2>5, <2>7, <4>1, <4>2
    <3>3. \A i \in 1 .. pos : i \in 1 .. mid + 1 \/ i \in mid + 2 .. pos
      BY <1>1, <2>2, <3>1
    <3>4. SplitAfter(pos, key)
      BY <1>1, <2>2, <3>1, <3>2, <3>3 DEF SplitAfter
    <3>5. UpperLookupRecent(key) = ValueBefore(pos)
      BY <2>3, <2>4, <2>7 DEF pos
    <3> QED
      BY <1>2, <3>4, <3>5
  <2> QED
    BY <2>6, <2>7
<1> QED
  BY <1>3, <1>4

-----------------------------------------------------------------------------
(* The state of the checkpoints, and what has been tracked of them. *)

UpperTracked ==
    \A l \in Lookup : \A pos : SplitAfter(pos, l) => upper[l] = ValueBefore(pos)

LowerTracked ==
    \A l \in Lookup : \A pos : SplitBefore(pos, l) =>
       IF pos = Length THEN lower[l] = 0 /\ lowerKey[l] = KeyMax
       ELSE lower[l] = checkpoints[pos + 1].value /\ lowerKey[l] = checkpoints[pos + 1].key

CkptTypes ==
    /\ Ascending
    /\ flavour \in {"Trace", "History"}
    /\ currentBlock \in Nat /\ pushes \in Nat /\ duplicates \in Nat
    /\ upper \in [Lookup -> Nat] /\ lower \in [Lookup -> Nat]
    /\ lowerKey \in [Lookup -> CkptKey]
    /\ pushed \in Checkpoint

\* The last checkpoint is the last push.
PushedLast ==
    /\ Length = 0 => pushed.key = 0 /\ pushed.value = 0
    /\ Length # 0 =>
        checkpoints[Length].key = pushed.key /\ checkpoints[Length].value = pushed.value

CkptState ==
    /\ CkptTypes
    /\ flavour = "History" => \A i \in 1 .. Length : checkpoints[i].key <= currentBlock
    /\ Length = pushes - duplicates /\ (pushes = 0 <=> Length = 0)
    /\ PushedLast
    /\ UpperTracked /\ LowerTracked

LEMMA LastKeyIs ==
    LastKey = IF Length = 0 THEN 0 ELSE checkpoints[Length].key
<1>1. CASE Length = 0
  BY <1>1 DEF LastKey, LatestCheckpoint
<1>2. CASE Length # 0
  <2>1. LatestCheckpoint = <<TRUE, Access(Length - 1).key, Access(Length - 1).value>>
    BY <1>2 DEF LatestCheckpoint
  <2>2. LatestCheckpoint[2] = Access(Length - 1).key
    BY <2>1
  <2>3. Length \in Int => (Length - 1) + 1 = Length
    OBVIOUS
  <2> QED
    BY <1>2, <2>2, <2>3 DEF LastKey, Access, Length
<1> QED
  BY <1>1, <1>2

LEMMA PushedLastKey ==
    ASSUME CkptState
    PROVE  pushes = 0 \/ pushed.key = LastKey
BY LastKeyIs DEF CkptState, PushedLast

LEMMA CkptStateSound ==
    ASSUME CkptState
    PROVE  LookupsAsTracked /\ PushesAsCounted
<1> USE DEF CkptState, CkptTypes
<1>1. Length \in Nat /\ KeyMax \in Nat /\ Lookup \subseteq Nat
  BY CheckpointsAssumption, KeyMaxNatural DEF Ascending, Length, Lookup, CkptKey
<1>2. KeysAscend
  BY DEF KeysAscend, Ascending
<1>3. ASSUME NEW l \in Lookup
      PROVE  UpperLookup(l) = upper[l] /\ UpperLookupRecent(l) = upper[l]
  BY <1>1, LookupsFind DEF UpperTracked
<1>4. ASSUME NEW l \in Lookup
      PROVE  LowerLookup(l) = lower[l]
  <2> DEFINE pos == LowerBinaryLookup(l, 0, Length)
  <2>1. SplitBefore(pos, l)
    BY <1>1, LowerSearch
  <2>2. LowerLookup(l) = IF pos = Length THEN 0 ELSE checkpoints[pos + 1].value
    BY DEF LowerLookup, Access
  <2> HIDE DEF pos
  <2> QED
    BY <2>1, <2>2 DEF LowerTracked
<1>5. ASSUME NEW l \in Lookup
      PROVE  ToUintDownCast(KEY_BITS, l) = l /\ ToUintDownCast(KEY_BITS, l) # Reverted
  <2> DEFINE N == TwoTo[KEY_BITS]
  <2>1. N \in Nat \ {0} /\ KeyMax = N - 1 /\ Reverted \notin Nat
    BY KeyMaxNatural
  <2>2. ToUintDownCast(KEY_BITS, l) = IF l <= N - 1 THEN l % N ELSE Reverted
    BY DEF ToUintDownCast, Unsigned
  <2> HIDE DEF N
  <2>3. l \in 0 .. N - 1
    BY <2>1 DEF Lookup, CkptKey
  <2>4. l % N = l
    BY <2>1, <2>3
  <2> QED
    BY <2>1, <2>2, <2>3, <2>4
<1>6. ASSUME NEW l \in Lookup, l < currentBlock
      PROVE  GetAtBlock(l) = upper[l] /\ GetAtProbablyRecentBlock(l) = upper[l]
  BY <1>3, <1>5, <1>6 DEF GetAtBlock, GetAtProbablyRecentBlock, AtBlock
<1>7. LookupsAsTracked
  <2>1. \A number \in {currentBlock, currentBlock + 1} : ~ (number < currentBlock)
    OBVIOUS
  <2>2. HistoryLookupAsserted
    BY <1>6, <2>1 DEF HistoryLookupAsserted, GetAtBlock, GetAtProbablyRecentBlock, AtBlock
  <2> QED
    BY <1>3, <1>4, <2>2 DEF LookupsAsTracked, TraceLookupAsserted
<1>8. PushesAsCounted
  <2>1. pushed.key \in Nat /\ pushed.value \in Nat
    BY CheckpointsAssumption, KeyMaxNatural DEF Checkpoint, CkptKey
  <2>2. CASE Length = 0
    <3>1. pushes = 0 /\ pushed.key = 0 /\ pushed.value = 0
      BY <2>2 DEF PushedLast
    <3>2. Latest = 0
      BY <2>2 DEF Latest, ValueBefore
    <3>3. LatestCheckpoint = <<FALSE, 0, 0>>
      BY <2>2 DEF LatestCheckpoint
    <3>4. (pushes > 0) = FALSE
      BY <3>1
    <3>5. PushAsserted
      BY <3>1, <3>2, <3>3, <3>4 DEF PushAsserted, AssertLatestCheckpoint
    <3> QED
      BY <1>2, <3>1, <3>5 DEF PushesAsCounted, PastPushReverts
  <2>3. CASE Length # 0
    <3>1. /\ checkpoints[Length].key = pushed.key /\ checkpoints[Length].value = pushed.value
          /\ LastKey = pushed.key
      BY <2>3, LastKeyIs DEF PushedLast
    <3>2. (Length - 1) + 1 = Length
      BY <1>1
    <3>3. Latest = pushed.value
      BY <2>3, <3>1, <3>2 DEF Latest, ValueBefore, Access
    <3>4. LatestCheckpoint = <<TRUE, pushed.key, pushed.value>>
      BY <2>3, <3>1, <3>2 DEF LatestCheckpoint, Access
    <3>5. (pushes > 0) = TRUE
      BY <1>1, <2>3
    <3>6. PushAsserted
      BY <3>3, <3>4, <3>5 DEF PushAsserted, AssertLatestCheckpoint
    <3>7. PastPushReverts
      BY <1>1, <2>1, <2>3, <3>1 DEF PastPushReverts, MayInsert
    <3> QED
      BY <1>2, <3>6, <3>7 DEF PushesAsCounted
  <2> QED
    BY <2>2, <2>3
<1> QED
  BY <1>7, <1>8

\* What an insertion leaves: the pushed checkpoint last, and before it those that
\* were there, but for one of the same key.
LEMMA InsertEffect ==
    ASSUME Ascending, NEW key \in CkptKey, NEW value \in Nat, Insert(key, value)
    PROVE  /\ checkpoints' \in Seq(Checkpoint) /\ Length' \in Nat \ {0}
           /\ Length \in Nat /\ \A i \in 1 .. Length : checkpoints[i].key \in Nat
           /\ checkpoints'[Length'].key = key /\ checkpoints'[Length'].value = value
           /\ \A i \in 1 .. Length' - 1 :
                 checkpoints'[i] = checkpoints[i] /\ checkpoints[i].key < key
           /\ \/ Length' = Length /\ LastKey = key /\ checkpoints[Length].key = key
              \/ Length' = Length + 1 /\ (Length > 0 => LastKey < key)
           /\ Length > 0 => LastKey = checkpoints[Length].key
<1> DEFINE n == Len(checkpoints)
           entry == [key |-> key, value |-> value]
<1>1. n \in Nat /\ Length = n /\ KeyMax \in Int /\ key \in Nat /\ entry \in Checkpoint
  BY CheckpointsAssumption, KeyMaxNatural DEF Ascending, Length, Checkpoint, CkptKey
<1>2. \A i \in 1 .. n : checkpoints[i] \in Checkpoint /\ checkpoints[i].key \in Nat
  <2>1. \A i \in 1 .. n : checkpoints[i] \in Checkpoint
    BY DEF Ascending
  <2> QED
    BY <2>1 DEF Checkpoint, CkptKey
<1>3. n > 0 => LastKey = checkpoints[n].key /\ LastKey \in Nat /\ LastKey <= key
  BY <1>1, <1>2, LastKeyIs DEF Insert, MayInsert
<1>4. CASE n > 0 /\ LastKey = key
  <2>1. checkpoints' = [checkpoints EXCEPT ![n] = [checkpoints[n] EXCEPT !.value = value]]
    BY <1>1, <1>4 DEF Insert, MayInsert
  <2>2. [checkpoints[n] EXCEPT !.value = value] = entry
    BY <1>1, <1>2, <1>3, <1>4 DEF Checkpoint
  <2>3. checkpoints' = [checkpoints EXCEPT ![n] = entry]
    BY <2>1, <2>2
  <2> HIDE DEF entry
  <2>4. /\ checkpoints' \in Seq(Checkpoint) /\ Len(checkpoints') = n
        /\ checkpoints'[n] = entry
        /\ \A i \in 1 .. n - 1 : checkpoints'[i] = checkpoints[i]
    BY <1>1, <1>4, <2>3 DEF Ascending
  <2>5. \A i \in 1 .. n - 1 : checkpoints[i].key < key
    BY <1>1, <1>3, <1>4 DEF Ascending
  <2>6. Length' = n /\ n \in 1 .. n
    BY <1>1, <1>4, <2>4 DEF Length
  <2>7. checkpoints'[n].key = key /\ checkpoints'[n].value = value
    BY <2>4 DEF entry
  <2>8. checkpoints[n].key = key
    BY <1>3, <1>4
  <2> HIDE DEF n
  <2> QED
    BY <1>1, <1>2, <1>3, <1>4, <2>4, <2>5, <2>6, <2>7, <2>8
<1>5. CASE ~ (n > 0 /\ LastKey = key)
  <2>1. checkpoints' = Append(checkpoints, entry)
    BY <1>1, <1>5 DEF Insert, MayInsert
  <2> HIDE DEF entry
  <2>2. /\ checkpoints' \in Seq(Checkpoint) /\ Len(checkpoints') = n + 1
        /\ checkpoints'[n + 1] = entry
        /\ \A i \in 1 .. n : checkpoints'[i] = checkpoints[i]
    BY <1>1, <2>1 DEF Ascending
  <2>3. n > 0 => LastKey < key
    BY <1>1, <1>3, <1>5
  <2>4. \A i \in 1 .. n : checkpoints[i].key < key
    <3>1. \A i \in 1 .. n : i = n \/ (i < n /\ n \in 1 .. n)
      BY <1>1
    <3> QED
      BY <1>1, <1>2, <1>3, <2>3, <3>1 DEF Ascending
  <2>5. Length' = n + 1 /\ (n + 1) - 1 = n /\ n + 1 \in Nat \ {0}
    BY <1>1, <2>2 DEF Length
  <2>6. checkpoints'[n + 1].key = key /\ checkpoints'[n + 1].value = value
    BY <2>2 DEF entry
  <2> HIDE DEF n
  <2> QED
    BY <1>1, <1>2, <1>3, <2>2, <2>3, <2>4, <2>5, <2>6
<1> QED
  BY <1>4, <1>5

LEMMA PushUpper ==
    ASSUME CkptState, NEW key \in CkptKey, NEW value \in Nat,
           Insert(key, value), TrackExpected(key, value)
    PROVE  UpperTracked'
<1>1. Ascending /\ key \in Nat /\ Lookup \subseteq Nat
  BY CheckpointsAssumption, KeyMaxNatural DEF CkptState, CkptTypes, Lookup, CkptKey
<1>0. PICK m \in Nat \ {0}, n \in Nat : m = Length' /\ n = Length
  BY <1>1, InsertEffect
<1>2. m = n + 1 \/ (m = n /\ checkpoints[n].key = key)
  BY <1>0, <1>1, InsertEffect
<1>3. checkpoints'[m].key = key /\ checkpoints'[m].value = value
  BY <1>0, <1>1, InsertEffect
<1>4. \A i \in 1 .. m - 1 : checkpoints'[i] = checkpoints[i]
  BY <1>0, <1>1, InsertEffect
<1>5. upper' = [l \in Lookup |-> IF key <= l THEN value ELSE upper[l]]
  BY DEF TrackExpected, TrackLookups
<1> SUFFICES ASSUME NEW l \in Lookup, NEW pos, SplitAfter(pos, l)'
             PROVE  upper'[l] = ValueBefore(pos)'
  BY DEF UpperTracked
<1>6. pos \in 0 .. m
  BY <1>0 DEF SplitAfter
<1>7. \A i \in 1 .. pos : checkpoints'[i].key <= l
  BY DEF SplitAfter
<1>8. \A i \in pos + 1 .. m : checkpoints'[i].key > l
  BY <1>0 DEF SplitAfter
<1>9. CASE key <= l
  <2>1. pos = m
    <3>1. pos # m => m \in pos + 1 .. m
      BY <1>2, <1>6
    <3>2. ~ (key > l)
      BY <1>1, <1>9
    <3> QED
      BY <1>3, <1>8, <3>1, <3>2
  <2>2. ValueBefore(pos)' = checkpoints'[m].value
    BY <1>2, <2>1 DEF ValueBefore, Access
  <2> QED
    BY <1>3, <1>5, <1>9, <2>2
<1>10. CASE ~ (key <= l)
  <2>1. pos \in 0 .. m - 1 /\ pos \in 0 .. n
    <3>1. m \notin 1 .. pos
      BY <1>3, <1>7, <1>10
    <3> QED
      BY <1>2, <1>6, <3>1
  <2>2. ASSUME NEW i \in pos + 1 .. n
        PROVE  checkpoints[i].key > l
    <3>1. CASE i = m
      <4>1. checkpoints[i].key = key
        BY <1>2, <2>1, <3>1
      <4> QED
        BY <1>1, <1>10, <4>1
    <3>2. CASE i # m
      <4>1. i \in 1 .. m - 1 /\ i \in pos + 1 .. m
        BY <1>2, <2>1, <3>2
      <4> QED
        BY <1>4, <1>8, <4>1
    <3> QED
      BY <3>1, <3>2
  <2>3. ASSUME NEW i \in 1 .. pos
        PROVE  checkpoints[i].key <= l
    <3>1. i \in 1 .. m - 1
      BY <1>2, <2>1
    <3> QED
      BY <1>4, <1>7, <3>1
  <2>4. SplitAfter(pos, l)
    BY <1>0, <2>1, <2>2, <2>3 DEF SplitAfter
  <2>5. ValueBefore(pos)' = ValueBefore(pos)
    <3>1. pos # 0 => (pos - 1) + 1 = pos /\ pos \in 1 .. m - 1
      BY <2>1
    <3> QED
      BY <1>4, <3>1 DEF ValueBefore, Access
  <2> QED
    BY <1>5, <1>10, <2>4, <2>5 DEF CkptState, UpperTracked
<1> QED
  BY <1>9, <1>10

LEMMA PushLower ==
    ASSUME CkptState, NEW key \in CkptKey, NEW value \in Nat,
           Insert(key, value), TrackExpected(key, value)
    PROVE  LowerTracked'
<1>1. /\ Ascending /\ key \in Nat /\ KeyMax \in Nat /\ Lookup = 0 .. KeyMax
      /\ pushes = 0 <=> Length = 0
  BY CheckpointsAssumption, KeyMaxNatural DEF CkptState, CkptTypes, Lookup, CkptKey
<1>0. PICK m \in Nat \ {0}, n \in Nat : m = Length' /\ n = Length
  BY <1>1, InsertEffect
<1>2. /\ \/ m = n /\ LastKey = key /\ checkpoints[n].key = key
         \/ m = n + 1 /\ (n > 0 => LastKey < key)
      /\ n > 0 => LastKey = checkpoints[n].key
      /\ pushes = 0 <=> n = 0
  BY <1>0, <1>1, InsertEffect
<1>3. checkpoints'[m].key = key /\ checkpoints'[m].value = value
  BY <1>0, <1>1, InsertEffect
<1>4. \A i \in 1 .. m - 1 : checkpoints'[i] = checkpoints[i] /\ checkpoints[i].key < key
  BY <1>0, <1>1, InsertEffect
<1>5. \A i \in 1 .. n : checkpoints[i].key \in Nat
  BY <1>0, <1>1, InsertEffect
<1>6. \A i, j \in 1 .. n : i < j => checkpoints[i].key < checkpoints[j].key
  BY <1>0, <1>1 DEF Ascending
<1>7. \A l \in Lookup :
         /\ lowerKey'[l] = IF key >= l /\ (pushes = 0 \/ LastKey < l) THEN key ELSE lowerKey[l]
         /\ lower'[l] = IF key = lowerKey'[l] THEN value ELSE lower[l]
  <2>1. lowerKey' = [l \in Lookup |-> IF key >= l /\ (pushes = 0 \/ LastKey < l)
                                      THEN key ELSE lowerKey[l]]
    <3>1. pushes = 0 \/ pushed.key = LastKey
      BY PushedLastKey
    <3>2. lowerKey' = [l \in Lookup |-> IF key >= l /\ (pushes = 0 \/ pushed.key < l)
                                        THEN key ELSE lowerKey[l]]
      BY DEF TrackExpected, TrackLookups
    <3> QED
      BY <3>1, <3>2
  <2>2. lower' = [l \in Lookup |-> IF key = lowerKey'[l] THEN value ELSE lower[l]]
    BY DEF TrackExpected, TrackLookups
  <2> QED
    BY <2>1, <2>2
<1> SUFFICES ASSUME NEW l \in Lookup, NEW pos, SplitBefore(pos, l)'
             PROVE  IF pos = m THEN lower'[l] = 0 /\ lowerKey'[l] = KeyMax
                    ELSE /\ lower'[l] = checkpoints'[pos + 1].value
                         /\ lowerKey'[l] = checkpoints'[pos + 1].key
  BY <1>0 DEF LowerTracked
<1>8. pos \in 0 .. m /\ l \in Nat
  BY <1>0, <1>1 DEF SplitBefore
<1>9. \A i \in 1 .. pos : checkpoints'[i].key < l
  BY DEF SplitBefore
<1>10. \A i \in pos + 1 .. m : checkpoints'[i].key >= l
  BY <1>0 DEF SplitBefore
<1>11. \A old : SplitBefore(old, l) =>
          IF old = n THEN lower[l] = 0 /\ lowerKey[l] = KeyMax
          ELSE lower[l] = checkpoints[old + 1].value /\ lowerKey[l] = checkpoints[old + 1].key
  BY <1>0 DEF CkptState, LowerTracked
<1>12. \A i \in 1 .. n : i = m \/ i \in 1 .. m - 1
  BY <1>2
<1>13. \A i \in 1 .. n : i = m => i = n /\ checkpoints[i].key = key
  BY <1>2
<1>14. ASSUME NEW old \in 0 .. n, old <= pos, old < m,
              \A i \in old + 1 .. n : checkpoints[i].key >= l
       PROVE  SplitBefore(old, l)
  <2>1. ASSUME NEW i \in 1 .. old
        PROVE  checkpoints[i].key < l
    <3>1. i \in 1 .. m - 1 /\ i \in 1 .. pos
      BY <1>2, <1>8, <1>14
    <3> QED
      BY <1>4, <1>9, <3>1
  <2> QED
    BY <1>0, <1>14, <2>1 DEF SplitBefore
<1>15. CASE key < l
  <2>1. pos = m
    <3>1. pos # m => m \in pos + 1 .. m
      BY <1>2, <1>8
    <3>2. ~ (key >= l)
      BY <1>1, <1>8, <1>15
    <3> QED
      BY <1>3, <1>10, <3>1, <3>2
  <2>2. ASSUME NEW i \in 1 .. n
        PROVE  checkpoints[i].key < l
    BY <1>1, <1>4, <1>5, <1>8, <1>12, <1>13, <1>15
  <2>3. SplitBefore(n, l)
    BY <1>0, <2>2 DEF SplitBefore
  <2>4. lower[l] = 0 /\ lowerKey[l] = KeyMax
    BY <1>11, <2>3
  <2>5. key # KeyMax /\ ~ (key >= l)
    BY <1>1, <1>15
  <2> QED
    BY <1>7, <2>1, <2>4, <2>5
<1>16. CASE ~ (key < l)
  <2>1. pos \in 0 .. m - 1 /\ key >= l /\ pos \in 0 .. n
    <3>1. m \notin 1 .. pos
      BY <1>3, <1>9, <1>16
    <3> QED
      BY <1>1, <1>2, <1>8, <1>16, <3>1
  <2>2. CASE pos = m - 1 /\ m = n
    <3>1. \A i \in pos + 1 .. n : checkpoints[i].key >= l
      <4>1. \A i \in pos + 1 .. n : i = n
        BY <1>2, <2>2
      <4>2. checkpoints[n].key = key
        BY <1>2, <2>2
      <4> QED
        BY <2>1, <4>1, <4>2
    <3>2. SplitBefore(pos, l)
      <4>1. pos <= pos /\ pos < m
        BY <2>1
      <4> QED
        BY <1>14, <2>1, <3>1, <4>1
    <3>3. lowerKey[l] = key
      <4>1. pos # n /\ pos + 1 = n
        BY <1>2, <2>2
      <4> QED
        BY <1>2, <1>11, <2>2, <3>2, <4>1
    <3>4. lowerKey'[l] = key /\ lower'[l] = value
      BY <1>7, <3>3
    <3>5. pos # m /\ pos + 1 = m
      BY <1>2, <2>2
    <3> QED
      BY <1>3, <3>4, <3>5
  <2>3. CASE pos = m - 1 /\ m = n + 1
    <3>1. pushes = 0 \/ LastKey < l
      <4>1. n > 0 => n \in 1 .. pos /\ n \in 1 .. m - 1
        BY <1>2, <2>3
      <4> QED
        BY <1>1, <1>2, <1>4, <1>9, <4>1
    <3>2. lowerKey'[l] = key /\ lower'[l] = value
      BY <1>7, <2>1, <3>1
    <3>3. pos # m /\ pos + 1 = m
      BY <1>2, <2>3
    <3> QED
      BY <1>3, <3>2, <3>3
  <2>4. CASE pos # m - 1
    <3>1. /\ pos + 1 \in 1 .. m - 1 /\ pos + 1 \in 1 .. n
          /\ pos + 1 \in pos + 1 .. m /\ pos # m /\ pos # n
      BY <1>2, <2>1, <2>4
    <3>2. /\ checkpoints'[pos + 1] = checkpoints[pos + 1]
          /\ checkpoints[pos + 1].key < key /\ checkpoints[pos + 1].key >= l
      BY <1>4, <1>10, <3>1
    <3>3. ASSUME NEW i \in pos + 1 .. n
          PROVE  checkpoints[i].key >= l
      <4>1. i \in 1 .. n /\ (pos + 1 = i \/ pos + 1 < i)
        BY <1>2, <3>1
      <4>2. pos + 1 < i => checkpoints[pos + 1].key < checkpoints[i].key
        BY <1>6, <3>1, <4>1
      <4>3. checkpoints[pos + 1].key \in Nat /\ checkpoints[i].key \in Nat
        BY <1>5, <3>1, <4>1
      <4> QED
        BY <1>8, <3>2, <4>1, <4>2, <4>3
    <3>4. SplitBefore(pos, l)
      <4>1. pos <= pos /\ pos < m
        BY <1>2, <2>1
      <4> QED
        BY <1>14, <2>1, <3>3, <4>1
    <3>5. lower[l] = checkpoints[pos + 1].value /\ lowerKey[l] = checkpoints[pos + 1].key
      BY <1>11, <3>1, <3>4
    <3>6. ~ (pushes = 0 \/ LastKey < l)
      <4>1. n \in pos + 1 .. n /\ n \in 1 .. n /\ n > 0 /\ n # 0
        BY <1>2, <3>1
      <4>2. LastKey = checkpoints[n].key /\ LastKey >= l /\ LastKey \in Nat
        BY <1>2, <1>5, <3>3, <4>1
      <4>3. ~ (LastKey < l)
        BY <1>8, <4>2
      <4> QED
        BY <1>2, <4>1, <4>3
    <3>7. lowerKey'[l] = lowerKey[l]
      BY <1>7, <3>6
    <3>8. key # lowerKey'[l]
      <4>1. checkpoints[pos + 1].key \in Nat
        BY <1>5, <3>1
      <4> QED
        BY <1>1, <3>2, <3>5, <3>7, <4>1
    <3>9. lower'[l] = lower[l]
      BY <1>7, <3>8
    <3> QED
      BY <3>1, <3>2, <3>5, <3>7, <3>9
  <2> QED
    BY <1>2, <2>2, <2>3, <2>4
<1> QED
  BY <1>15, <1>16

LEMMA StoredCheckpoint ==
    ASSUME Ascending
    PROVE  /\ Length \in Nat
           /\ \A i \in 1 .. Length : checkpoints[i].key \in Nat /\ checkpoints[i].value \in Nat
<1>1. Length \in Nat /\ \A i \in 1 .. Length : checkpoints[i] \in Checkpoint
  BY DEF Ascending, Length
<1>2. CkptKey \subseteq Nat
  BY CheckpointsAssumption, KeyMaxNatural DEF CkptKey
<1> QED
  BY <1>1, <1>2 DEF Checkpoint

LEMMA PushCounts ==
    ASSUME CkptState, NEW key \in CkptKey, NEW value \in Nat,
           Insert(key, value), TrackExpected(key, value)
    PROVE  /\ pushes' \in Nat /\ duplicates' \in Nat
           /\ Length' = pushes' - duplicates' /\ (pushes' = 0 <=> Length' = 0)
<1>1. /\ Ascending /\ pushes \in Nat /\ duplicates \in Nat /\ key \in Nat
      /\ Length = pushes - duplicates /\ (pushes = 0 <=> Length = 0)
  BY CheckpointsAssumption, KeyMaxNatural DEF CkptState, CkptTypes, CkptKey
<1>2. PICK m \in Nat \ {0}, n \in Nat : m = Length' /\ n = Length
  BY <1>1, InsertEffect
<1>3. /\ \/ m = n /\ LastKey = key
         \/ m = n + 1 /\ (n > 0 => LastKey < key)
      /\ n > 0 => LastKey \in Nat
  BY <1>1, <1>2, InsertEffect
<1>4. /\ pushes' = pushes + 1
      /\ duplicates' = IF pushes > 0 /\ key = LastKey THEN duplicates + 1 ELSE duplicates
  BY PushedLastKey DEF TrackExpected, TrackPushes
<1>5. n = pushes - duplicates /\ (pushes = 0 <=> n = 0)
  BY <1>1, <1>2
<1>6. pushes > 0 /\ key = LastKey <=> m = n
  BY <1>1, <1>2, <1>3, <1>5
<1>7. CASE m = n
  <2>1. duplicates' = duplicates + 1 /\ pushes' = pushes + 1
    BY <1>4, <1>6, <1>7
  <2> QED
    BY <1>1, <1>2, <1>5, <1>7, <2>1
<1>8. CASE m # n
  <2>1. duplicates' = duplicates /\ pushes' = pushes + 1 /\ m = n + 1
    BY <1>3, <1>4, <1>6, <1>8
  <2> QED
    BY <1>1, <1>2, <1>5, <2>1
<1> QED
  BY <1>7, <1>8

LEMMA PushAscends ==
    ASSUME Ascending, NEW key \in CkptKey, NEW value \in Nat, Insert(key, value)
    PROVE  Ascending'
<1>1. PICK m \in Nat \ {0} : m = Length'
  BY InsertEffect
<1>2. /\ checkpoints' \in Seq(Checkpoint) /\ checkpoints'[m].key = key
      /\ \A i \in 1 .. m - 1 : checkpoints'[i] = checkpoints[i] /\ checkpoints[i].key < key
  BY <1>1, InsertEffect
<1>3. Len(checkpoints') = m
  BY <1>1 DEF Length
<1>4. m = Length \/ m = Length + 1
  BY <1>1, InsertEffect
<1>5. Length \in Nat
  BY InsertEffect
<1>6. ASSUME NEW i \in 1 .. m, NEW j \in 1 .. m, i < j
      PROVE  checkpoints'[i].key < checkpoints'[j].key
  <2>1. i \in 1 .. m - 1 /\ (j = m \/ j \in 1 .. m - 1)
    BY <1>6
  <2>2. CASE j = m
    BY <1>2, <2>1, <2>2
  <2>3. CASE j \in 1 .. m - 1
    <3>1. i \in 1 .. Length /\ j \in 1 .. Length
      BY <1>4, <1>5, <2>1, <2>3
    <3>2. checkpoints[i].key < checkpoints[j].key
      BY <1>6, <3>1 DEF Ascending, Length
    <3> QED
      BY <1>2, <2>1, <2>3, <3>2
  <2> QED
    BY <2>1, <2>2, <2>3
<1>7. \A i, j \in 1 .. Len(checkpoints') :
         i < j => checkpoints'[i].key < checkpoints'[j].key
  BY <1>3, <1>6
<1> QED
  BY <1>2, <1>7 DEF Ascending, Checkpoint, CkptKey, KeyMax, Length

\* A push under a key that a History takes, the current block, keeps the state.
LEMMA PushState ==
    ASSUME CkptState, NEW key \in CkptKey, NEW value \in Nat,
           flavour = "History" => key = currentBlock,
           Insert(key, value), TrackExpected(key, value), UNCHANGED currentBlock
    PROVE  CkptState'
<1>1. /\ Ascending /\ flavour' = flavour /\ currentBlock' = currentBlock
      /\ currentBlock \in Nat /\ key \in Nat
  BY CheckpointsAssumption, KeyMaxNatural DEF CkptState, CkptTypes, TrackExpected, CkptKey
<1>2. Ascending' /\ UpperTracked' /\ LowerTracked'
  BY <1>1, PushAscends, PushUpper, PushLower
<1>3. /\ upper' \in [Lookup -> Nat] /\ lower' \in [Lookup -> Nat]
      /\ lowerKey' \in [Lookup -> CkptKey] /\ pushed' \in Checkpoint
  BY DEF CkptState, CkptTypes, TrackExpected, TrackPushes, TrackLookups, Checkpoint
<1>4. CkptTypes'
  BY <1>1, <1>2, <1>3, PushCounts DEF CkptState, CkptTypes, Lookup, CkptKey, KeyMax,
                                      Checkpoint
<1>5. ASSUME flavour' = "History", NEW i \in 1 .. Length'
      PROVE  checkpoints'[i].key <= currentBlock'
  <2>1. PICK m \in Nat \ {0} : m = Length'
    BY <1>1, InsertEffect
  <2>2. /\ checkpoints'[m].key = key
        /\ \A j \in 1 .. m - 1 : checkpoints'[j] = checkpoints[j] /\ checkpoints[j].key < key
    BY <1>1, <2>1, InsertEffect
  <2>3. m = Length \/ m = Length + 1
    BY <1>1, <2>1, InsertEffect
  <2>4. Length \in Nat /\ \A j \in 1 .. Length : checkpoints[j].key \in Nat
    BY <1>1, InsertEffect
  <2>5. i = m \/ (i \in 1 .. m - 1 /\ i \in 1 .. Length)
    <3>1. i \in 1 .. m
      BY <1>5, <2>1
    <3> QED
      BY <2>3, <2>4, <3>1
  <2>6. key = currentBlock
    BY <1>1, <1>5
  <2>7. CASE i = m
    BY <1>1, <2>2, <2>6, <2>7
  <2>8. CASE i # m
    BY <1>1, <2>2, <2>4, <2>5, <2>6, <2>8
  <2> QED
    BY <2>7, <2>8
<1>6. flavour' = "History" => \A i \in 1 .. Length' : checkpoints'[i].key <= currentBlock'
  BY <1>5
<1>7. Length' = pushes' - duplicates' /\ (pushes' = 0 <=> Length' = 0)
  BY PushCounts
<1>8. PushedLast'
  <2>1. /\ Length' \in Nat \ {0} /\ checkpoints'[Length'].key = key
        /\ checkpoints'[Length'].value = value
    BY <1>1, InsertEffect
  <2>2. pushed'.key = key /\ pushed'.value = value
    BY DEF TrackExpected, TrackPushes
  <2> QED
    BY <2>1, <2>2 DEF PushedLast
<1> QED
  BY <1>2, <1>4, <1>6, <1>7, <1>8 DEF CkptState

LEMMA CkptInitState ==
    ASSUME CkptInit
    PROVE  CkptState
<1>1. KeyMax \in Nat /\ Length = 0 /\ checkpoints = <<>>
  BY CheckpointsAssumption, KeyMaxNatural DEF CkptInit, KeyMax, Length
<1>2. Ascending
  BY <1>1 DEF Ascending, Length
<1>3. CkptTypes /\ PushedLast
  BY <1>1, <1>2 DEF CkptTypes, CkptInit, Lookup, CkptKey, Checkpoint, PushedLast
<1>4. UpperTracked
  BY <1>1 DEF UpperTracked, SplitAfter, ValueBefore, CkptInit
<1>5. LowerTracked
  BY <1>1 DEF LowerTracked, SplitBefore, CkptInit
<1> QED
  BY <1>1, <1>3, <1>4, <1>5 DEF CkptState, CkptInit

\* A step keeps the state, and nothing tracked for a block that has passed.
LEMMA CkptStep ==
    ASSUME CkptState, [CkptNext]_ckptVars
    PROVE  /\ CkptState' /\ flavour' = flavour
           /\ flavour = "History" =>
                 /\ currentBlock' \in Nat /\ currentBlock' >= currentBlock
                 /\ \A l \in Lookup : l < currentBlock => upper'[l] = upper[l]
<1>1. /\ currentBlock \in Nat /\ KeyMax \in Nat /\ Lookup = 0 .. KeyMax
      /\ upper \in [Lookup -> Nat] /\ Ascending
      /\ CkptValue \subseteq Nat /\ CkptDelta \subseteq Nat
  <2>1. KeyMax \in Nat /\ Lookup = 0 .. KeyMax
    BY CheckpointsAssumption, KeyMaxNatural DEF Lookup, CkptKey
  <2> QED
    BY <2>1, CheckpointsAssumption, KeyMaxNatural DEF CkptState, CkptTypes
<1>2. ASSUME NEW key \in CkptKey, NEW value \in CkptValue, PushTrace(key, value)
      PROVE  CkptState' /\ flavour' = flavour /\ flavour # "History"
  <2>1. flavour # "History" /\ Insert(key, value) /\ TrackExpected(key, value)
        /\ UNCHANGED currentBlock
    BY <1>2 DEF PushTrace
  <2> QED
    BY <1>1, <2>1, PushState DEF TrackExpected
<1>3. ASSUME NEW value \in Nat, PushHistory(value)
      PROVE  /\ CkptState' /\ flavour' = flavour /\ currentBlock' = currentBlock
             /\ \A l \in Lookup : l < currentBlock => upper'[l] = upper[l]
  <2>1. /\ Insert(currentBlock, value) /\ TrackExpected(currentBlock, value)
        /\ UNCHANGED currentBlock
    BY <1>3 DEF PushHistory
  <2>2. currentBlock \in CkptKey
    <3>1. currentBlock <= KeyMax
      BY <1>3, KeyMaxNatural DEF PushHistory, ToUintDownCast, Unsigned
    <3> QED
      BY <1>1, <3>1 DEF CkptKey
  <2>3. upper' = [l \in Lookup |-> IF currentBlock <= l THEN value ELSE upper[l]]
    BY <2>1 DEF TrackExpected, TrackLookups
  <2>4. ASSUME NEW l \in Lookup, l < currentBlock
        PROVE  upper'[l] = upper[l]
    <3>1. ~ (currentBlock <= l)
      BY <1>1, <2>4
    <3> QED
      BY <2>3, <3>1
  <2> QED
    BY <2>1, <2>2, <2>4, PushState DEF TrackExpected
<1>4. Latest \in Nat
  <2>1. Length = 0 \/ (Length \in 1 .. Length /\ (Length - 1) + 1 = Length)
    BY <1>1, StoredCheckpoint
  <2>2. Length # 0 => Latest = checkpoints[Length].value
    BY <2>1 DEF Latest, ValueBefore, Access
  <2>3. Length = 0 => Latest = 0
    BY DEF Latest, ValueBefore
  <2> QED
    BY <1>1, <2>1, <2>2, <2>3, StoredCheckpoint
<1>5. ASSUME NEW number \in currentBlock + 1 .. currentBlock + KEY_MAX_GAP, Roll(number)
      PROVE  /\ CkptState' /\ flavour' = flavour /\ currentBlock' \in Nat
             /\ currentBlock' >= currentBlock /\ upper' = upper
  <2>1. /\ currentBlock' = number /\ number \in Nat /\ number >= currentBlock
        /\ UNCHANGED <<flavour, checkpoints, pushes, duplicates, pushed, upper, lower, lowerKey>>
    BY <1>1, <1>5, CheckpointsAssumption, KeyMaxNatural DEF Roll, expectedVars
  <2>2. Length' = Length
    BY <2>1 DEF Length
  <2>3. UpperTracked' /\ LowerTracked' /\ CkptTypes' /\ PushedLast'
    BY <2>1, <2>2 DEF PushedLast, CkptState, CkptTypes, UpperTracked, LowerTracked, SplitAfter,
                      SplitBefore, ValueBefore, Access, Ascending
  <2>4. ASSUME flavour = "History", NEW i \in 1 .. Length
        PROVE  checkpoints[i].key <= number
    <3>1. checkpoints[i].key <= currentBlock /\ checkpoints[i].key \in Nat
      BY <1>1, <2>4, StoredCheckpoint DEF CkptState
    <3> QED
      BY <1>1, <2>1, <3>1
  <2> QED
    BY <2>1, <2>2, <2>3, <2>4 DEF CkptState
<1>6. ASSUME UNCHANGED ckptVars
      PROVE  CkptState' /\ flavour' = flavour /\ currentBlock' = currentBlock /\ upper' = upper
  <2>1. UNCHANGED <<flavour, checkpoints, currentBlock, pushes, duplicates, pushed, upper,
                    lower, lowerKey>>
    BY <1>6 DEF ckptVars, expectedVars
  <2>2. Length' = Length
    BY <2>1 DEF Length
  <2> QED
    BY <2>1, <2>2 DEF CkptState, CkptTypes, PushedLast, UpperTracked, LowerTracked,
                      SplitAfter, SplitBefore, ValueBefore, Access, Ascending
<1>7. ASSUME NEW delta \in CkptDelta, PushDelta(delta)
      PROVE  \E value \in Nat : PushHistory(value)
  BY <1>1, <1>4, <1>7 DEF PushDelta
<1>8. currentBlock >= currentBlock
  BY <1>1
<1>9. CASE CkptNext
  BY <1>1, <1>2, <1>3, <1>5, <1>7, <1>8, <1>9 DEF CkptNext
<1> QED
  BY <1>1, <1>6, <1>8, <1>9

\* In every state the keys ascend, every lookup, by either search, finds what the
\* tests track for it, and the length is that of the pushes without the repeated
\* ones - whatever is pushed, under keys and values of any width.
THEOREM CheckpointsSound == CkptSpec => [](LookupsAsTracked /\ PushesAsCounted)
<1>1. CkptInit => CkptState
  BY CkptInitState
<1>2. CkptState /\ [CkptNext]_ckptVars => CkptState'
  BY CkptStep
<1>3. CkptState => LookupsAsTracked /\ PushesAsCounted
  BY CkptStateSound
<1> QED
  BY <1>1, <1>2, <1>3, PTL DEF CkptSpec

\* What a History answers for a block that has passed is what was tracked for its
\* number, or nothing when the number is too large for a key.
PastAsTracked ==
    flavour = "History" =>
       \A number \in Nat : number < currentBlock =>
          IF number \in Lookup
          THEN /\ GetAtBlock(number) = upper[number]
               /\ GetAtProbablyRecentBlock(number) = upper[number]
          ELSE /\ GetAtBlock(number) = Reverted
               /\ GetAtProbablyRecentBlock(number) = Reverted

LEMMA PastIsTracked ==
    ASSUME CkptState
    PROVE  PastAsTracked
<1> SUFFICES ASSUME flavour = "History", NEW number \in Nat, number < currentBlock
             PROVE  IF number \in Lookup
                    THEN /\ GetAtBlock(number) = upper[number]
                         /\ GetAtProbablyRecentBlock(number) = upper[number]
                    ELSE /\ GetAtBlock(number) = Reverted
                         /\ GetAtProbablyRecentBlock(number) = Reverted
  BY DEF PastAsTracked
<1>1. CASE number \in Lookup
  BY <1>1, CkptStateSound DEF LookupsAsTracked, HistoryLookupAsserted
<1>2. CASE number \notin Lookup
  <2>1. KeyMax \in Nat
    BY KeyMaxNatural
  <2>2. ~ (number <= KeyMax)
    BY <1>2, <2>1 DEF Lookup, CkptKey
  <2>3. ToUintDownCast(KEY_BITS, number) = Reverted
    BY <2>2, KeyMaxNatural DEF ToUintDownCast
  <2> QED
    BY <1>2, <2>3 DEF GetAtBlock, GetAtProbablyRecentBlock, AtBlock
<1> QED
  BY <1>1, <1>2

\* No step changes what a History answers for a block that has passed.
THEOREM PastFixed == CkptSpec => PastIsFixed
<1>1. CkptInit => CkptState
  BY CkptInitState
<1>2. CkptState /\ [CkptNext]_ckptVars => CkptState'
  BY CkptStep
<1>3. CkptState => PastAsTracked
  BY PastIsTracked
<1>4. CkptState' => PastAsTracked'
  BY <1>3, PTL
<1>5. CkptState /\ [CkptNext]_ckptVars =>
        [flavour = "History" =>
           \A number \in 0 .. currentBlock - 1 :
              /\ GetAtBlock(number)' = GetAtBlock(number)
              /\ GetAtProbablyRecentBlock(number)' = GetAtProbablyRecentBlock(number)]_ckptVars
  <2> SUFFICES ASSUME CkptState, [CkptNext]_ckptVars, flavour = "History",
                      NEW number \in 0 .. currentBlock - 1
               PROVE  /\ GetAtBlock(number)' = GetAtBlock(number)
                      /\ GetAtProbablyRecentBlock(number)' = GetAtProbablyRecentBlock(number)
    OBVIOUS
  <2>1. /\ CkptState' /\ flavour' = "History" /\ currentBlock' \in Nat
        /\ currentBlock' >= currentBlock
        /\ \A l \in Lookup : l < currentBlock => upper'[l] = upper[l]
    BY CkptStep
  <2>2. number \in Nat /\ number < currentBlock /\ number < currentBlock'
    BY <2>1 DEF CkptState, CkptTypes
  <2>3. Lookup' = Lookup
    BY DEF Lookup, CkptKey
  <2>4. IF number \in Lookup
        THEN /\ GetAtBlock(number)' = upper'[number]
             /\ GetAtProbablyRecentBlock(number)' = upper'[number]
        ELSE /\ GetAtBlock(number)' = Reverted
             /\ GetAtProbablyRecentBlock(number)' = Reverted
    BY <1>4, <2>1, <2>2, <2>3 DEF PastAsTracked
  <2>5. IF number \in Lookup
        THEN /\ GetAtBlock(number) = upper[number]
             /\ GetAtProbablyRecentBlock(number) = upper[number]
        ELSE /\ GetAtBlock(number) = Reverted
             /\ GetAtProbablyRecentBlock(number) = Reverted
    BY <2>2, PastIsTracked DEF PastAsTracked
  <2> QED
    BY <2>1, <2>2, <2>4, <2>5
<1> QED
  BY <1>1, <1>2, <1>5, PTL DEF CkptSpec, PastIsFixed

-----------------------------------------------------------------------------
(* The script that runs the prover. *)

Line == [entry : Nat, success : BOOLEAN, url : {"output", "link", "error"}]

ScriptTypeOK ==
    /\ process \in {"starting", "running", "ended"}
    /\ exitCode \in {0, 1}
    /\ queue \subseteq Selected
    /\ stage \in [Job -> {"idle", "spawned", "exited", "closing", "done"}]
    /\ code \in [Job -> {0, 1}]
    /\ output \in [Job -> {"none", "piped", "collected"}]
    /\ hasHeader \in BOOLEAN
    /\ table \in Seq(Line)

\* No job has started before the requests are known to name specs, and those that
\* have left the queue are the selected ones.
StageInv ==
    /\ process = "running" => Unmatched = {}
    /\ Unmatched # {} => (process = "ended" => exitCode = 1)
    /\ process = "starting" => exitCode = 0 /\ queue = {} /\ \A j \in Job : stage[j] = "idle"
    /\ process # "starting" /\ Unmatched = {} =>
          \A j \in Job : stage[j] = "idle" <=> j \notin Selected \ queue

Finished == {j \in Job : stage[j] = "done"}

\* Below the one header there is one row for each job that is done.
TableInv ==
    /\ hasHeader <=> table # <<>>
    /\ table # <<>> => table[1] = Header
    /\ \A i \in 2 .. Len(table) :
          /\ table[i].entry \in Finished
          /\ table[i].success <=> code[table[i].entry] = 0
    /\ \A j \in Finished : \E i \in 2 .. Len(table) : table[i].entry = j
    /\ \A i, k \in 2 .. Len(table) : table[i].entry = table[k].entry => i = k

\* The exit code remembers the failures the script has heard of, and it ends with
\* every selected job done unless it ends with code 1.
ExitInv ==
    /\ process = "running" =>
          (exitCode = 0 <=> \A j \in Job : stage[j] \in {"closing", "done"} => code[j] = 0)
    /\ process = "ended" /\ Unmatched = {} =>
          \/ exitCode = 1 /\ ~ Selected \subseteq Finished
          \/ /\ Finished = Selected
             /\ exitCode = 0 <=> \A j \in Selected : code[j] = 0

ScriptInv == ScriptTypeOK /\ StageInv /\ TableInv /\ ExitInv

LEMMA ScriptInitial ==
    ASSUME PoolInit
    PROVE  ScriptInv
<1>1. ScriptTypeOK
  <2>1. <<>> \in Seq(Line)
    BY EmptySeq
  <2> QED
    BY <2>1 DEF PoolInit, ScriptTypeOK
<1>2. StageInv /\ ExitInv
  BY DEF PoolInit, StageInv, ExitInv
<1>3. TableInv
  <2>1. Finished = {} /\ 2 .. Len(table) = {} /\ table = <<>> /\ hasHeader = FALSE
    BY DEF PoolInit, Finished
  <2> QED
    BY <2>1 DEF TableInv
<1> QED
  BY <1>1, <1>2, <1>3 DEF ScriptInv

\* What depends on the requests alone.
LEMMA RequestsFixed ==
    ASSUME UNCHANGED argv
    PROVE  Selected' = Selected /\ Unmatched' = Unmatched
BY DEF Selected, Unmatched

\* Steps that finish no job and write nothing.
LEMMA TableFrame ==
    ASSUME TableInv, UNCHANGED <<table, hasHeader>>, Finished' = Finished,
           \A j \in Finished : code'[j] = code[j]
    PROVE  TableInv'
BY DEF TableInv

LEMMA StartStep ==
    ASSUME ScriptInv, Refuse \/ Submit
    PROVE  ScriptInv'
<1>1. /\ Selected' = Selected /\ Unmatched' = Unmatched
      /\ process = "starting" /\ exitCode = 0 /\ \A j \in Job : stage[j] = "idle"
      /\ UNCHANGED <<stage, code, output, hasHeader, table>>
  BY RequestsFixed DEF Refuse, Submit, ScriptInv, StageInv
<1>2. ScriptTypeOK'
  BY <1>1 DEF Refuse, Submit, ScriptInv, ScriptTypeOK
<1>3. TableInv'
  BY <1>1, TableFrame DEF ScriptInv, Finished
<1>4. StageInv' /\ ExitInv'
  BY <1>1 DEF Refuse, Submit, StageInv, ExitInv
<1> QED
  BY <1>2, <1>3, <1>4 DEF ScriptInv

LEMMA SpawnStep ==
    ASSUME ScriptInv, Spawn
    PROVE  ScriptInv'
<1>1. /\ Selected' = Selected /\ Unmatched' = Unmatched /\ process = "running"
      /\ UNCHANGED <<process, exitCode, code, output, hasHeader, table>>
  BY RequestsFixed DEF Spawn
<1>2. PICK j \in queue : /\ stage' = [stage EXCEPT ![j] = "spawned"]
                         /\ queue' = queue \ {j}
  BY DEF Spawn
<1>3. /\ ScriptTypeOK /\ StageInv /\ TableInv /\ ExitInv
      /\ j \in Selected /\ Selected \subseteq Job
      /\ stage \in [Job -> {"idle", "spawned", "exited", "closing", "done"}]
      /\ stage[j] = "idle"
  BY <1>1, <1>2 DEF ScriptInv, ScriptTypeOK, StageInv, Selected
<1>4. stage'[j] = "spawned" /\ \A k \in Job \ {j} : stage'[k] = stage[k]
  BY <1>2, <1>3
<1>5. ScriptTypeOK'
  BY <1>1, <1>2, <1>3 DEF ScriptTypeOK
<1>6. Finished' = Finished
  BY <1>3, <1>4 DEF Finished
<1>7. TableInv'
  BY <1>1, <1>3, <1>6, TableFrame
<1>8. StageInv'
  BY <1>1, <1>2, <1>3, <1>4 DEF StageInv
<1>9. ExitInv'
  BY <1>1, <1>3, <1>4 DEF ExitInv
<1> QED
  BY <1>5, <1>7, <1>8, <1>9 DEF ScriptInv

\* A child that cannot be started ends the script with its job undone.
LEMMA SpawnFailsStep ==
    ASSUME ScriptInv, NEW j \in Job, SpawnFails(j)
    PROVE  ScriptInv'
<1>1. /\ Selected' = Selected /\ Unmatched' = Unmatched /\ process = "running"
      /\ UNCHANGED <<queue, stage, code, output, hasHeader, table>>
      /\ stage[j] = "spawned" /\ exitCode' = 1 /\ process' = "ended"
  BY RequestsFixed DEF SpawnFails
<1>2. j \in Selected /\ j \notin Finished /\ Unmatched = {}
  BY <1>1 DEF ScriptInv, StageInv, Finished
<1>3. Finished' = Finished
  BY <1>1 DEF Finished
<1>4. TableInv'
  BY <1>1, <1>3, TableFrame DEF ScriptInv
<1>5. ScriptTypeOK' /\ StageInv'
  BY <1>1, <1>2 DEF ScriptInv, ScriptTypeOK, StageInv
<1>6. ExitInv'
  BY <1>1, <1>2, <1>3 DEF ExitInv
<1> QED
  BY <1>4, <1>5, <1>6 DEF ScriptInv

LEMMA OutputStep ==
    ASSUME ScriptInv, NEW j \in Job, ChildPrints(j) \/ Collect(j)
    PROVE  ScriptInv'
<1>1. /\ Selected' = Selected /\ Unmatched' = Unmatched
      /\ UNCHANGED <<process, exitCode, queue, stage, code, hasHeader, table>>
      /\ \E where \in {"piped", "collected"} : output' = [output EXCEPT ![j] = where]
  BY RequestsFixed DEF ChildPrints, Collect
<1>2. Finished' = Finished
  BY <1>1 DEF Finished
<1>3. TableInv'
  BY <1>1, <1>2, TableFrame DEF ScriptInv
<1> QED
  BY <1>1, <1>2, <1>3 DEF ScriptInv, ScriptTypeOK, StageInv, ExitInv

LEMMA ChildExitsStep ==
    ASSUME ScriptInv, NEW j \in Job, ChildExits(j)
    PROVE  ScriptInv'
<1>1. /\ Selected' = Selected /\ Unmatched' = Unmatched /\ process = "running"
      /\ UNCHANGED <<process, exitCode, queue, output, hasHeader, table>>
      /\ stage[j] = "spawned" /\ stage' = [stage EXCEPT ![j] = "exited"]
  BY RequestsFixed DEF ChildExits
<1>2. PICK c \in {0, 1} : code' = [code EXCEPT ![j] = c]
  BY DEF ChildExits
<1>3. /\ ScriptTypeOK /\ StageInv /\ TableInv /\ ExitInv
      /\ stage \in [Job -> {"idle", "spawned", "exited", "closing", "done"}]
      /\ code \in [Job -> {0, 1}]
  BY DEF ScriptInv, ScriptTypeOK
<1>4. /\ stage'[j] = "exited" /\ \A k \in Job \ {j} : stage'[k] = stage[k]
      /\ \A k \in Job \ {j} : code'[k] = code[k]
  BY <1>1, <1>2, <1>3
<1>5. ScriptTypeOK'
  BY <1>1, <1>2, <1>3 DEF ScriptTypeOK
<1>6. Finished' = Finished /\ \A k \in Finished : code'[k] = code[k]
  BY <1>1, <1>4 DEF Finished
<1>7. TableInv'
  BY <1>1, <1>3, <1>6, TableFrame
<1>8. StageInv'
  BY <1>1, <1>3, <1>4 DEF StageInv
<1>9. ExitInv'
  BY <1>1, <1>3, <1>4 DEF ExitInv
<1> QED
  BY <1>5, <1>7, <1>8, <1>9 DEF ScriptInv

LEMMA OnExitStep ==
    ASSUME ScriptInv, NEW j \in Job, OnExit(j)
    PROVE  ScriptInv'
<1>1. /\ Selected' = Selected /\ Unmatched' = Unmatched /\ process = "running"
      /\ UNCHANGED <<process, queue, code, output, hasHeader, table>>
      /\ stage[j] = "exited" /\ stage' = [stage EXCEPT ![j] = "closing"]
      /\ exitCode' = IF code[j] # 0 THEN 1 ELSE exitCode
  BY RequestsFixed DEF OnExit
<1>2. /\ ScriptTypeOK /\ StageInv /\ TableInv /\ ExitInv
      /\ stage \in [Job -> {"idle", "spawned", "exited", "closing", "done"}]
      /\ exitCode \in {0, 1}
  BY DEF ScriptInv, ScriptTypeOK
<1>3. stage'[j] = "closing" /\ \A k \in Job \ {j} : stage'[k] = stage[k]
  BY <1>1, <1>2
<1>4. ScriptTypeOK'
  BY <1>1, <1>2 DEF ScriptTypeOK
<1>5. Finished' = Finished
  BY <1>1, <1>3 DEF Finished
<1>6. TableInv'
  BY <1>1, <1>2, <1>5, TableFrame
<1>7. StageInv'
  BY <1>1, <1>2, <1>3 DEF StageInv
<1>8. ExitInv'
  <2>1. exitCode = 0 <=> \A k \in Job : stage[k] \in {"closing", "done"} => code[k] = 0
    BY <1>1, <1>2 DEF ExitInv
  <2>2. exitCode' = 0 <=> \A k \in Job : stage'[k] \in {"closing", "done"} => code[k] = 0
    BY <1>1, <1>2, <1>3, <2>1
  <2> QED
    BY <1>1, <2>2 DEF ExitInv
<1> QED
  BY <1>4, <1>6, <1>7, <1>8 DEF ScriptInv

\* The table with one more row, below the header.
LEMMA RowAdded ==
    ASSUME ScriptTypeOK, TableInv, NEW j \in Job, writeEntry(j)
    PROVE  /\ table' \in Seq(Line) /\ table' # <<>> /\ table'[1] = Header
           /\ LET rows == IF table = <<>> THEN 1 ELSE Len(table)
              IN  /\ rows \in Nat /\ rows >= 1 /\ Len(table') = rows + 1
                  /\ 2 .. rows = 2 .. Len(table)
                  /\ \A i \in 2 .. rows : table'[i] = table[i]
                  /\ table'[rows + 1] = Row(j)
<1> DEFINE top == IF hasHeader THEN <<>> ELSE <<Header>>
           head == table \o top
           line == Row(j)
<1>1. /\ j \in Nat /\ table \in Seq(Line) /\ (hasHeader <=> table # <<>>)
      /\ table # <<>> => table[1] = Header
  BY DEF ScriptTypeOK, TableInv, Job
<1>2. line \in Line /\ Header \in Line
  BY <1>1 DEF Row, Header, Line
<1>3. table' = head \o <<line>>
  BY DEF writeEntry
<1>4. head \in Seq(Line) /\ head # <<>> /\ head[1] = Header
      /\ head = IF table = <<>> THEN <<Header>> ELSE table
  <2>1. CASE table = <<>>
    <3>1. top = <<Header>> /\ <<Header>> \in Seq(Line)
      BY <1>1, <1>2, <2>1
    <3>2. head = <<Header>>
      BY <2>1, <3>1, ConcatEmptySeq
    <3> QED
      BY <1>2, <2>1, <3>1, <3>2
  <2>2. CASE table # <<>>
    <3>1. head = table
      BY <1>1, <2>2, ConcatEmptySeq
    <3> QED
      BY <1>1, <2>2, <3>1
  <2> QED
    BY <2>1, <2>2
<1> HIDE DEF head, line
<1>5. Len(head) \in Nat /\ Len(head) >= 1 /\ Len(<<line>>) = 1 /\ <<line>>[1] = line
      /\ <<line>> \in Seq(Line)
  BY <1>2, <1>4, EmptySeq
<1>6. /\ table' \in Seq(Line) /\ Len(table') = Len(head) + 1
      /\ \A i \in 1 .. Len(head) + 1 :
            table'[i] = IF i <= Len(head) THEN head[i] ELSE <<line>>[i - Len(head)]
  BY <1>3, <1>4, <1>5, ConcatProperties
<1>7. /\ table'[1] = Header /\ table' # <<>>
      /\ table'[Len(head) + 1] = line
      /\ \A i \in 2 .. Len(head) : table'[i] = head[i]
  BY <1>4, <1>5, <1>6
<1>8. CASE table = <<>>
  <2>1. Len(head) = 1 /\ Len(table) = 0
    BY <1>4, <1>8
  <2> QED
    BY <1>6, <1>7, <1>8, <2>1 DEF line
<1>9. CASE table # <<>>
  BY <1>4, <1>5, <1>6, <1>7, <1>9 DEF line
<1> QED
  BY <1>8, <1>9

LEMMA WriteStep ==
    ASSUME ScriptInv, NEW j \in Job, writeEntry(j)
    PROVE  ScriptInv'
<1> DEFINE rows == IF table = <<>> THEN 1 ELSE Len(table)
<1>1. /\ Selected' = Selected /\ Unmatched' = Unmatched /\ process = "running"
      /\ UNCHANGED <<process, exitCode, queue, code, output>>
      /\ stage[j] = "closing" /\ stage' = [stage EXCEPT ![j] = "done"]
      /\ hasHeader' = TRUE
  BY RequestsFixed DEF writeEntry
<1>2. /\ ScriptTypeOK /\ StageInv /\ TableInv /\ ExitInv
      /\ stage \in [Job -> {"idle", "spawned", "exited", "closing", "done"}]
      /\ Job \subseteq Nat
  BY DEF ScriptInv, ScriptTypeOK, Job
<1>3. stage'[j] = "done" /\ \A k \in Job \ {j} : stage'[k] = stage[k]
  BY <1>1, <1>2
<1>4. /\ table' \in Seq(Line) /\ table' # <<>> /\ table'[1] = Header
      /\ rows \in Nat /\ rows >= 1 /\ Len(table') = rows + 1
      /\ 2 .. rows = 2 .. Len(table)
      /\ \A i \in 2 .. rows : table'[i] = table[i]
      /\ table'[rows + 1] = Row(j)
  BY <1>2, RowAdded
<1> HIDE DEF rows
<1>5. ScriptTypeOK'
  BY <1>1, <1>2, <1>4 DEF ScriptTypeOK
<1>6. Finished' = Finished \cup {j} /\ j \notin Finished
  BY <1>1, <1>3 DEF Finished
<1>7. Row(j).entry = j /\ (Row(j).success <=> code[j] = 0)
  BY DEF Row
<1>8. \A i \in 2 .. rows + 1 : i \in 2 .. rows \/ i = rows + 1
  BY <1>4
<1>9. \A i \in 2 .. rows : /\ table[i].entry \in Finished
                           /\ table[i].success <=> code[table[i].entry] = 0
  BY <1>2, <1>4 DEF TableInv
<1>10. ASSUME NEW i \in 2 .. rows + 1
       PROVE  /\ table'[i].entry \in Finished'
              /\ table'[i].success <=> code'[table'[i].entry] = 0
  BY <1>1, <1>4, <1>6, <1>7, <1>8, <1>9
<1>11. ASSUME NEW k \in Finished'
       PROVE  \E i \in 2 .. rows + 1 : table'[i].entry = k
  <2>1. CASE k = j
    BY <1>4, <1>7, <2>1
  <2>2. CASE k # j
    <3>1. PICK i \in 2 .. rows : table[i].entry = k
      BY <1>2, <1>4, <1>6, <2>2 DEF TableInv
    <3> QED
      BY <1>4, <3>1
  <2> QED
    BY <2>1, <2>2
<1>12. ASSUME NEW i \in 2 .. rows + 1, NEW k \in 2 .. rows + 1,
              table'[i].entry = table'[k].entry
       PROVE  i = k
  <2>1. CASE i \in 2 .. rows /\ k \in 2 .. rows
    BY <1>2, <1>4, <1>12, <2>1 DEF TableInv
  <2>2. CASE ~ (i \in 2 .. rows /\ k \in 2 .. rows)
    BY <1>4, <1>6, <1>7, <1>8, <1>9, <1>12, <2>2
  <2> QED
    BY <2>1, <2>2
<1>13. TableInv'
  BY <1>1, <1>4, <1>10, <1>11, <1>12 DEF TableInv
<1>14. StageInv'
  BY <1>1, <1>2, <1>3 DEF StageInv
<1>15. ExitInv'
  BY <1>1, <1>2, <1>3 DEF ExitInv
<1> QED
  BY <1>5, <1>13, <1>14, <1>15 DEF ScriptInv

\* The script ends when all that was selected is done.
LEMMA EndStep ==
    ASSUME ScriptInv, End
    PROVE  ScriptInv'
<1>1. /\ Selected' = Selected /\ Unmatched' = Unmatched /\ process = "running"
      /\ UNCHANGED <<exitCode, queue, stage, code, output, hasHeader, table>>
      /\ queue = {} /\ Active = {} /\ process' = "ended"
  BY RequestsFixed DEF End
<1>2. ScriptTypeOK /\ StageInv /\ TableInv /\ ExitInv /\ Selected \subseteq Job
  BY DEF ScriptInv, Selected
<1>3. \A j \in Job : stage[j] = "idle" \/ stage[j] = "done"
  BY <1>1, <1>2 DEF Active, ScriptTypeOK
<1>4. Finished = Selected
  BY <1>1, <1>2, <1>3 DEF StageInv, Finished
<1>5. exitCode = 0 <=> \A j \in Selected : code[j] = 0
  BY <1>1, <1>2, <1>3, <1>4 DEF ExitInv, Finished
<1>6. Finished' = Finished
  BY <1>1 DEF Finished
<1>7. TableInv'
  BY <1>1, <1>2, <1>6, TableFrame
<1>8. ScriptTypeOK' /\ StageInv'
  BY <1>1, <1>2 DEF ScriptTypeOK, StageInv
<1>9. ExitInv'
  BY <1>1, <1>4, <1>5, <1>6 DEF ExitInv
<1> QED
  BY <1>7, <1>8, <1>9 DEF ScriptInv

LEMMA ScriptStep ==
    ASSUME ScriptInv, [PoolNext]_poolVars
    PROVE  ScriptInv'
<1>1. CASE UNCHANGED poolVars
  <2>1. /\ Selected' = Selected /\ Unmatched' = Unmatched
        /\ UNCHANGED <<process, exitCode, queue, stage, code, output, hasHeader, table>>
    BY <1>1, RequestsFixed DEF poolVars
  <2>2. Finished' = Finished
    BY <2>1 DEF Finished
  <2>3. TableInv'
    BY <2>1, <2>2, TableFrame DEF ScriptInv
  <2> QED
    BY <2>1, <2>2, <2>3 DEF ScriptInv, ScriptTypeOK, StageInv, ExitInv
<1>2. CASE PoolNext
  BY <1>2, StartStep, SpawnStep, SpawnFailsStep, OutputStep, ChildExitsStep, OnExitStep,
     WriteStep, EndStep, Zenon DEF PoolNext, Progress
<1> QED
  BY <1>1, <1>2

\* There are as many rows as jobs that are done.
LEMMA RowsCounted ==
    ASSUME ScriptInv
    PROVE  /\ Rows = 2 .. Len(table)
           /\ Cardinality(Rows) = Cardinality(Finished)
<1> DEFINE named == [i \in Rows |-> table[i].entry]
<1>1. table \in Seq(Line) /\ TableInv /\ Finished \subseteq Job
  BY DEF ScriptInv, ScriptTypeOK, Finished
<1>2. Rows = 2 .. Len(table)
  <2>1. ASSUME NEW i \in 2 .. Len(table)
        PROVE  table[i] # Header
    BY <1>1 DEF TableInv, Job, Header
  <2>2. DOMAIN table = 1 .. Len(table) /\ Len(table) \in Nat
    BY <1>1
  <2>3. 1 \in DOMAIN table => table[1] = Header
    BY <1>1, <2>2 DEF TableInv
  <2> QED
    BY <2>1, <2>2, <2>3 DEF Rows
<1>3. named \in Bijection(Rows, Finished)
  <2>1. named \in [Rows -> Finished]
    BY <1>1, <1>2 DEF TableInv
  <2>2. \A i, k \in Rows : named[i] = named[k] => i = k
    BY <1>1, <1>2 DEF TableInv
  <2>3. \A j \in Finished : \E i \in Rows : named[i] = j
    BY <1>1, <1>2 DEF TableInv
  <2> QED
    BY <2>1, <2>2, <2>3, Zenon DEF Bijection, Injection, Surjection, IsInjective
<1>4. IsFiniteSet(Rows)
  BY <1>1, <1>2, FS_Interval
<1>5. ExistsBijection(Rows, Finished)
  BY <1>3, Zenon DEF ExistsBijection
<1> QED
  BY <1>2, <1>4, <1>5, FS_Bijection, Zenon

LEMMA ExitTells ==
    ASSUME ScriptInv
    PROVE  ExitCodeTells
<1>1. StageInv /\ TableInv /\ ExitInv
  BY DEF ScriptInv
<1> SUFFICES ASSUME process = "ended"
             PROVE  exitCode = 0 <=>
                       /\ \A r \in argv.requests : \E j \in Job : match(Specs[j], r)
                       /\ table # <<>> => table[1] = Header /\ Rows = 2 .. Len(table)
                       /\ Cardinality(Rows) = Cardinality(Selected)
                       /\ \A j \in Selected :
                             \E i \in Rows : table[i].entry = j /\ table[i].success
  BY DEF ExitCodeTells
<1>2. CASE Unmatched # {}
  <2>1. exitCode = 1
    BY <1>1, <1>2 DEF StageInv
  <2>2. PICK r \in argv.requests : \A j \in Selected : ~ match(Specs[j], r)
    BY <1>2 DEF Unmatched
  <2>3. \A j \in Job : ~ match(Specs[j], r)
    BY <2>2 DEF Selected
  <2>4. ~ \A q \in argv.requests : \E j \in Job : match(Specs[j], q)
    BY <2>2, <2>3, Zenon
  <2>5. exitCode # 0
    BY <2>1
  <2> QED
    BY <2>4, <2>5, Zenon
<1>3. CASE Unmatched = {} /\ ~ Selected \subseteq Finished
  <2>1. exitCode = 1
    BY <1>1, <1>3 DEF ExitInv
  <2>2. PICK j \in Selected : j \notin Finished
    BY <1>3
  <2>3. \A i \in Rows : table[i].entry # j
    BY <1>1, <2>2, RowsCounted DEF TableInv
  <2>4. ~ \A k \in Selected : \E i \in Rows : table[i].entry = k /\ table[i].success
    BY <2>2, <2>3, Zenon
  <2>5. exitCode # 0
    BY <2>1
  <2> QED
    BY <2>4, <2>5, Zenon
<1>4. CASE Unmatched = {} /\ Selected \subseteq Finished
  <2>1. Finished = Selected /\ (exitCode = 0 <=> \A j \in Selected : code[j] = 0)
    BY <1>1, <1>4 DEF ExitInv
  <2>2. \A r \in argv.requests : \E j \in Job : match(Specs[j], r)
    BY <1>4 DEF Unmatched, Selected
  <2>3. /\ table # <<>> => table[1] = Header /\ Rows = 2 .. Len(table)
        /\ Cardinality(Rows) = Cardinality(Selected)
    BY <1>1, <2>1, RowsCounted DEF TableInv
  <2>4. ASSUME NEW j \in Selected
        PROVE  code[j] = 0 <=> \E i \in Rows : table[i].entry = j /\ table[i].success
    <3>1. PICK i \in Rows : table[i].entry = j
      BY <1>1, <2>1, RowsCounted DEF TableInv
    <3>2. \A k \in Rows : table[k].entry = j => (table[k].success <=> code[j] = 0)
      BY <1>1, RowsCounted DEF TableInv
    <3> QED
      BY <3>1, <3>2
  <2> QED
    BY <2>1, <2>2, <2>3, <2>4
<1> QED
  BY <1>2, <1>3, <1>4

-----------------------------------------------------------------------------

\* The inductive invariant of the script: where each job is, which rows are written,
\* and what the exit code remembers.
THEOREM ScriptInvariant == PoolSpec => []ScriptInv
<1>1. PoolInit => ScriptInv
  BY ScriptInitial
<1>2. ScriptInv /\ [PoolNext]_poolVars => ScriptInv'
  BY ScriptStep
<1> QED
  BY <1>1, <1>2, PTL DEF PoolSpec

\* Exit code 0 means that every request names a spec and every selected job has its
\* row of success, for every list of specs and however many children run at once.
THEOREM ScriptExitCodeTells == PoolSpec => []ExitCodeTells
<1>1. ScriptInv => ExitCodeTells
  BY ExitTells
<1> QED
  BY <1>1, ScriptInvariant, PTL
=============================================================================
