---------------------------- MODULE EnumerableSet ----------------------------
(***************************************************************************)
(* scripts/generate/templates/EnumerableSet.js of the vendored             *)
(* openzeppelin-contracts-upgradeable, the template of the sets in which   *)
(* the minting contracts keep assets and custodians: an array of values,   *)
(* and for each value its position in the array plus one, zero for values  *)
(* that are not in the set.  Elements are removed by swap and pop.         *)
(***************************************************************************)
EXTENDS SafeCast, Sequences, FiniteSets

CONSTANTS
    SetType,     \* the type of the elements, one of TYPES
    SetInput     \* the elements calls are made with

ASSUME SetAssumption == SetType \in DataType /\ SetInput \subseteq Value(SetType)

VARIABLES
    values,      \* set._values
    indexes,     \* set._indexes
    result       \* what the last call returned

setVars == <<values, indexes, result>>

-----------------------------------------------------------------------------
(* The generic set of words. *)

InnerContains(value) == indexes[value] # 0
InnerAt(index) == values[index + 1]
InnerLength == Len(values)
InnerValues == values

InnerAdd(value) ==
    \/ /\ ~InnerContains(value)
       /\ values' = Append(values, value)
       /\ indexes' = [indexes EXCEPT ![value] = Len(values) + 1]
       /\ result' = TRUE
    \/ /\ InnerContains(value)
       /\ result' = FALSE
       /\ UNCHANGED <<values, indexes>>

\* Mutant of InnerRemove: the index of the value is deleted first, and restored by
\* the move when the value is the last.
InnerRemoveInOrder(value) ==
    \/ /\ InnerContains(value)
       /\ LET last == Len(values)
          IN  /\ values' = SubSeq([values EXCEPT ![indexes[value]] = values[last]], 1, last - 1)
              /\ indexes' = [indexes EXCEPT ![value] = 0, ![values[last]] = indexes[value]]
       /\ result' = TRUE
    \/ /\ ~InnerContains(value)
       /\ result' = FALSE
       /\ UNCHANGED <<values, indexes>>

\* Mutant of InnerRemove: the value that moved keeps its old index.
InnerRemoveStaleIndex(value) ==
    \/ /\ InnerContains(value)
       /\ LET last == Len(values)
          IN  /\ values' = SubSeq([values EXCEPT ![indexes[value]] = values[last]], 1, last - 1)
              /\ indexes' = [indexes EXCEPT ![value] = 0]
       /\ result' = TRUE
    \/ /\ ~InnerContains(value)
       /\ result' = FALSE
       /\ UNCHANGED <<values, indexes>>

\* The last value moves to where the value was, unless it is that value: then the
\* code skips the move, which would change nothing the rest does not undo.
InnerRemove(value) ==
    \/ /\ InnerContains(value)
       /\ LET last == Len(values)
          IN  /\ values' = SubSeq([values EXCEPT ![indexes[value]] = values[last]], 1, last - 1)
              /\ indexes' = [indexes EXCEPT ![values[last]] = indexes[value], ![value] = 0]
       /\ result' = TRUE
    \/ /\ ~InnerContains(value)
       /\ result' = FALSE
       /\ UNCHANGED <<values, indexes>>

-----------------------------------------------------------------------------
(* The set of a type; length is InnerLength. *)

Add(value)      == InnerAdd(toBytes32(SetType, value))
Remove(value)   == InnerRemove(toBytes32(SetType, value))
Contains(value) == InnerContains(toBytes32(SetType, value))
At(index)       == fromBytes32(SetType, InnerAt(index))

\* values(): the words are handed out as the type, without a conversion.
AllValues == InnerValues

SetInit ==
    /\ values = <<>>
    /\ indexes = [w \in Word |-> 0]
    /\ result = FALSE

SetNext == \E value \in SetInput : Add(value) \/ Remove(value)

SetSpec == SetInit /\ [][SetNext]_setVars

-----------------------------------------------------------------------------
(* Properties. *)

\* Positions and indexes are inverse of each other, however often the last value
\* has been swapped into the place of another: no value is stored twice, none is
\* lost and none that was removed is still found.
IndexesArePositions ==
    /\ \A i \in 1 .. Len(values) : indexes[values[i]] = i
    /\ \A w \in Word : indexes[w] # 0 => indexes[w] \in 1 .. Len(values) /\ values[indexes[w]] = w

\* Enumeration, membership and number agree on one set of elements, also where
\* words are handed out as elements without a conversion.
EnumerationAgrees ==
    /\ \A v \in Value(SetType) :
          Contains(v) <=> \E i \in 0 .. Len(values) - 1 : At(i) = v
    /\ \A i \in 0 .. Len(values) - 1 : AllValues[i + 1] = At(i)
    /\ InnerLength = Cardinality({At(i) : i \in 0 .. Len(values) - 1})

\* The set is a set: every call changes its elements, and answers, as a call on a
\* set would.
Elements == {fromBytes32(SetType, values[i]) : i \in 1 .. Len(values)}
Promise == INSTANCE AbstractSet WITH Element <- SetInput, elements <- Elements
ImplementsSet == Promise!Spec

\* The set as a whole: positions and enumeration.
SetIsSound == IndexesArePositions /\ EnumerationAgrees
=============================================================================
