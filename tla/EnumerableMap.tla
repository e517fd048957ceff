---------------------------- MODULE EnumerableMap ----------------------------
(***************************************************************************)
(* scripts/generate/templates/EnumerableMap.js of the vendored             *)
(* openzeppelin-contracts-upgradeable: a map is an EnumerableSet of keys   *)
(* and a mapping of values, in which zero stands for no value as well as   *)
(* for the value zero.                                                     *)
(***************************************************************************)
EXTENDS EnumerableSet

CONSTANTS
    KeyType, ValueType,      \* of the map, one of TYPES
    KeyInput, ValueInput     \* the keys and values calls are made with

ASSUME MapAssumption ==
    /\ KeyType \in DataType /\ KeyInput \subseteq Value(KeyType)
    /\ ValueType \in DataType /\ ValueInput \subseteq Value(ValueType)

VARIABLE mapValues    \* map._values; values, indexes and result are those of map._keys

mapVars == <<setVars, mapValues>>

-----------------------------------------------------------------------------
(* The map of words. *)

\* set; a call of keys.add after the assignment.
InnerSet(key, value) ==
    /\ mapValues' = [mapValues EXCEPT ![key] = value]
    /\ InnerAdd(key)

\* Mutant of InnerDrop: the value stays.
InnerDropKey(key) ==
    /\ InnerRemove(key)
    /\ UNCHANGED mapValues

\* remove
InnerDrop(key) ==
    /\ mapValues' = [mapValues EXCEPT ![key] = 0]
    /\ InnerRemove(key)

\* tryGet: whether there is a value, and the value.
InnerTryGet(key) ==
    IF mapValues[key] = 0 THEN <<InnerContains(key), 0>> ELSE <<TRUE, mapValues[key]>>

\* get, with and without an error message.
InnerGet(key) ==
    IF mapValues[key] # 0 \/ InnerContains(key) THEN mapValues[key] ELSE Reverted

\* at
InnerEntry(index) == <<InnerAt(index), mapValues[InnerAt(index)]>>

\* keys
InnerKeys == InnerValues

-----------------------------------------------------------------------------
(* The map of two types. *)

SetEntry(key, value) == InnerSet(toBytes32(KeyType, key), toBytes32(ValueType, value))
DropEntry(key)       == InnerDrop(toBytes32(KeyType, key))
HasKey(key)          == InnerContains(toBytes32(KeyType, key))

TryGet(key) ==
    LET got == InnerTryGet(toBytes32(KeyType, key))
    IN  <<got[1], fromBytes32(ValueType, got[2])>>

Get(key) ==
    LET got == InnerGet(toBytes32(KeyType, key))
    IN  IF got = Reverted THEN Reverted ELSE fromBytes32(ValueType, got)

Entry(index) ==
    LET entry == InnerEntry(index)
    IN  <<fromBytes32(KeyType, entry[1]), fromBytes32(ValueType, entry[2])>>

\* keys(): the words are handed out as the type, without a conversion; and length().
AllKeys == InnerKeys
NumberOfEntries == InnerLength

MapInit == SetInit /\ mapValues = [w \in Word |-> 0]

MapNext ==
    \E key \in KeyInput :
       \/ \E value \in ValueInput : SetEntry(key, value)
       \/ DropEntry(key)

MapSpec == MapInit /\ [][MapNext]_mapVars

-----------------------------------------------------------------------------
(* Properties. *)

Keys == {fromBytes32(KeyType, values[i]) : i \in 1 .. Len(values)}
Entries == [k \in Keys |-> fromBytes32(ValueType, mapValues[toBytes32(KeyType, k)])]

\* The map is a partial function: whatever is set, set again and removed, its
\* entries and answers are those of one, zero being a value like any other.
MapPromise == INSTANCE AbstractMap
    WITH Key <- KeyInput, Datum <- Value(ValueType), entries <- Entries
ImplementsMap == MapPromise!Spec

\* What the reads look at - a value, and only for zero the keys - never shows a key
\* that was removed nor hides one whose value is zero; enumeration shows each entry
\* once, with the key that the array of all keys shows.
ReadsAgree ==
    /\ \A key \in Value(KeyType) :
          /\ HasKey(key) <=> key \in Keys
          /\ TryGet(key) = IF key \in Keys THEN <<TRUE, Entries[key]>> ELSE <<FALSE, 0>>
          /\ IF key \in Keys THEN Get(key) = Entries[key] ELSE Get(key) = Reverted
    /\ \A i \in 0 .. Len(values) - 1 :
          /\ Entry(i)[1] \in Keys /\ Entry(i)[2] = Entries[Entry(i)[1]]
          /\ AllKeys[i + 1] = Entry(i)[1]
    /\ NumberOfEntries = Cardinality(Keys)
=============================================================================
