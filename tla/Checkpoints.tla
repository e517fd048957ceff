----------------------------- MODULE Checkpoints -----------------------------
(***************************************************************************)
(* scripts/generate/templates/Checkpoints.js of the vendored               *)
(* openzeppelin-contracts-upgradeable: values checkpointed under keys that *)
(* never decrease, looked up by binary search - a Trace under keys of its  *)
(* user's, a History under block numbers - together with the expectations  *)
(* that the fuzz tests of Checkpoints.t.js track, for every lookup at once *)
(* and for every sequence of calls.                                        *)
(***************************************************************************)
EXTENDS SafeCast, Sequences

CONSTANTS
    KEY_BITS, VALUE_BITS,  \* of Checkpoints.opts.js: 32 and 224, or 96 and 160
    KEY_MAX_GAP,           \* bound of the tests: how far keys advance at once
    CkptValue,             \* the values pushed
    CkptDelta,             \* the deltas pushed
    MaxBlockNumber,        \* bound of block.number
    MaxDuplicates          \* bound of the keys that are pushed again

KeyMax == TwoTo[KEY_BITS] - 1
CkptKey == 0 .. KeyMax
Lookup == CkptKey

ASSUME CheckpointsAssumption ==
    /\ {KEY_BITS, VALUE_BITS} \subseteq 1 .. WORD_BITS
    /\ KEY_MAX_GAP \in Nat /\ MaxBlockNumber \in Nat /\ MaxDuplicates \in Nat
    /\ CkptValue \subseteq Nat /\ CkptDelta \subseteq Nat

VARIABLES
    flavour,          \* "Trace" or "History"
    checkpoints,      \* self._checkpoints
    currentBlock,     \* block.number
    pushes, duplicates,     \* i and duplicates of testPush
    pushed,                 \* the key and the value of its last push
    upper, lower, lowerKey  \* of testLookup, for every lookup

expectedVars == <<pushes, duplicates, pushed, upper, lower, lowerKey>>
ckptVars == <<flavour, checkpoints, currentBlock, expectedVars>>

-----------------------------------------------------------------------------
(* Lookups.  Positions are counted from zero. *)

Access(pos) == checkpoints[pos + 1]
Length == Len(checkpoints)

Average(a, b) == (a + b) \div 2
Sqrt(a) == CHOOSE r \in 0 .. a : r * r <= a /\ a < (r + 1) * (r + 1)

\* The loop of both searches, from low to high: at a position of `left' the middle
\* becomes the high end, at another one the low end moves past it.
BinarySearch(left, low, high) ==
    LET search[ends \in (0 .. high) \X (0 .. high)] ==
          LET mid == Average(ends[1], ends[2])
          IN  IF ends[1] >= ends[2] THEN ends[2]
              ELSE IF mid \in left THEN search[<<ends[1], mid>>]
                                   ELSE search[<<mid + 1, ends[2]>>]
    IN  search[<<low, high>>]

\* Mutant of UpperBinaryLookup: a checkpoint at the key itself is left out.
StrictBinaryLookup(key, low, high) ==
    BinarySearch({pos \in 0 .. Length - 1 : Access(pos).key >= key}, low, high)

UpperBinaryLookup(key, low, high) ==
    BinarySearch({pos \in 0 .. Length - 1 : Access(pos).key > key}, low, high)

LowerBinaryLookup(key, low, high) ==
    BinarySearch({pos \in 0 .. Length - 1 : ~(Access(pos).key < key)}, low, high)

\* The value before a position, zero before the first.
ValueBefore(pos) == IF pos = 0 THEN 0 ELSE Access(pos - 1).value

LowerLookup(key) ==
    LET pos == LowerBinaryLookup(key, 0, Length)
    IN  IF pos = Length THEN 0 ELSE Access(pos).value

UpperLookup(key) == ValueBefore(UpperBinaryLookup(key, 0, Length))

\* Mutant of UpperLookupRecent: the lower part of a split ends before the middle.
UpperLookupRecentShort(key) ==
    LET mid == Length - Sqrt(Length)
    IN  ValueBefore(IF Length <= 5 THEN UpperBinaryLookup(key, 0, Length)
                    ELSE IF key < Access(mid).key THEN UpperBinaryLookup(key, 0, mid - 1)
                    ELSE UpperBinaryLookup(key, mid + 1, Length))

\* More than five checkpoints are split where the last square root of them begins.
UpperLookupRecent(key) ==
    LET mid == Length - Sqrt(Length)
    IN  ValueBefore(IF Length <= 5 THEN UpperBinaryLookup(key, 0, Length)
                    ELSE IF key < Access(mid).key THEN UpperBinaryLookup(key, 0, mid)
                    ELSE UpperBinaryLookup(key, mid + 1, Length))

\* getAtBlock and getAtProbablyRecentBlock: the block must be past, and its number
\* have the type of a key.
AtBlock(number, Find(_)) ==
    LET key == ToUintDownCast(KEY_BITS, number)
    IN  IF number < currentBlock /\ key # Reverted THEN Find(key) ELSE Reverted
GetAtBlock(number) == AtBlock(number, UpperLookup)
GetAtProbablyRecentBlock(number) == AtBlock(number, UpperLookupRecent)

Latest == ValueBefore(Length)
LatestCheckpoint ==
    IF Length = 0 THEN <<FALSE, 0, 0>>
    ELSE <<TRUE, Access(Length - 1).key, Access(Length - 1).value>>
LastKey == LatestCheckpoint[2]

-----------------------------------------------------------------------------
(* Pushes. *)

\* Keys never decrease.
MayInsert(key) == Length > 0 => LastKey <= key

\* Mutant of Insert: any key is taken, as if keys were known to increase.
InsertUnordered(key, value) ==
    IF Length > 0 /\ LastKey = key
    THEN checkpoints' = [checkpoints EXCEPT ![Length].value = value]
    ELSE checkpoints' = Append(checkpoints, [key |-> key, value |-> value])

\* _insert: the last checkpoint is updated, or a later one appended.
Insert(key, value) ==
    /\ MayInsert(key)
    /\ IF Length > 0 /\ LastKey = key
       THEN checkpoints' = [checkpoints EXCEPT ![Length].value = value]
       ELSE checkpoints' = Append(checkpoints, [key |-> key, value |-> value])

\* The loop of testPush, before and after a push.
TrackPushes(key, value) ==
    /\ pushes' = pushes + 1
    /\ duplicates' = IF pushes > 0 /\ key = pushed.key THEN duplicates + 1 ELSE duplicates
    /\ duplicates' <= MaxDuplicates
    /\ pushed' = [key |-> key, value |-> value]

\* The loop of testLookup, for every lookup: the value of the last key that is not
\* greater, and of the first that is not smaller.
TrackLookups(key, value) ==
    /\ upper' = [l \in Lookup |-> IF key <= l THEN value ELSE upper[l]]
    /\ lowerKey' = [l \in Lookup |->
                       IF key >= l /\ (pushes = 0 \/ pushed.key < l) THEN key ELSE lowerKey[l]]
    /\ lower' = [l \in Lookup |-> IF key = lowerKey'[l] THEN value ELSE lower[l]]

TrackExpected(key, value) ==
    /\ TrackPushes(key, value)
    /\ TrackLookups(key, value)
    /\ UNCHANGED flavour

\* push(key, value) of a Trace, under a key of the user's.
PushTrace(key, value) ==
    /\ flavour = "Trace"
    /\ Insert(key, value)
    /\ TrackExpected(key, value)
    /\ UNCHANGED currentBlock

\* push(value) of a History, under the number of the block.
PushHistory(value) ==
    /\ flavour = "History"
    /\ ToUintDownCast(KEY_BITS, currentBlock) # Reverted
    /\ ToUintDownCast(VALUE_BITS, value) # Reverted
    /\ Insert(currentBlock, value)
    /\ TrackExpected(currentBlock, value)
    /\ UNCHANGED currentBlock

\* push(op, delta), op adding or subtracting as the library's users have it.
PushDelta(delta) ==
    \/ PushHistory(Latest + delta)
    \/ Latest >= delta /\ PushHistory(Latest - delta)

\* Blocks pass; vm.roll.
Roll(number) ==
    /\ flavour = "History"
    /\ currentBlock' = number
    /\ UNCHANGED <<flavour, checkpoints, expectedVars>>

CkptInit ==
    /\ flavour \in {"Trace", "History"}
    /\ checkpoints = <<>>
    /\ currentBlock = 0
    /\ pushes = 0 /\ duplicates = 0
    /\ pushed = [key |-> 0, value |-> 0]
    /\ upper = [l \in Lookup |-> 0]
    /\ lower = [l \in Lookup |-> 0]
    /\ lowerKey = [l \in Lookup |-> KeyMax]

CkptNext ==
    \/ \E key \in CkptKey, value \in CkptValue :
          key <= LastKey + KEY_MAX_GAP /\ PushTrace(key, value)
    \/ \E value \in CkptValue : PushHistory(value)
    \/ \E delta \in CkptDelta : PushDelta(delta)
    \/ \E number \in currentBlock + 1 .. currentBlock + KEY_MAX_GAP :
          number <= MaxBlockNumber /\ Roll(number)

CkptSpec == CkptInit /\ [][CkptNext]_ckptVars

-----------------------------------------------------------------------------
(* The assertions of Checkpoints.t.js, here of every state. *)

AssertLatestCheckpoint(exist, key, value) == LatestCheckpoint = <<exist, key, value>>

\* testPush, at the start and after each push.
PushAsserted ==
    /\ Length = pushes - duplicates /\ Latest = pushed.value
    /\ AssertLatestCheckpoint(pushes > 0, pushed.key, pushed.value)

\* testPush, at the end: no key of the past can be pushed.
PastPushReverts == \A key \in 0 .. pushed.key - 1 : ~MayInsert(key)

\* testLookup of a Trace.
TraceLookupAsserted ==
    \A l \in Lookup :
       LowerLookup(l) = lower[l] /\ UpperLookup(l) = upper[l] /\ UpperLookupRecent(l) = upper[l]

\* testLookup of a History: the past is found, the present and the future are not.
HistoryLookupAsserted ==
    /\ \A l \in Lookup : l < currentBlock =>
          GetAtBlock(l) = upper[l] /\ GetAtProbablyRecentBlock(l) = upper[l]
    /\ \A number \in {currentBlock, currentBlock + 1} :
          GetAtBlock(number) = Reverted /\ GetAtProbablyRecentBlock(number) = Reverted

-----------------------------------------------------------------------------
(* Properties. *)

\* What the binary searches rely on: keys ascend strictly, and those of a History
\* are not of the future.
KeysAscend ==
    /\ \A i, j \in 1 .. Length : i < j => checkpoints[i].key < checkpoints[j].key
    /\ flavour = "History" => \A i \in 1 .. Length : checkpoints[i].key <= currentBlock

\* Every lookup, by either search, finds what was tracked for it push by push, also
\* by the search that starts among the most recent checkpoints, however many there
\* are; a History answers for no block that is not past.
LookupsAsTracked ==
    /\ flavour = "Trace" => TraceLookupAsserted
    /\ flavour = "History" => HistoryLookupAsserted

\* However keys are pushed, in order, again, or too late, they stay in order; a key
\* that is pushed again adds no checkpoint, the last push is the latest checkpoint,
\* and no later push can rewrite what came before it.
PushesAsCounted == KeysAscend /\ PushAsserted /\ PastPushReverts

\* The past of a History is fixed: once a block has passed, no push, no delta and no
\* later block changes what is answered for it.
PastIsFixed ==
    [][flavour = "History" =>
         \A number \in 0 .. currentBlock - 1 :
            /\ GetAtBlock(number)' = GetAtBlock(number)
            /\ GetAtProbablyRecentBlock(number)' = GetAtProbablyRecentBlock(number)
      ]_ckptVars
=============================================================================
