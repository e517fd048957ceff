------------------------------ MODULE SafeCast ------------------------------
(***************************************************************************)
(* The casts of scripts/generate/templates/SafeCast.js and the conversions *)
(* to and from bytes32 of scripts/generate/templates/conversion.js, in the *)
(* vendored openzeppelin-contracts-upgradeable.                            *)
(***************************************************************************)
EXTENDS Powers

CONSTANTS
    WORD_BITS,   \* the width of a word: 256
    LENGTHS,     \* the widths of the types that are cast to: 8 to 248
    ADDRESSES,   \* 2^160, the number of addresses
    Reverted     \* what a call that reverts returns

\* The powers of two that the widths stand for.
TwoTo == [n \in 0 .. WORD_BITS |-> Power(2, n)]

WORDS == TwoTo[WORD_BITS]
Word  == 0 .. WORDS - 1

ASSUME WordAssumption ==
    /\ WORD_BITS \in Nat \ {0} /\ LENGTHS \subseteq 1 .. WORD_BITS
    /\ ADDRESSES \in Nat \ {0} /\ ADDRESSES <= WORDS
    /\ Reverted \notin Int

\* The value of the low bits of x: as an unsigned and as a signed number.
Unsigned(bits, x) == x % TwoTo[bits]
Signed(bits, x) ==
    LET u == Unsigned(bits, x)
    IN  IF u < TwoTo[bits - 1] THEN u ELSE u - TwoTo[bits]

\* The numbers of the types uint<bits> and int<bits>.
UintRange(bits) == 0 .. TwoTo[bits] - 1
IntRange(bits)  == -TwoTo[bits - 1] .. TwoTo[bits - 1] - 1

\* toUint<length>(uint256)
ToUintDownCast(length, value) ==
    IF value <= TwoTo[length] - 1 THEN Unsigned(length, value) ELSE Reverted

\* Mutant of ToIntDownCast: the bits that are lost are not looked for.
ToIntDownCastMagnitude(length, value) ==
    IF value <= TwoTo[length - 1] THEN Signed(length, value) ELSE Reverted

\* toInt<length>(int256): cast, then compare with what was cast.
ToIntDownCast(length, value) ==
    LET downcasted == Signed(length, value)
    IN  IF downcasted = value THEN downcasted ELSE Reverted

\* toInt<length>(uint<length>), toUint<length>(int<length>)
ToInt(length, value) ==
    IF value <= TwoTo[length - 1] - 1 THEN Signed(length, value) ELSE Reverted
ToUint(length, value) ==
    IF value >= 0 THEN Unsigned(length, value) ELSE Reverted

-----------------------------------------------------------------------------

DataType == {"bytes32", "uint256", "address"}
Value(type) == IF type = "address" THEN 0 .. ADDRESSES - 1 ELSE Word

\* A word is a number: only the 160 bits of an address are picked out.
toBytes32(type, value)   == IF type = "address" THEN value % ADDRESSES ELSE value
fromBytes32(type, value) == IF type = "address" THEN value % ADDRESSES ELSE value

-----------------------------------------------------------------------------

(* A cast depends on its operand alone. *)

VARIABLE operand

Operand == UintRange(WORD_BITS) \cup IntRange(WORD_BITS)

CastInit == operand = 0
CastNext == operand' \in Operand
CastSpec == CastInit /\ [][CastNext]_operand

\* A cast to fewer bits, or between signed and unsigned, returns its operand when
\* the type has it, and reverts in every other case, the smallest negative number
\* and the largest of a width included: no value is silently cut (SafeCast.js 83-155).
CastsAreExact ==
    /\ \A length \in LENGTHS :
          /\ operand \in UintRange(WORD_BITS) =>
                ToUintDownCast(length, operand)
                   = IF operand \in UintRange(length) THEN operand ELSE Reverted
          /\ operand \in IntRange(WORD_BITS) =>
                ToIntDownCast(length, operand)
                   = IF operand \in IntRange(length) THEN operand ELSE Reverted
    /\ operand \in UintRange(WORD_BITS) =>
          ToInt(WORD_BITS, operand)
             = IF operand \in IntRange(WORD_BITS) THEN operand ELSE Reverted
    /\ operand \in IntRange(WORD_BITS) =>
          ToUint(WORD_BITS, operand)
             = IF operand \in UintRange(WORD_BITS) THEN operand ELSE Reverted
=============================================================================
