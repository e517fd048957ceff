-------------------------- MODULE Accounts --------------------------
(* The accounts every contract of the protocol shares, and what they  *)
(* write for an allowance without a bound.                            *)
EXTENDS Naturals

CONSTANTS
    Address,     \* every address of the model, contracts included
    Caller,      \* the addresses that send transactions
    Zero,        \* address(0), from which no transaction comes
    MAX_UINT     \* type(uint256).max, the allowance that is not used up

ASSUME AccountsAssumption ==
    /\ Zero \in Address \ Caller
    /\ Caller \subseteq Address
    /\ MAX_UINT \in Nat
==========================================================
