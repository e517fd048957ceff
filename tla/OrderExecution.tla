--------------------------- MODULE OrderExecution ---------------------------
(***************************************************************************)
(* What the minting contract promises of signed orders, without signatures *)
(* and bitmaps: an order is named by its benefactor and nonce; it executes *)
(* at most once, and an execution either issues or retires avUSD.  While   *)
(* the contract is the only issuer, the supply only falls between          *)
(* executions, when holders burn; while it is none, no execution issues.   *)
(***************************************************************************)
EXTENDS Naturals

CONSTANTS OrderId

VARIABLES
    executed,   \* the orders that were executed
    supply,     \* avUSD in existence
    soleIssuer  \* whether it is the contract that issues avUSD

vars == <<executed, supply, soleIssuer>>

Init == executed = {} /\ supply = 0 /\ soleIssuer = FALSE

Execute(id) ==
    /\ id \notin executed
    /\ executed' = executed \cup {id}
    /\ supply' \in Nat \ {supply}
    /\ supply' > supply => soleIssuer
    /\ UNCHANGED soleIssuer

\* Holders burn, the issuer changes, and somebody else issues when it is not the
\* contract that may.
Elsewhere ==
    /\ supply' \in Nat
    /\ supply' > supply => ~soleIssuer
    /\ soleIssuer' \in BOOLEAN
    /\ UNCHANGED executed

Next == (\E id \in OrderId : Execute(id)) \/ Elsewhere

Spec == Init /\ [][Next]_vars
=============================================================================
