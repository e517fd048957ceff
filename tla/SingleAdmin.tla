----------------------------- MODULE SingleAdmin -----------------------------
(***************************************************************************)
(* What SingleAdminAccessControl promises of the admin role, without the   *)
(* bookkeeping: the role has one holder at every moment; the holder may    *)
(* name a nominee or withdraw the nomination; only a nominee becomes the   *)
(* holder, and a nomination is used at most once.                          *)
(***************************************************************************)
CONSTANTS Address, Zero

VARIABLES
    holders,   \* the accounts that hold the admin role
    nominee    \* the account that may take it over, Zero when there is none

vars == <<holders, nominee>>

Init ==
    /\ \E a \in Address \ {Zero} : holders = {a}
    /\ nominee = Zero

\* Naming Zero withdraws the nomination.
Nominate ==
    /\ nominee' \in Address \ holders
    /\ UNCHANGED holders

TakeOver ==
    /\ nominee # Zero
    /\ holders' = {nominee}
    /\ nominee' = Zero

Next == Nominate \/ TakeOver

Spec == Init /\ [][Next]_vars
=============================================================================
