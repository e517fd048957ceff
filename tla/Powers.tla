------------------------------- MODULE Powers -------------------------------
(* Powers of naturals, by a recursive function: the provers know nothing   *)
(* of the operator ^.                                                      *)
EXTENDS Integers

Power(base, n) ==
    LET power[k \in 0 .. n] == IF k = 0 THEN 1 ELSE base * power[k - 1]
    IN  power[n]
=============================================================================
