----------------------------- MODULE MCVendored -----------------------------
(***************************************************************************)
(* What the vendored library generates and runs, on small instances: each  *)
(* behaviour exercises one subject: the casts, the set, the map, the       *)
(* checkpoints or the script that runs the prover.                         *)
(***************************************************************************)
EXTENDS EnumerableMap, Checkpoints, CertoraRun

\* One spec for two contracts, and one for one.
MCSpecs == <<[spec |-> "AccessControl", contract |-> "Harness"],
             [spec |-> "AccessControl", contract |-> "Rules"],
             [spec |-> "EnumerableSet", contract |-> "Harness"]>>

\* Nothing, a spec of two contracts, two named jobs, an unknown spec beside a known
\* one, a contract that lacks the spec.
MCRequests == {{}, {<<"AccessControl">>},
               {<<"Rules", "AccessControl">>, <<"Harness", "EnumerableSet">>},
               {<<"EnumerableSet">>, <<"ERC20">>},
               {<<"Rules", "EnumerableSet">>}}

VARIABLE subject

MCVars == <<operand, mapVars, ckptVars, poolVars, subject>>

MCInit ==
    /\ CastInit /\ MapInit /\ CkptInit
    /\ subject \in {"casts", "set", "map", "checkpoints", "script"}
    /\ PoolInit /\ (subject # "script" => argv = [requests |-> {}, all |-> FALSE])

MCNext ==
    /\ UNCHANGED subject
    /\ \/ subject = "casts" /\ CastNext /\ UNCHANGED <<mapVars, ckptVars, poolVars>>
       \/ subject = "set" /\ SetNext /\ UNCHANGED <<operand, mapValues, ckptVars, poolVars>>
       \/ subject = "map" /\ MapNext /\ UNCHANGED <<operand, ckptVars, poolVars>>
       \/ subject = "checkpoints" /\ CkptNext /\ UNCHANGED <<operand, mapVars, poolVars>>
       \/ subject = "script" /\ PoolNext /\ UNCHANGED <<operand, mapVars, ckptVars>>

ScriptProgress ==
    /\ subject = "script" /\ Progress
    /\ UNCHANGED <<operand, mapVars, ckptVars, subject>>

MCSpec == MCInit /\ [][MCNext]_MCVars /\ WF_MCVars(ScriptProgress)
=============================================================================
