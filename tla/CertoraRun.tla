----------------------------- MODULE CertoraRun -----------------------------
(***************************************************************************)
(* certora/run.js of the vendored library: the script that verifies the    *)
(* requested specs, a few child processes at a time, writes a row of a     *)
(* markdown table for each, and tells continuous integration by its exit   *)
(* code whether all went well.                                             *)
(*                                                                         *)
(* p-limit, child processes and streams are external: a step is the part   *)
(* of the script between two awaits, or something a child process does.    *)
(***************************************************************************)
EXTENDS Naturals, Sequences, FiniteSets

CONSTANTS
    Specs,          \* specs.json: a sequence of records with a spec and a contract
    RequestInput,   \* sets of requests, each a sequence: <<spec>> or <<contract, spec>>
    Parallel        \* argv.parallel

ASSUME PoolAssumption ==
    /\ Parallel \in Nat \ {0}
    /\ Specs \in Seq([spec : STRING, contract : STRING])
    /\ \A requests \in RequestInput : \A r \in requests : Len(r) \in {1, 2}

Job == 1 .. Len(Specs)

VARIABLES
    argv,           \* the requests, and whether --all is given
    process,        \* "starting", "running" or "ended"
    exitCode,       \* process.exitCode
    queue,          \* the jobs that wait for p-limit, the least of them first
    stage,          \* how far runCertora is with each job
    code,           \* how the child process of each job ended
    output,         \* where the output of each child is: in its pipe, or in the stream
    hasHeader,
    table           \* what was written to the standard output

poolVars == <<argv, process, exitCode, queue, stage, code, output, hasHeader, table>>

-----------------------------------------------------------------------------
(* The requests *)

\* A request names a spec, or a contract and a spec.
match(entry, request) ==
    LET last == Len(request) IN
    /\ entry.spec = request[last]
    /\ last > 1 => entry.contract = request[last - 1]

Selected == {j \in Job : argv.all \/ \E r \in argv.requests : match(Specs[j], r)}

Unmatched == {r \in argv.requests : \A j \in Selected : ~match(Specs[j], r)}

\* A request that names nothing ends the script before any job starts.
Refuse ==
    /\ process = "starting" /\ Unmatched # {}
    /\ exitCode' = 1 /\ process' = "ended"
    /\ UNCHANGED <<argv, queue, stage, code, output, hasHeader, table>>

\* The jobs enter the queue in the order of specs.json.
Submit ==
    /\ process = "starting" /\ Unmatched = {}
    /\ queue' = Selected /\ process' = "running"
    /\ UNCHANGED <<argv, exitCode, stage, code, output, hasHeader, table>>

-----------------------------------------------------------------------------
(* One job: runCertora *)

\* Those that p-limit counts.
Active == {j \in Job : stage[j] \in {"spawned", "exited", "closing"}}

Spawn ==
    /\ process = "running" /\ Cardinality(Active) < Parallel
    /\ \E j \in queue :
          /\ \A k \in queue : j <= k
          /\ stage' = [stage EXCEPT ![j] = "spawned"]
          /\ queue' = queue \ {j}
    /\ UNCHANGED <<argv, process, exitCode, code, output, hasHeader, table>>

\* certoraRun cannot be started: the await on the child rejects, nobody handles
\* that, and the script dies of it.
SpawnFails(j) ==
    /\ process = "running" /\ stage[j] = "spawned" /\ output[j] = "none"
    /\ exitCode' = 1 /\ process' = "ended"
    /\ UNCHANGED <<argv, queue, stage, code, output, hasHeader, table>>

\* The child prints its report, and the link to it, into the pipe.
ChildPrints(j) ==
    /\ process = "running" /\ stage[j] = "spawned" /\ output[j] = "none"
    /\ output' = [output EXCEPT ![j] = "piped"]
    /\ UNCHANGED <<argv, process, exitCode, queue, stage, code, hasHeader, table>>

\* The stream takes what is in the pipe, as long as nobody has ended the stream.
Collect(j) ==
    /\ process = "running" /\ stage[j] \in {"spawned", "exited"} /\ output[j] = "piped"
    /\ output' = [output EXCEPT ![j] = "collected"]
    /\ UNCHANGED <<argv, process, exitCode, queue, stage, code, hasHeader, table>>

\* The child ends, with code 0, or with another code or by a signal.
ChildExits(j) ==
    /\ process = "running" /\ stage[j] = "spawned"
    /\ stage' = [stage EXCEPT ![j] = "exited"]
    /\ \E c \in {0, 1} : code' = [code EXCEPT ![j] = c]
    /\ UNCHANGED <<argv, process, exitCode, queue, output, hasHeader, table>>

\* Mutant of OnExit: each job sets the exit code.
OnExitLastWins(j) ==
    /\ process = "running" /\ stage[j] = "exited"
    /\ exitCode' = code[j]
    /\ stage' = [stage EXCEPT ![j] = "closing"]
    /\ UNCHANGED <<argv, process, queue, code, output, hasHeader, table>>

\* The script hears of the end and ends the stream. Output that is still in the
\* pipe is lost.
OnExit(j) ==
    /\ process = "running" /\ stage[j] = "exited"
    /\ exitCode' = IF code[j] # 0 THEN 1 ELSE exitCode
    /\ stage' = [stage EXCEPT ![j] = "closing"]
    /\ UNCHANGED <<argv, process, queue, code, output, hasHeader, table>>

-----------------------------------------------------------------------------
(* The table *)

Header == [entry |-> 0, success |-> TRUE, url |-> "output"]

Row(j) == [entry |-> j, success |-> code[j] = 0,
           url |-> IF output[j] = "collected" THEN "link" ELSE "error"]

\* Mutant of writeEntry: it waits for a link in the output.
writeEntryWithLink(j) ==
    /\ process = "running" /\ stage[j] = "closing" /\ output[j] = "collected"
    /\ hasHeader' = TRUE
    /\ table' = table \o (IF hasHeader THEN <<>> ELSE <<Header>>) \o <<Row(j)>>
    /\ stage' = [stage EXCEPT ![j] = "done"]
    /\ UNCHANGED <<argv, process, exitCode, queue, code, output>>

\* Once the output is complete, its row is written, the header before the first.
writeEntry(j) ==
    /\ process = "running" /\ stage[j] = "closing"
    /\ hasHeader' = TRUE
    /\ table' = table \o (IF hasHeader THEN <<>> ELSE <<Header>>) \o <<Row(j)>>
    /\ stage' = [stage EXCEPT ![j] = "done"]
    /\ UNCHANGED <<argv, process, exitCode, queue, code, output>>

\* Nothing is left to wait for.
End ==
    /\ process = "running" /\ queue = {} /\ Active = {}
    /\ process' = "ended"
    /\ UNCHANGED <<argv, exitCode, queue, stage, code, output, hasHeader, table>>

-----------------------------------------------------------------------------
PoolInit ==
    /\ argv \in [requests : RequestInput, all : BOOLEAN]
    /\ process = "starting" /\ exitCode = 0 /\ queue = {}
    /\ stage = [j \in Job |-> "idle"]
    /\ code = [j \in Job |-> 0]
    /\ output = [j \in Job |-> "none"]
    /\ hasHeader = FALSE /\ table = <<>>

\* What the script and its children do unless something goes wrong for good.
Progress ==
    \/ Refuse \/ Submit \/ Spawn \/ End
    \/ \E j \in Job : Collect(j) \/ ChildExits(j) \/ OnExit(j) \/ writeEntry(j)

PoolNext == Progress \/ \E j \in Job : ChildPrints(j) \/ SpawnFails(j)

\* The event loop goes on, and every child ends some day.
PoolSpec == PoolInit /\ [][PoolNext]_poolVars /\ WF_poolVars(Progress)

-----------------------------------------------------------------------------
(* Properties *)

\* The lines of the table below headers.
Rows == {i \in DOMAIN table : table[i] # Header}

\* The script ends with exit code 0 exactly if every spec that was asked for exists,
\* and the table is one header and one row of success for each of them, in any
\* order: whatever order the children print, end and are heard of in, and whichever
\* of them cannot be started (certora/run.js 50-63, 91-107).
ExitCodeTells ==
    process = "ended" =>
        (exitCode = 0 <=>
            /\ \A r \in argv.requests : \E j \in Job : match(Specs[j], r)
            /\ table # <<>> => table[1] = Header /\ Rows = 2 .. Len(table)
            /\ Cardinality(Rows) = Cardinality(Selected)
            /\ \A j \in Selected : \E i \in Rows : table[i].entry = j /\ table[i].success)

\* Every job that entered the queue gets its row in the end, unless the script dies
\* (certora/run.js 61-63, 92, 104).
EveryJobIsReported ==
    \A j \in Job :
        j \in queue
            ~> \/ \E i \in Rows : table[i].entry = j
               \/ process = "ended" /\ exitCode = 1
=============================================================================
