------------------------ MODULE ExperimentsProperties ------------------------
(***************************************************************************)
(* What the crash tab and the chaos loop show is what the engine does, as  *)
(* long as nobody else is at work in the same directory.                   *)
(***************************************************************************)
EXTENDS Experiments

\* The transaction that verifies finds what the worker wrote.
WorkerServed(s) ==
    LET c == Found(s, WorkerKey(fault[s]))
    IN  c = [by |-> s, phase |-> "worker"]

(***************************************************************************)
(* The table of app.py is right, for an experiment that has the directory  *)
(* to itself: what the worker was committing when it died is served by the *)
(* next engine exactly at the fault points for which the table says so     *)
(* ("expect_survive").                                                     *)
(***************************************************************************)
SurvivesAsTold ==
    \A s \in Session : phase[s] = "verify" /\ stage[s] = "idle" /\ ~ met[s] =>
        WorkerServed(s) <=> ExpectSurvive(fault[s])

(***************************************************************************)
(* An experiment that has the directory to itself fails only by its own    *)
(* doing: the key entered is the worker's, whose commit survives, or the   *)
(* value entered is empty.                                                 *)
(***************************************************************************)
VerdictIsDeserved ==
    \A s \in Session : phase[s] = "done" /\ ~ met[s] =>
        (verdict[s] = "PASS") <=>
            /\ value[s] # ""
            /\ WorkerKey(fault[s]) \in baseline[s] => ~ ExpectSurvive(fault[s])

\* The chaos loop leaves no directory behind, however its runs end and whoever
\* else is at work in their directory.
ChaosCleansUp ==
    kind = "chaos" /\ (\A s \in Session : phase[s] \in {"start", "done"})
        => live = 0
=============================================================================
