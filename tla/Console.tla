------------------------------ MODULE Console ------------------------------
(***************************************************************************)
(* The console of the web page (app.py).  Every page that is loaded is a   *)
(* session with an Engine of its own, which its sidebar opens as it is     *)
(* drawn; all of them use the same directory, and a reset removes it.      *)
(* Crashes are the subject of Engine: here a session only ends when its    *)
(* page is closed, which closes no engine.                                 *)
(***************************************************************************)
EXTENDS SharedDir

CONSTANTS
    Ops,        \* the commands that write: "put", "del"
    MaxBegins,  \* bound: transactions of one engine, begun or recovered
    MaxCommits, \* bound: commits that get as far as the log
    MaxOpens    \* bound: engines opened

ASSUME ConsoleAssumption ==
    /\ Ops \subseteq {"put", "del"}
    /\ {MaxBegins, MaxCommits, MaxOpens} \subseteq Nat
    /\ None \notin Nat

VARIABLES
    \* history: the commits that got as far as the log; those answered OK, in
    \* that order, by whatever engine and by the one of each session; those
    \* that resets wiped, by now and when a session's engine was opened; did
    \* two sessions ever have an engine at the same time?
    commits, acked, own, wiped, wiped_before, shared,
    opens

history == <<commits, acked, own, wiped, wiped_before, shared, opens>>
allVars == <<vars, history>>

ConsoleInit ==
    /\ Init
    /\ commits = << >> /\ acked = << >> /\ own = [s \in Session |-> << >>]
    /\ wiped = {} /\ wiped_before = [s \in Session |-> {}]
    /\ shared = FALSE /\ opens = 0

NotAlone(s) == \E r \in Session \ {s} : HasEngine(r)

\* get_engine
GetEngine(s) ==
    /\ opens < MaxOpens
    /\ Open(s)
    /\ opens' = opens + 1
    /\ own' = [own EXCEPT ![s] = << >>]
    /\ wiped_before' = [wiped_before EXCEPT ![s] = wiped]
    /\ shared' = (shared \/ NotAlone(s))
    /\ UNCHANGED <<commits, acked, wiped>>

\* exec_console_cmd.  What it refuses changes nothing, nor does GET.
Command(s) ==
    /\ \/ Begin(s) /\ engine[s].next_txn_id <= MaxBegins
       \/ \E k \in Key, op \in Ops : Write(s, k, op)
       \/ Abort(s) \/ CommitReadOnly(s) \/ CommitConflict(s)
    /\ UNCHANGED history

Commit(s) ==
    /\ Len(commits) < MaxCommits
    /\ CommitStart(s, txn_of[s], Len(commits) + 1)
    /\ commits' = Append(commits, [file      |-> engine[s].file,
                                   write_set |-> txn_of[s].write_set])
    /\ UNCHANGED <<acked, own, wiped, wiped_before, shared, opens>>

AnswerOK(s) ==
    /\ Ack(s)
    /\ acked' = Append(acked, txn_of[s].writer)
    /\ own' = [own EXCEPT ![s] = Append(@, txn_of[s].writer)]
    /\ UNCHANGED <<commits, wiped, wiped_before, shared, opens>>

\* What the engine of a session does by itself.
EngineStep(s) ==
    /\ \/ Truncate(s) \/ Pass1(s) \/ Recover(s)
       \/ (\E k \in Key : AppendRedo(s, k)) \/ AppendCommit(s)
    /\ UNCHANGED history

-----------------------------------------------------------------------------
\* The button, and the page itself

ResetKeepsFiles(s) ==
    /\ stage[s] = "idle"
    /\ Forget(s)
    /\ wiped' = Range(acked)
    /\ shared' = (shared \/ NotAlone(s))
    /\ UNCHANGED <<logs, live, commits, acked, own, wiped_before, opens>>

(***************************************************************************)
(* reset_engine, whose button is drawn once the session has an engine: it  *)
(* is closed and the directory removed, under the engines of the others.   *)
(* It ends with get_engine.                                                *)
(***************************************************************************)
Reset(s) ==
    /\ stage[s] = "idle"
    /\ Forget(s)
    /\ RemoveDir
    /\ wiped' = Range(acked)
    /\ shared' = (shared \/ NotAlone(s))
    /\ UNCHANGED <<commits, acked, own, wiped_before, opens>>

\* The page is closed or loaded again: nobody sends commands to its engine
\* any more, and nothing closes it.  (So it is where get_engine raised.)
Leave(s) ==
    /\ stage[s] = "idle" \/ RecoverRaises(s)
    /\ Forget(s)
    /\ UNCHANGED <<logs, live, history>>

Next ==
    \E s \in Session :
        \/ GetEngine(s) \/ Command(s) \/ Commit(s) \/ EngineStep(s)
        \/ AnswerOK(s) \/ Reset(s) \/ Leave(s)

Spec == ConsoleInit /\ [][Next]_allVars
=============================================================================
