----------------------------- MODULE Experiments -----------------------------
(***************************************************************************)
(* The crash tab and the chaos loop of the web page (app.py), with the     *)
(* process they start (crash_worker.py).  An experiment commits a          *)
(* baseline, has a worker die at a fault point inside another commit, and  *)
(* looks whether the baseline is still served.  Its directory is named by  *)
(* the second it starts in, so two users may get the same one: the         *)
(* sessions of SharedDir are the experiments that did.                     *)
(*                                                                         *)
(* The definitions no action uses (AfterNothing, MatchesIfFound) are       *)
(* faulty variants of the definition that follows them: see README.md.     *)
(***************************************************************************)
EXTENDS SharedDir

CONSTANTS
    CrashKey, CheckpointKey,    \* the keys crash_worker.py writes
    ChaosKeys,                  \* key0, key1, ...
    Inputs,     \* what the users may enter in the crash tab: functions to
                \* pairs of a key and a value
    Faults      \* bound: the fault points each of them, or chance, picks from

FAULT_POINTS ==
    {"before_wal_append", "during_wal_append", "after_wal_sync_before_ack",
     "after_ack_before_heap", "during_heap_page_write"}

\* "expect_survive" in the table of app.py
ExpectSurvive(f) == f \notin {"before_wal_append", "during_wal_append"}

ASSUME ExperimentsAssumption ==
    /\ {CrashKey, CheckpointKey} \cup ChaosKeys \subseteq Key
    /\ Inputs \subseteq [Session -> Key \X {"", "val"}]
    /\ Faults \in [Session -> SUBSET FAULT_POINTS]
    /\ None \notin [by : Session, phase : {"baseline", "worker"}]

VARIABLES
    kind,       \* "crash" or "chaos": the directories have different names
    baseline,   \* the keys an experiment commits
    value,      \* and the value they get; the user may leave it empty
    pending,    \* the keys that are still to be committed, by it or its worker
    phase, fault, verdict,
    \* history: has another experiment been at work in the directory since
    \* this one started, or had two of them been there together before?
    met

runVars == <<kind, baseline, value, pending, phase, fault, verdict, met>>
allVars == <<vars, runVars>>

ExperimentsInit ==
    /\ Init
    /\ kind \in {"crash", "chaos"}
    /\ IF kind = "chaos"
       THEN /\ baseline = [s \in Session |-> ChaosKeys]
            /\ value = [s \in Session |-> "val"]
       ELSE \E input \in Inputs :
            /\ baseline = [s \in Session |-> {input[s][1]}]
            /\ value = [s \in Session |-> input[s][2]]
    /\ pending = baseline
    /\ phase = [s \in Session |-> "start"]
    /\ fault = [s \in Session |-> "none"]
    /\ verdict = [s \in Session |-> "none"]
    /\ met = [s \in Session |-> FALSE]

AtWork(s) == phase[s] \in {"baseline", "worker", "verify", "cleanup"}

UsesEngine(s) == phase[s] \in {"baseline", "worker", "verify"}

\* The first Engine() of an experiment
Start(s) ==
    LET others == {r \in Session \ {s} : AtWork(r)}
    IN  /\ phase[s] = "start"
        /\ phase' = [phase EXCEPT ![s] = "baseline"]
        /\ met' = [r \in Session |->
              \/ met[r] \/ r \in others
              \/ r = s /\ (others # {} \/ \E q \in Session : met[q])]
        /\ Open(s)
        /\ UNCHANGED <<kind, baseline, value, pending, fault, verdict>>

OpenEngine(s) ==
    /\ UsesEngine(s)
    /\ Open(s) \/ Truncate(s) \/ Pass1(s) \/ Recover(s)
    /\ UNCHANGED runVars

\* The key crash_worker.py writes: its "checkpoint" action commits one of its
\* own before it calls checkpoint().
WorkerKey(f) ==
    IF f = "during_heap_page_write" THEN CheckpointKey ELSE CrashKey

\* begin() and put(): nobody else sees what they do.
TxnWith(s, k) == [BegunTxn(s) EXCEPT !.write_set[k] = "put"]

\* The baseline and the worker's commit: a transaction for each key.
Commit(s) ==
    /\ UsesEngine(s)
    /\ \E k \in pending[s] :
          CommitStart(s, TxnWith(s, k), [by |-> s, phase |-> phase[s]])
    /\ UNCHANGED runVars

-----------------------------------------------------------------------------
\* faults.check, and the branch of WAL.append that writes a part

DiesBeforeAppend(s) ==
    /\ phase[s] = "worker"
    /\ fault[s] \in {"before_wal_append", "during_wal_append"}

DiesAfterSync(s) ==
    phase[s] = "worker" /\ fault[s] = "after_wal_sync_before_ack"

AppendRecords(s) ==
    /\ ~ DiesBeforeAppend(s)
    /\ (\E k \in Key : AppendRedo(s, k)) \/ AppendCommit(s)
    /\ UNCHANGED runVars

FinishCommit(s) ==
    /\ ~ DiesAfterSync(s)
    /\ Ack(s)
    /\ pending' = [pending EXCEPT ![s] = @ \ Written(txn_of[s])]
    /\ UNCHANGED <<kind, baseline, value, phase, fault, verdict, met>>

Half(n) == Max({1, n \div 2})

(***************************************************************************)
(* The worker ends at its fault point, or after its commit: behind the     *)
(* last fault point of commit(), or because checkpoint(), which has no     *)
(* dirty page to write, returned.                                          *)
(***************************************************************************)
WorkerEnds(s) ==
    /\ phase[s] = "worker"
    /\ \/ stage[s] = "redo" /\ DiesBeforeAppend(s)
       \/ stage[s] = "sync" /\ DiesAfterSync(s)
       \/ stage[s] = "idle" /\ pending[s] = {}
    /\ pending' = [pending EXCEPT ![s] = {}]
    /\ IF stage[s] = "redo" /\ fault[s] = "during_wal_append"
       THEN \E n \in Sizes :
            logs' = [logs EXCEPT ![engine[s].file] =
                        Append(@, Damage("torn", Half(n), None))]
       ELSE UNCHANGED logs
    /\ Forget(s)
    /\ phase' = [phase EXCEPT ![s] = "verify"]
    /\ UNCHANGED <<live, kind, baseline, value, fault, verdict, met>>

-----------------------------------------------------------------------------
\* The phases of an experiment

\* The baseline is committed and its engine closed; then the fault is chosen.
CloseBaseline(s) ==
    /\ phase[s] = "baseline"
    /\ stage[s] = "idle" /\ pending[s] = {}
    /\ Forget(s)
    /\ phase' = [phase EXCEPT ![s] = "worker"]
    /\ \E f \in Faults[s] : fault' = [fault EXCEPT ![s] = f]
    /\ pending' = [pending EXCEPT ![s] = {WorkerKey(fault'[s])}]
    /\ UNCHANGED <<logs, live, kind, baseline, value, verdict, met>>

AfterNothing == "done"

\* Only the chaos loop removes its directory.
After == IF kind = "chaos" THEN "cleanup" ELSE "done"

Refused(s) ==
    /\ stage[s] = "idle"
    /\ \E k \in pending[s] : Conflicts(s, TxnWith(s, k))

(***************************************************************************)
(* Engine() or commit() raises.  The worker swallows it or dies of it; for *)
(* the experiment it is an error.                                          *)
(***************************************************************************)
Raises(s) ==
    /\ UsesEngine(s)
    /\ \/ RecoverRaises(s)
       \/ Refused(s)
    /\ Forget(s)
    /\ pending' = [pending EXCEPT ![s] = {}]
    /\ IF phase[s] = "worker"
       THEN /\ phase' = [phase EXCEPT ![s] = "verify"]
            /\ UNCHANGED verdict
       ELSE /\ phase' = [phase EXCEPT ![s] = After]
            /\ verdict' = [verdict EXCEPT ![s] = "ERROR"]
    /\ UNCHANGED <<logs, live, kind, baseline, value, fault, met>>

\* The commit whose value the verifying transaction reads, or None.
Found(s, k) == Read(s, k, Snapshot(s))

ValueOf(w) == IF w.phase = "worker" THEN "worker's" ELSE value[w.by]

MatchesIfFound(s, k) == Found(s, k) # None

\* The crash tab takes an empty value for a missing one.
Matches(s, k) ==
    /\ Found(s, k) # None
    /\ ValueOf(Found(s, k)) = value[s]
    /\ value[s] # ""

Verify(s) ==
    /\ phase[s] = "verify"
    /\ stage[s] = "idle"
    /\ verdict' = [verdict EXCEPT ![s] =
          IF \A k \in baseline[s] : Matches(s, k) THEN "PASS" ELSE "FAIL"]
    /\ Forget(s)
    /\ phase' = [phase EXCEPT ![s] = After]
    /\ UNCHANGED <<logs, live, kind, baseline, value, pending, fault,
                   met>>

\* rmtree at the end of a chaos run
Cleanup(s) ==
    /\ phase[s] = "cleanup"
    /\ RemoveDir
    /\ phase' = [phase EXCEPT ![s] = "done"]
    /\ UNCHANGED <<stage, engine, txn_of, kind, baseline, value, pending, fault,
                   verdict, met>>

Step(s) ==
    \/ OpenEngine(s) \/ Commit(s) \/ AppendRecords(s) \/ FinishCommit(s)
    \/ WorkerEnds(s) \/ CloseBaseline(s) \/ Raises(s) \/ Verify(s)
    \/ Cleanup(s)

ExperimentsNext == \E s \in Session : Start(s) \/ Step(s)

ExperimentsSpec == ExperimentsInit /\ [][ExperimentsNext]_allVars
=============================================================================
