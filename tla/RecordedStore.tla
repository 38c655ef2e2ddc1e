---------------------------- MODULE RecordedStore ----------------------------
(***************************************************************************)
(* Histories for the checker to look at: those of a store with KilnDB's    *)
(* timestamps, recorded as test/test_phase6.py records the engine's, with  *)
(* one crash.  The store is right except where a flaw says otherwise:      *)
(*                                                                         *)
(*   misread    a get returned a value that is not the snapshot's;         *)
(*   conflict   a commit went over one that its transaction had not seen;  *)
(*   lost       a recovery did not bring back a committed write;           *)
(*   ghost      a recovery brought back a write that was not committed.    *)
(*                                                                         *)
(* A commit whose caller did not hear of it may survive a crash: that is   *)
(* no flaw (Concept.md: "recovery may still show the commit").             *)
(***************************************************************************)
EXTENDS Checker

CONSTANTS
    MaxEvents,  \* bound: events in one history
    MaxReads,   \* bound: gets in one history
    MaxFlaws    \* bound: flaws in one history

ASSUME RecordedStoreAssumption == {MaxEvents, MaxReads, MaxFlaws} \subseteq Nat

VARIABLES
    history,
    \* the transactions, as in Engine
    state, start_ts, write_set,
    \* what is committed, in order, heard of or not; Engine.next_ts
    commits, next_ts,
    \* the keys whose recovered value is still to be recorded
    unlisted,
    \* the flaws so far; the transactions whose commit nobody heard of
    flaws, unheard

vars == <<history, state, start_ts, write_set, commits, next_ts, unlisted,
          flaws, unheard>>

Note(e) == Len(history) < MaxEvents /\ history' = Append(history, e)

\* The commits that wrote k with a timestamp up to ts, and what they left.
Versions(k, ts) ==
    {i \in 1 .. Len(commits) :
        commits[i].ts <= ts /\ write_set[commits[i].txn][k] # "none"}

ResultOf(t, k) == IF write_set[t][k] = "put" THEN t ELSE None

Value(k, ts) ==
    IF Versions(k, ts) = {} THEN None
    ELSE ResultOf(commits[Max(Versions(k, ts))].txn, k)

\* What a get of k is to return to t.
Answer(t, k) ==
    IF write_set[t][k] # "none" THEN ResultOf(t, k) ELSE Value(k, start_ts[t])

\* Values of k that somebody wrote, or none.
Rumoured(k) == {t \in Txn : write_set[t][k] = "put"} \cup {None}

IsCommitted(t) == \E i \in 1 .. Len(commits) : commits[i].txn = t

Conflicts(t) ==
    \E k \in Key : /\ write_set[t][k] # "none"
                   /\ \E i \in 1 .. Len(commits) :
                         /\ commits[i].ts > start_ts[t]
                         /\ write_set[commits[i].txn][k] # "none"

Recovering == unlisted # {}

HasFlaw(kind) ==
    /\ Cardinality(flaws) < MaxFlaws
    /\ flaws' = flaws \cup {kind}

Init ==
    /\ history = << >>
    /\ state = [t \in Txn |-> "UNBORN"]
    /\ start_ts = [t \in Txn |-> 0]
    /\ write_set = [t \in Txn |-> [k \in Key |-> "none"]]
    /\ commits = << >> /\ next_ts = 1
    /\ unlisted = {}
    /\ flaws = {} /\ unheard = {}

-----------------------------------------------------------------------------
BeginTxn(t) ==
    /\ ~ Recovering
    /\ state[t] = "UNBORN"
    /\ state' = [state EXCEPT ![t] = "ACTIVE"]
    /\ start_ts' = [start_ts EXCEPT ![t] = next_ts - 1]
    /\ Note(Begin(t, next_ts - 1))
    /\ UNCHANGED <<write_set, commits, next_ts, unlisted, flaws, unheard>>

MayRead(t) ==
    /\ state[t] = "ACTIVE"
    /\ Cardinality(Places(history, "Read")) < MaxReads

Get(t, k) ==
    /\ MayRead(t)
    /\ Note(Read(t, k, Answer(t, k)))
    /\ UNCHANGED <<state, start_ts, write_set, commits, next_ts, unlisted,
                   flaws, unheard>>

Misread(t, k) ==
    /\ MayRead(t)
    /\ \E v \in Rumoured(k) \ {Answer(t, k)} : Note(Read(t, k, v))
    /\ HasFlaw("misread")
    /\ UNCHANGED <<state, start_ts, write_set, commits, next_ts, unlisted,
                   unheard>>

\* A put, or a delete.
Change(t, k, op) ==
    /\ state[t] = "ACTIVE"
    /\ write_set[t][k] = "none"
    /\ write_set' = [write_set EXCEPT ![t][k] = op]
    /\ Note(Write(t, k, IF op = "put" THEN t ELSE None))
    /\ UNCHANGED <<state, start_ts, commits, next_ts, unlisted, flaws,
                   unheard>>

HasWritten(t) == \E k \in Key : write_set[t][k] # "none"

(***************************************************************************)
(* A read-only commit gets no timestamp and leaves next_ts alone.  Nobody  *)
(* records one (the checker sorts commits by timestamp), so it is no event *)
(* here: its transaction just does nothing more.                           *)
(***************************************************************************)
CommitTxn(t) ==
    /\ state[t] = "ACTIVE" /\ HasWritten(t)
    /\ \/ ~ Conflicts(t) /\ flaws' = flaws
       \/ Conflicts(t) /\ HasFlaw("conflict")
    /\ state' = [state EXCEPT ![t] = "COMMITTED"]
    /\ commits' = Append(commits, [txn |-> t, ts |-> next_ts])
    /\ next_ts' = next_ts + 1
    /\ Note(Commit(t, next_ts))
    /\ UNCHANGED <<start_ts, write_set, unlisted, unheard>>

\* Its caller's wish, or a conflict.  What it wrote stays in the history.
AbortTxn(t) ==
    /\ state[t] = "ACTIVE"
    /\ state' = [state EXCEPT ![t] = "ABORTED"]
    /\ Note(Abort(t))
    /\ UNCHANGED <<start_ts, write_set, commits, next_ts, unlisted, flaws,
                   unheard>>

\* The process ends, perhaps between a commit and its acknowledgement.
ProcessCrash ==
    /\ ~ Crashed(history)
    /\ state' = [t \in Txn |-> IF state[t] = "ACTIVE" THEN "LOST"
                                                      ELSE state[t]]
    /\ \/ UNCHANGED <<commits, next_ts, unheard>>
       \/ \E t \in Txn :
             /\ state[t] = "ACTIVE" /\ ~ Conflicts(t)
             /\ HasWritten(t)
             /\ commits' = Append(commits, [txn |-> t, ts |-> next_ts])
             /\ next_ts' = next_ts + 1
             /\ unheard' = {t}
    /\ unlisted' = Key
    /\ Note(Crash)
    /\ UNCHANGED <<start_ts, write_set, flaws>>

\* Each key is read once after the restart.
Recover(k) ==
    /\ k \in unlisted
    /\ unlisted' = unlisted \ {k}
    /\ LET right == Value(k, next_ts)
       IN  \/ Note(Recovered(k, right)) /\ flaws' = flaws
           \/ \E v \in Rumoured(k) \ {right} :
                 /\ Note(Recovered(k, v))
                 /\ HasFlaw(IF v = None \/ IsCommitted(v) THEN "lost"
                                                          ELSE "ghost")
    /\ UNCHANGED <<state, start_ts, write_set, commits, next_ts, unheard>>

Next ==
    \/ \E t \in Txn : BeginTxn(t) \/ CommitTxn(t) \/ AbortTxn(t)
    \/ \E t \in Txn, k \in Key :
          Get(t, k) \/ Misread(t, k) \/ Change(t, k, "put") \/ Change(t, k, "del")
    \/ ProcessCrash
    \/ \E k \in Key : Recover(k)

Spec == Init /\ [][Next]_vars
=============================================================================
