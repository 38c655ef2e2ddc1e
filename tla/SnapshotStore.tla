---------------------------- MODULE SnapshotStore ----------------------------
(***************************************************************************)
(* What KilnDB promises its callers, without a log, a catalog, timestamps  *)
(* or a recovery: one sequence of commits that only grows, whatever        *)
(* crashes.  A transaction reads from the commits there were when it       *)
(* began, and is committed as a whole, if nobody committed to a key it     *)
(* wrote since (Concept.md: snapshot isolation, first committer wins,      *)
(* "durable then ACK").                                                    *)
(***************************************************************************)
EXTENDS Naturals, Sequences

CONSTANTS Txn, Key, None

VARIABLES
    commits,    \* the commits that happened: who, and what it wrote
    snapshot,   \* how many of them each transaction sees
    status, writes, reads

vars == <<commits, snapshot, status, writes, reads>>

Touched(t) == {k \in Key : writes[t][k] # "none"}

\* The commits among the first n that wrote k.
WritersOf(k, n) == {i \in 1 .. n : commits[i].writes[k] # "none"}

\* k's value after the first n commits: who put it, or None.
Value(k, n) ==
    LET found == WritersOf(k, n)
        last  == commits[CHOOSE i \in found : \A j \in found : j <= i]
    IN  IF found = {} \/ last.writes[k] = "del" THEN None ELSE last.writer

HasCommitted(t) == \E i \in 1 .. Len(commits) : commits[i].writer = t

\* t may still commit: nobody did to a key of its, after its snapshot.
FirstCommitter(t) ==
    /\ status[t] = "ACTIVE"
    /\ ~ HasCommitted(t)
    /\ Touched(t) # {}
    /\ \A k \in Touched(t) :
          WritersOf(k, Len(commits)) = WritersOf(k, snapshot[t])

CommitBy(t) == [writer |-> t, writes |-> writes[t]]

Init ==
    /\ commits = << >>
    /\ snapshot = [t \in Txn |-> 0]
    /\ status = [t \in Txn |-> "UNBORN"]
    /\ writes = [t \in Txn |-> [k \in Key |-> "none"]]
    /\ reads = [t \in Txn |-> [k \in Key |-> {}]]

Begin(t) ==
    /\ status[t] = "UNBORN"
    /\ status' = [status EXCEPT ![t] = "ACTIVE"]
    /\ snapshot' = [snapshot EXCEPT ![t] = Len(commits)]
    /\ UNCHANGED <<commits, writes, reads>>

Write(t, k, op) ==
    /\ status[t] = "ACTIVE"
    /\ ~ HasCommitted(t)
    /\ writes' = [writes EXCEPT ![t][k] = op]
    /\ UNCHANGED <<commits, snapshot, status, reads>>

Read(t, k) ==
    /\ status[t] = "ACTIVE"
    /\ writes[t][k] = "none"
    /\ reads' = [reads EXCEPT ![t][k] = @ \cup {Value(k, snapshot[t])}]
    /\ UNCHANGED <<commits, snapshot, status, writes>>

Abort(t) ==
    /\ status[t] = "ACTIVE"
    /\ ~ HasCommitted(t)
    /\ status' = [status EXCEPT ![t] = "ABORTED"]
    /\ writes' = [writes EXCEPT ![t] = [k \in Key |-> "none"]]
    /\ UNCHANGED <<commits, snapshot, reads>>

\* The commit happens, all of it.
Commit(t) ==
    /\ FirstCommitter(t)
    /\ commits' = Append(commits, CommitBy(t))
    /\ UNCHANGED <<snapshot, status, writes, reads>>

\* The caller hears of it.
Acknowledge(t) ==
    /\ status[t] = "ACTIVE"
    /\ HasCommitted(t) \/ Touched(t) = {}
    /\ status' = [status EXCEPT ![t] = "COMMITTED"]
    /\ UNCHANGED <<commits, snapshot, writes, reads>>

\* Callers lose what was open; a commit under way may have happened or not.
Crash ==
    /\ status' = [t \in Txn |-> IF status[t] = "ACTIVE" THEN "LOST"
                                                        ELSE status[t]]
    /\ \/ UNCHANGED commits
       \/ \E t \in Txn : /\ FirstCommitter(t)
                         /\ commits' = Append(commits, CommitBy(t))
    /\ UNCHANGED <<snapshot, writes, reads>>

Next ==
    \/ \E t \in Txn :
          \/ Begin(t) \/ Abort(t) \/ Commit(t) \/ Acknowledge(t)
          \/ \E k \in Key : \/ Write(t, k, "put") \/ Write(t, k, "del")
                            \/ Read(t, k)
    \/ Crash

Spec == Init /\ [][Next]_vars
=============================================================================
