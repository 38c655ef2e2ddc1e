------------------------------- MODULE Checker -------------------------------
(***************************************************************************)
(* The history checker (checker.py): five checks of a recorded history.    *)
(* Each is an operator that returns the set of its complaints, where the   *)
(* code returns a list of messages.                                        *)
(*                                                                         *)
(* A history is a sequence of events, one record for every class of        *)
(* events.  A put has its transaction as its value, and a delete None, so  *)
(* a value names its writer.  Commit events are of transactions that wrote *)
(* (Engine.commit gives no other a timestamp), with distinct timestamps,   *)
(* and a transaction writes a key at most once, as in every history that   *)
(* the repository records.                                                 *)
(*                                                                         *)
(* The definitions no operator or action uses (SeenBefore, OpenOnly, ...)  *)
(* are faulty variants of the definition that follows them: see README.md. *)
(***************************************************************************)
EXTENDS Naturals, Sequences, FiniteSetsExt

CONSTANTS
    Txn,    \* transaction ids
    Key,    \* keys
    None    \* "not found", and the value of a delete

ASSUME CheckerAssumption == None \notin Txn

\* The classes of events.
Begin(t, ts)       == [type |-> "Begin", txn |-> t, start_ts |-> ts]
Read(t, k, v)      == [type |-> "Read", txn |-> t, key |-> k, value |-> v]
Write(t, k, v)     == [type |-> "Write", txn |-> t, key |-> k, value |-> v]
Commit(t, ts)      == [type |-> "Commit", txn |-> t, commit_ts |-> ts]
Abort(t)           == [type |-> "Abort", txn |-> t]
Crash              == [type |-> "Crash"]
Recovered(k, v)    == [type |-> "Recovered", key |-> k, value |-> v]

\* Where in h there is an event of a type.
Places(h, type) == {i \in 1 .. Len(h) : h[i].type = type}

-----------------------------------------------------------------------------
\* What the checks collect from a history.

HasBegun(h, t) == \E i \in Places(h, "Begin") : h[i].txn = t

HasCommitted(h, t) == \E i \in Places(h, "Commit") : h[i].txn = t

StartTs(h, t) == h[Max({i \in Places(h, "Begin") : h[i].txn = t})].start_ts

CommitTs(h, t) == h[Max({i \in Places(h, "Commit") : h[i].txn = t})].commit_ts

\* The places of t's writes and deletes of k.
WritesOf(h, t, k) ==
    {i \in Places(h, "Write") : h[i].txn = t /\ h[i].key = k}

ValueOf(h, t, k) == h[Max(WritesOf(h, t, k))].value

\* The committed transactions that wrote k, and the last of some of them.
CommittedWriters(h, k) ==
    {t \in Txn : HasCommitted(h, t) /\ WritesOf(h, t, k) # {}}

Newest(h, writers) ==
    CHOOSE t \in writers :
        \A u \in writers : CommitTs(h, u) <= CommitTs(h, t)

\* Checker._find_crash_index, and the history up to it.
Crashed(h) == Places(h, "Crash") # {}

LastCrash(h) == Max(Places(h, "Crash"))

BeforeCrash(h) == SubSeq(h, 1, LastCrash(h) - 1)

\* Checker._build_committed_state: k's value after all that h commits.
CommittedState(h, k) ==
    IF CommittedWriters(h, k) = {}
    THEN None
    ELSE ValueOf(h, Newest(h, CommittedWriters(h, k)), k)

\* Checker._get_recovered_state
RecoveredState(h, k) ==
    LET found == {i \in Places(h, "Recovered") :
                     i > LastCrash(h) /\ h[i].key = k}
    IN  IF found = {} THEN None ELSE h[Max(found)].value

-----------------------------------------------------------------------------
\* The checks

\* Keys that a recovery did not bring back as the commits left them.
CheckDurability(h) ==
    IF ~ Crashed(h)
    THEN {}
    ELSE {k \in Key :
            /\ CommittedWriters(BeforeCrash(h), k) # {}
            /\ RecoveredState(h, k) # CommittedState(BeforeCrash(h), k)}

OpenOnly(h) ==
    {t \in Txn : HasBegun(h, t) /\ ~ HasCommitted(h, t)
                                /\ \A i \in Places(h, "Abort") : h[i].txn # t}

\* "begun - committed_ids", where nothing ever adds to committed_ids.
Uncommitted(h) == {t \in Txn : HasBegun(h, t)}

\* Writes in the recovered state that no commit accounts for.
CheckAtomicity(h) ==
    IF ~ Crashed(h)
    THEN {}
    ELSE {c \in Uncommitted(BeforeCrash(h)) \X Key :
            LET t     == c[1]
                k     == c[2]
                wrote == ValueOf(BeforeCrash(h), t, k)
            IN  /\ WritesOf(BeforeCrash(h), t, k) # {}
                /\ wrote # None
                /\ wrote = RecoveredState(h, k)
                /\ wrote # CommittedState(BeforeCrash(h), k)}

SeenBefore(commit_ts, start_ts) == commit_ts < start_ts

\* Is a version of the first timestamp in the snapshot of the second?
Seen(commit_ts, start_ts) == commit_ts <= start_ts

\* What the read at place i should have returned: the transaction's own
\* write before it, or else the newest version in its snapshot.
Expected(h, i) ==
    LET t    == h[i].txn
        k    == h[i].key
        own  == {j \in WritesOf(h, t, k) : j < i}
        seen == {u \in CommittedWriters(h, k) :
                    Seen(CommitTs(h, u), StartTs(h, t))}
    IN  IF own # {} THEN h[Max(own)].value
        ELSE IF seen = {} THEN None
        ELSE ValueOf(h, Newest(h, seen), k)

\* Reads that returned something else.
CheckSnapshotReads(h) ==
    {i \in Places(h, "Read") :
        HasBegun(h, h[i].txn) /\ h[i].value # Expected(h, i)}

AnyTwo(h, k, t, u) == {t, u} \subseteq CommittedWriters(h, k) /\ t # u

\* Of those who committed a write of k, t is the last before u.
Consecutive(h, k, t, u) ==
    /\ u \in CommittedWriters(h, k)
    /\ LET earlier == {w \in CommittedWriters(h, k) :
                          CommitTs(h, w) < CommitTs(h, u)}
       IN  earlier # {} /\ t = Newest(h, earlier)

\* A committed write over one that its transaction had not seen.
CheckLostUpdate(h) ==
    {c \in Key \X Txn \X Txn :
        /\ Consecutive(h, c[1], c[2], c[3])
        /\ CommitTs(h, c[2]) >= StartTs(h, c[3])}

CommittedSource(h, t, reader) == HasCommitted(h, t)

\* May reader have read t's write?
ValidSource(h, t, reader) == t = reader \/ HasCommitted(h, t)

\* Reads of what only uncommitted transactions wrote.
CheckNoDirtyRead(h) ==
    {i \in Places(h, "Read") :
        LET sources == {h[j].txn : j \in {w \in Places(h, "Write") :
                            h[w].key = h[i].key /\ h[w].value = h[i].value}}
        IN  /\ h[i].value # None
            /\ sources # {}
            /\ \A t \in sources : ~ ValidSource(h, t, h[i].txn)}
=============================================================================
