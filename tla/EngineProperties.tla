-------------------------- MODULE EngineProperties --------------------------
(***************************************************************************)
(* What KilnDB's engine promises (Concept.md, the docstrings of engine.py  *)
(* and catalog.py, and the rules checker.py applies to histories), as      *)
(* properties of the behaviours of Engine.                                 *)
(***************************************************************************)
EXTENDS Engine

\* Every field holds a value the code can give it.
TypeOK ==
    /\ wal \in Seq(Record)
    /\ synced \in Nat /\ synced <= Len(wal)
    /\ catalog \in [Key -> Seq(VersionRecord)]
    /\ next_ts \in Nat \ {0} /\ next_txn_id \in Nat \ {0}
    /\ stage \in Stages
    /\ committer \in Txn \cup {None}
    /\ (committer # None) <=> (stage \in {"redo", "sync", "install", "ack"})
    /\ todo \subseteq Key
    /\ scan \in Nat \ {0}
    /\ state \in [Txn -> {"UNBORN", "ACTIVE", "COMMITTED", "ABORTED", "LOST"}]
    /\ txn_id \in [Txn -> Nat]
    /\ start_ts \in [Txn -> Nat]
    /\ commit_ts \in [Txn -> Nat]
    /\ write_set \in [Txn -> [Key -> Ops]]
    /\ cursor \in [Txn -> [key : Key \cup {None}, n : Nat]]
    /\ observed \in [Txn -> [Key -> SUBSET (Txn \cup {None})]]
    /\ incidents \in 0 .. MaxIncidents

-----------------------------------------------------------------------------
\* Vocabulary

\* The catalog has the version that t's write of k asks for.
Installed(t, k) ==
    \E i \in 1 .. Len(catalog[k]) :
        /\ catalog[k][i].writer = t
        /\ catalog[k][i].begin_ts = commit_ts[t]
        /\ catalog[k][i].is_tombstone = (write_set[t][k] = "del")

\* Some version of k is t's.
Visited(t, k) ==
    \E i \in 1 .. Len(catalog[k]) : catalog[k][i].writer = t

\* The first n records of the log are whole, and t's COMMIT is among them.
CommitWithin(t, n) ==
    /\ \A i \in 1 .. n : wal[i].type # "TORN"
    /\ \E i \in 1 .. n : wal[i].type = "COMMIT" /\ wal[i].writer = t

\* The result of reading the i-th version of k when it was current.
ResultAt(k, i) ==
    IF i = 0 \/ catalog[k][i].is_tombstone THEN None ELSE catalog[k][i].writer

-----------------------------------------------------------------------------
\* Durability and atomicity

(***************************************************************************)
(* A commit that was acknowledged stays: its COMMIT record is in the       *)
(* synced, readable part of the log whatever happened since, and whenever  *)
(* the engine serves every one of its writes is in the catalog, whether    *)
(* commit() or a recovery installed it (Concept.md: "We never ACK before   *)
(* fsync").                                                                *)
(***************************************************************************)
Durability ==
    \A t \in Txn : state[t] = "COMMITTED" /\ Written(t) # {} =>
        /\ CommitWithin(t, synced)
        /\ Serving => \A k \in Written(t) : Installed(t, k)

(***************************************************************************)
(* Recovery brings back nothing but committed transactions: a version is   *)
(* in the catalog only if a COMMIT record of the very transaction that     *)
(* wrote it is in the log, not merely one with the same id (_recover:      *)
(* "Replay only commited txns into the catalog").                          *)
(***************************************************************************)
OnlyCommittedInCatalog ==
    \A t \in Txn, k \in Key : Visited(t, k) =>
        \E i \in 1 .. Len(wal) : wal[i].type = "COMMIT" /\ wal[i].writer = t

(***************************************************************************)
(* All or nothing: outside a commit and a recovery, a transaction with one *)
(* write in the catalog has all of them there.                             *)
(***************************************************************************)
Atomicity ==
    stage = "idle" =>
        \A t \in Txn : (\E k \in Key : Visited(t, k)) =>
                            \A k \in Written(t) : Installed(t, k)

(***************************************************************************)
(* What a reader can see has reached the disk: a version that commit()     *)
(* put into the catalog has its COMMIT record in the part of the log an    *)
(* fdatasync covers.  (Recovery may also show the commits of a process     *)
(* that was killed before its fdatasync: those are LOST here.)             *)
(***************************************************************************)
VisibleIsSynced ==
    \A t \in Txn, k \in Key :
        Visited(t, k) /\ state[t] # "LOST" => CommitWithin(t, synced)

\* The rollback of a transaction is final: none of its writes is in the
\* catalog, then or after any restart (Transaction.abort).
AbortedInvisible ==
    \A t \in Txn, k \in Key : state[t] = "ABORTED" => ~ Visited(t, k)

-----------------------------------------------------------------------------
\* Snapshot isolation

(***************************************************************************)
(* A get answers from the transaction's snapshot, and the snapshot does    *)
(* not move: whatever a transaction read, at whatever time, is what a read *)
(* at its start_ts gives, also after it committed and after a recovery     *)
(* rebuilt the catalog.                                                    *)
(***************************************************************************)
SnapshotReads ==
    \A t \in Txn, k \in Key :
        Serving /\ state[t] \in {"ACTIVE", "COMMITTED"} =>
            observed[t][k] \subseteq {Read(k, start_ts[t])}

(***************************************************************************)
(* First committer wins (the conflict check of commit()): of two versions  *)
(* next to each other in a key's list, the writer of the newer one started *)
(* after the older one was committed.                                      *)
(***************************************************************************)
FirstCommitterWins ==
    \A k \in Key : \A i \in 2 .. Len(catalog[k]) :
        catalog[k][i - 1].begin_ts <= start_ts[catalog[k][i].writer]

(***************************************************************************)
(* No lost update: a transaction that read a key and then wrote it         *)
(* replaced the very value it had read.                                    *)
(***************************************************************************)
NoLostUpdate ==
    \A k \in Key : \A i \in 1 .. Len(catalog[k]) :
        observed[catalog[k][i].writer][k] \subseteq {ResultAt(k, i - 1)}

-----------------------------------------------------------------------------
\* The shape of the data, which the code relies on without looking

(***************************************************************************)
(* A key's list is in commit order and its intervals meet: each version    *)
(* ends where the next begins and only the last is open.  get_visible's    *)
(* walk from the newest and get_latest_commit_ts's look at the last        *)
(* version are right only if this holds, however a process ended.          *)
(***************************************************************************)
CatalogOrdered ==
    \A k \in Key : \A i \in 1 .. Len(catalog[k]) :
        IF i = Len(catalog[k])
        THEN catalog[k][i].end_ts = 0
        ELSE /\ catalog[k][i].end_ts = catalog[k][i + 1].begin_ts
             /\ catalog[k][i].begin_ts <= catalog[k][i + 1].begin_ts

(***************************************************************************)
(* COMMIT records are in timestamp order, and two that share an id are of  *)
(* one transaction (a commit that raised behind its append and was called  *)
(* again), over all the processes that appended to the log: recovery's     *)
(* dictionary of committed ids keeps one timestamp for each id.            *)
(***************************************************************************)
CommitsOrdered ==
    \A i, j \in 1 .. Len(wal) :
        /\ i < j
        /\ wal[i].type = "COMMIT"
        /\ wal[j].type = "COMMIT"
        => /\ wal[i].commit_ts < wal[j].commit_ts
           /\ wal[i].txn_id = wal[j].txn_id => wal[i].writer = wal[j].writer

(***************************************************************************)
(* The counters are past everything the log holds a COMMIT for, so a       *)
(* snapshot taken now contains all of it and the next commit comes after   *)
(* it (_recover: "Advance counters past anything we replayed").            *)
(***************************************************************************)
CountersPastLog ==
    Serving => \A i \in 1 .. Len(wal) : wal[i].type = "COMMIT" =>
        wal[i].commit_ts < next_ts /\ wal[i].txn_id < next_txn_id

-----------------------------------------------------------------------------
\* Action properties

(***************************************************************************)
(* No step, a recovery's truncation and a power loss included, changes the *)
(* part of the log that an fdatasync covered.                              *)
(***************************************************************************)
SyncedLogKept ==
    [][/\ synced <= synced'
       /\ SubSeq(wal', 1, synced) = SubSeq(wal, 1, synced)]_vars

-----------------------------------------------------------------------------
\* Liveness

(***************************************************************************)
(* A commit whose COMMIT record was synced in a log without a torn record  *)
(* becomes readable in full: either commit() goes on to install it or, if  *)
(* the process dies first, the recovery of a later one does.               *)
(***************************************************************************)
SyncedEventuallyReadable ==
    \A t \in Txn : CommitWithin(t, synced) ~>
        (stage = "idle" /\ \A k \in Written(t) : Installed(t, k))
=============================================================================
