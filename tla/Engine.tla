------------------------------- MODULE Engine -------------------------------
(***************************************************************************)
(* KilnDB's transaction engine (engine.py, with txn.py, catalog.py, wal.py *)
(* and fault.py): multi-version reads from a volatile catalog, commits     *)
(* made durable by a redo-only write-ahead log, and recovery by replaying  *)
(* that log.                                                               *)
(*                                                                         *)
(* A process serves calls until something ends it; its memory is then gone *)
(* and what is left is wal.log.  A later start truncates the log at the    *)
(* first torn record and replays it.                                       *)
(*                                                                         *)
(* Every transaction object is used once and puts its own identity, so a   *)
(* value names its writer.  The field "writer" of a log record is the      *)
(* value of a REDO_PUT; on the other records, whose payload has no value,  *)
(* it is only there for the properties to read: no action decides on it.   *)
(*                                                                         *)
(* Checkpoints are left out: nothing in the engine dirties a page of its   *)
(* buffer pool, so Engine.checkpoint returns at "dirty_count == 0" and     *)
(* recovery always starts from checkpoint_lsn 0.                           *)
(*                                                                         *)
(* The definitions no action uses (SnapshotTooNew, ConflictsOffByOne, ...) *)
(* are faulty variants of the definition that follows them.  Put in its    *)
(* place each makes TLC find a property violated: see README.md.           *)
(***************************************************************************)
EXTENDS Naturals, Sequences, FiniteSets, Catalog

CONSTANTS
    Txn,            \* transaction objects
    Key,            \* keys
    None,           \* "not found", and the absence of a key or transaction
    SingleCaller,   \* TRUE: one thread makes every call, one at a time
    Incidents,      \* the kinds of failure and shutdown that may happen
    MaxIncidents    \* bound: how many of them happen in one behaviour

IncidentKinds == {"close", "fault", "kill", "power", "raise", "short"}

ASSUME EngineAssumption ==
    /\ None \notin Txn
    /\ None \notin Key
    /\ SingleCaller \in BOOLEAN
    /\ Incidents \subseteq IncidentKinds
    /\ MaxIncidents \in Nat

VARIABLES
    \* the file wal.log, and how many of its records an fdatasync covers
    wal, synced,
    \* the process: Engine's fields, and how far its current step has come
    catalog, next_ts, next_txn_id, stage, committer, todo, scan,
    \* the Transaction objects
    state, txn_id, start_ts, commit_ts, write_set,
    \* Engine.get between taking its iterator and walking it
    cursor,
    \* history: what each transaction's catalog reads returned
    observed,
    incidents

fileVars    == <<wal, synced>>
counterVars == <<next_ts, next_txn_id>>
commitVars  == <<stage, committer, todo>>
txnVars     == <<state, txn_id, start_ts, commit_ts, write_set>>
readVars    == <<cursor, observed>>
vars == <<fileVars, catalog, counterVars, commitVars, scan, txnVars,
          readVars, incidents>>

-----------------------------------------------------------------------------
\* Data

\* What is left of a record that was not written in full.
Torn == [type |-> "TORN", txn_id |-> 0, commit_ts |-> 0,
         key |-> None, writer |-> None]

Record ==
    [type : {"REDO_PUT", "REDO_DEL"}, txn_id : Nat, commit_ts : Nat,
     key : Key, writer : Txn]
    \cup
    [type : {"COMMIT"}, txn_id : Nat, commit_ts : Nat,
     key : {None}, writer : Txn]
    \cup
    {Torn}

VersionRecord == [begin_ts     : Nat,
                  end_ts       : Nat,
                  writer       : Txn,
                  is_tombstone : BOOLEAN]

Ops == {"none", "put", "del"}

Closed == [key |-> None, n |-> 0]

\* "down": no process.  "replay": Engine.__init__ is recovering.  "idle":
\* serving, commit_lock free.  The others: commit() holds commit_lock and is
\* about to append, to fdatasync, to install, or to return.
Stages == {"down", "replay", "idle", "redo", "sync", "install", "ack"}

RedoRecord(t, k) ==
    [type      |-> IF write_set[t][k] = "del" THEN "REDO_DEL" ELSE "REDO_PUT",
     txn_id    |-> txn_id[t],
     commit_ts |-> commit_ts[t],
     key       |-> k,
     writer    |-> t]

CommitRecord(t) ==
    [type |-> "COMMIT", txn_id |-> txn_id[t], commit_ts |-> commit_ts[t],
     key |-> None, writer |-> t]

Written(t) == {k \in Key : write_set[t][k] # "none"}

NoWrites == [k \in Key |-> "none"]

Serving == stage \notin {"down", "replay"}

\* What Engine.get would find in the catalog, all of it, for a snapshot.
Read(k, ts) == ReadResult(catalog[k], Len(catalog[k]), ts, None)

\* One more incident, if it is of a kind that may happen and the bound allows.
Incident(kind) ==
    /\ kind \in Incidents
    /\ incidents < MaxIncidents
    /\ incidents' = incidents + 1

-----------------------------------------------------------------------------
Init ==
    /\ wal = << >> /\ synced = 0
    /\ catalog = [k \in Key |-> << >>]
    /\ next_ts = 1 /\ next_txn_id = 1
    /\ stage = "down" /\ committer = None /\ todo = {} /\ scan = 1
    /\ state = [t \in Txn |-> "UNBORN"]
    /\ txn_id = [t \in Txn |-> 0]
    /\ start_ts = [t \in Txn |-> 0]
    /\ commit_ts = [t \in Txn |-> 0]
    /\ write_set = [t \in Txn |-> NoWrites]
    /\ cursor = [t \in Txn |-> Closed]
    /\ observed = [t \in Txn |-> [k \in Key |-> {}]]
    /\ incidents = 0

-----------------------------------------------------------------------------
(***************************************************************************)
(* Calls.  A transaction belongs to one caller, which makes one call at a  *)
(* time.  With SingleCaller all transactions belong to the same caller.    *)
(***************************************************************************)
MayCall(t) ==
    /\ Serving
    /\ t # committer
    /\ cursor[t] = Closed
    /\ SingleCaller => /\ stage = "idle"
                       /\ \A u \in Txn : cursor[u] = Closed

MayUseUnchecked(t) == MayCall(t) /\ state[t] # "UNBORN"

\* The check every call on a transaction starts with.
MayUse(t) == MayCall(t) /\ state[t] = "ACTIVE"

SnapshotTooNew == next_ts

\* The snapshot a transaction gets: everything committed so far.
Snapshot == next_ts - 1

\* Engine.begin.  It does not take commit_lock.
Begin(t) ==
    /\ MayCall(t)
    /\ state[t] = "UNBORN"
    /\ state' = [state EXCEPT ![t] = "ACTIVE"]
    /\ txn_id' = [txn_id EXCEPT ![t] = next_txn_id]
    /\ next_txn_id' = next_txn_id + 1
    /\ start_ts' = [start_ts EXCEPT ![t] = Snapshot]
    /\ UNCHANGED <<fileVars, catalog, next_ts, commitVars, scan, commit_ts,
                   write_set, readVars, incidents>>

\* Engine.put and Engine.delete: Transaction.put, Transaction.delete
Put(t, k) ==
    /\ MayUse(t)
    /\ write_set' = [write_set EXCEPT ![t][k] = "put"]
    /\ UNCHANGED <<fileVars, catalog, counterVars, commitVars, scan, state,
                   txn_id, start_ts, commit_ts, readVars, incidents>>

Delete(t, k) ==
    /\ MayUse(t)
    /\ write_set' = [write_set EXCEPT ![t][k] = "del"]
    /\ UNCHANGED <<fileVars, catalog, counterVars, commitVars, scan, state,
                   txn_id, start_ts, commit_ts, readVars, incidents>>

\* Transaction.abort, called by the owner of an active transaction.
Abort(t) ==
    /\ MayUse(t)
    /\ state' = [state EXCEPT ![t] = "ABORTED"]
    /\ write_set' = [write_set EXCEPT ![t] = NoWrites]
    /\ UNCHANGED <<fileVars, catalog, counterVars, commitVars, scan, txn_id,
                   start_ts, commit_ts, readVars, incidents>>

(***************************************************************************)
(* Engine.get of a key the transaction has not written (a key it has       *)
(* written is answered from the write set and touches nothing else).       *)
(* get_visible takes no lock: it evaluates reversed(list), which fixes     *)
(* where the walk starts, and only then looks at versions.  Versions below *)
(* the last never change, so one step for the whole walk is enough.        *)
(***************************************************************************)
GetOpen(t, k) ==
    /\ MayUse(t)
    /\ write_set[t][k] = "none"
    /\ cursor' = [cursor EXCEPT ![t] = [key |-> k, n |-> Len(catalog[k])]]
    /\ UNCHANGED <<fileVars, catalog, counterVars, commitVars, scan, txnVars,
                   observed, incidents>>

GetWalk(t) ==
    LET k == cursor[t].key
        v == ReadResult(catalog[k], cursor[t].n, start_ts[t], None)
    IN  /\ cursor[t] # Closed
        /\ cursor' = [cursor EXCEPT ![t] = Closed]
        /\ observed' = [observed EXCEPT ![t][k] = @ \cup {v}]
        /\ UNCHANGED <<fileVars, catalog, counterVars, commitVars, scan,
                       txnVars, incidents>>

-----------------------------------------------------------------------------
\* Engine.commit

\* An empty write set: committed without the lock and without the log.
CommitReadOnly(t) ==
    /\ MayUse(t)
    /\ Written(t) = {}
    /\ state' = [state EXCEPT ![t] = "COMMITTED"]
    /\ UNCHANGED <<fileVars, catalog, counterVars, commitVars, scan, txn_id,
                   start_ts, commit_ts, write_set, readVars, incidents>>

ConflictsUnchecked(t) == FALSE

ConflictsOffByOne(t) ==
    \E k \in Written(t) : GetLatestCommitTs(catalog[k]) > start_ts[t] + 1

\* First committer wins: somebody committed to a written key since start_ts.
Conflicts(t) ==
    \E k \in Written(t) : GetLatestCommitTs(catalog[k]) > start_ts[t]

MayCommit(t) == MayUse(t) /\ Written(t) # {} /\ stage = "idle"

CommitConflict(t) ==
    /\ MayCommit(t)
    /\ Conflicts(t)
    /\ state' = [state EXCEPT ![t] = "ABORTED"]
    /\ write_set' = [write_set EXCEPT ![t] = NoWrites]
    /\ UNCHANGED <<fileVars, catalog, counterVars, commitVars, scan, txn_id,
                   start_ts, commit_ts, readVars, incidents>>

CommitStart(t) ==
    /\ MayCommit(t)
    /\ ~ Conflicts(t)
    /\ commit_ts' = [commit_ts EXCEPT ![t] = next_ts]
    /\ next_ts' = next_ts + 1
    /\ stage' = "redo" /\ committer' = t /\ todo' = Written(t)
    /\ UNCHANGED <<fileVars, catalog, next_txn_id, scan, state, txn_id,
                   start_ts, write_set, readVars, incidents>>

(***************************************************************************)
(* WAL.append.  os.write may write less than it was given and say so in    *)
(* its result; append does not look at it and goes on.                     *)
(***************************************************************************)
WalAppend(rec) ==
    \/ wal' = Append(wal, rec) /\ UNCHANGED incidents
    \/ wal' = Append(wal, Torn) /\ Incident("short")

AppendRedo(k) ==
    /\ stage = "redo"
    /\ k \in todo
    /\ WalAppend(RedoRecord(committer, k))
    /\ todo' = todo \ {k}
    /\ UNCHANGED <<synced, catalog, counterVars, stage, committer, scan,
                   txnVars, readVars>>

AppendCommitTooEarly ==
    /\ stage = "redo"
    /\ WalAppend(CommitRecord(committer))
    /\ stage' = "sync"
    /\ UNCHANGED <<synced, catalog, counterVars, committer, todo, scan,
                   txnVars, readVars>>

AppendCommitWithoutSync ==
    /\ stage = "redo"
    /\ todo = {}
    /\ WalAppend(CommitRecord(committer))
    /\ stage' = "install" /\ todo' = Written(committer)
    /\ UNCHANGED <<synced, catalog, counterVars, committer, scan, txnVars,
                   readVars>>

AppendCommit ==
    /\ stage = "redo"
    /\ todo = {}
    /\ WalAppend(CommitRecord(committer))
    /\ stage' = "sync"
    /\ UNCHANGED <<synced, catalog, counterVars, committer, todo, scan,
                   txnVars, readVars>>

SyncWalMissing ==
    /\ stage = "sync"
    /\ stage' = "install" /\ todo' = Written(committer)
    /\ UNCHANGED <<fileVars, catalog, counterVars, committer, scan, txnVars,
                   readVars, incidents>>

\* WAL.sync
SyncWal ==
    /\ stage = "sync"
    /\ synced' = Len(wal)
    /\ stage' = "install" /\ todo' = Written(committer)
    /\ UNCHANGED <<wal, catalog, counterVars, committer, scan, txnVars,
                   readVars, incidents>>

Install(k) ==
    /\ stage = "install"
    /\ k \in todo
    /\ catalog' = [catalog EXCEPT ![k] =
                     InstallVersion(@, NewVersion(commit_ts[committer],
                                                  committer,
                                                  write_set[committer][k] = "del"))]
    /\ todo' = todo \ {k}
    /\ UNCHANGED <<fileVars, counterVars, stage, committer, scan, txnVars,
                   readVars, incidents>>

Ack ==
    /\ stage = "install"
    /\ todo = {}
    /\ state' = [state EXCEPT ![committer] = "COMMITTED"]
    /\ stage' = "ack"
    /\ UNCHANGED <<fileVars, catalog, counterVars, committer, todo, scan,
                   txn_id, start_ts, commit_ts, write_set, readVars, incidents>>

ReturnWithoutRelease ==
    /\ stage = "ack"
    /\ stage' = "idle"
    /\ UNCHANGED <<fileVars, catalog, counterVars, committer, todo, scan,
                   txnVars, readVars, incidents>>

\* commit_lock released
Return ==
    /\ stage = "ack"
    /\ stage' = "idle" /\ committer' = None
    /\ UNCHANGED <<fileVars, catalog, counterVars, todo, scan, txnVars,
                   readVars, incidents>>

(***************************************************************************)
(* An append or the fdatasync raises.  "with commit_lock" releases the     *)
(* lock, the exception leaves commit(), and nothing is undone: the         *)
(* transaction stays ACTIVE and what was appended stays in the log.        *)
(***************************************************************************)
CommitRaises ==
    /\ stage \in {"redo", "sync"}
    /\ Incident("raise")
    /\ stage' = "idle" /\ committer' = None /\ todo' = {}
    /\ UNCHANGED <<fileVars, catalog, counterVars, scan, txnVars, readVars>>

-----------------------------------------------------------------------------
\* The end of a process, and what it leaves behind.

\* The memory of the process is gone; a Transaction nobody had an answer for
\* is lost.
ProcessEnds ==
    /\ catalog' = [k \in Key |-> << >>]
    /\ next_ts' = 1 /\ next_txn_id' = 1
    /\ stage' = "down" /\ committer' = None /\ todo' = {} /\ scan' = 1
    /\ state' = [t \in Txn |-> IF state[t] = "ACTIVE" THEN "LOST"
                                                      ELSE state[t]]
    /\ cursor' = [t \in Txn |-> Closed]
    /\ UNCHANGED <<txn_id, start_ts, commit_ts, write_set, observed>>

\* Engine.close, after the last call has returned.
Close ==
    /\ stage = "idle"
    /\ Incident("close")
    /\ ProcessEnds
    /\ UNCHANGED fileVars

(***************************************************************************)
(* The fault points compiled into the code (fault.py): os._exit before the *)
(* first append of a commit, after half of its first record, between the   *)
(* sync and the installs, and just before commit() returns.                *)
(***************************************************************************)
FaultPoint ==
    /\ Incident("fault")
    /\ ProcessEnds
    /\ UNCHANGED synced
    /\ \/ /\ \/ stage = "redo" /\ todo = Written(committer)
             \/ stage = "install" /\ todo = Written(committer)
             \/ stage = "ack"
          /\ wal' = wal
       \/ /\ stage = "redo" /\ todo = Written(committer)
          /\ wal' = Append(wal, Torn)

\* The process is killed between any two of its steps, or inside an append.
\* The file keeps all that was written to it, synced or not.
Kill ==
    /\ stage # "down"
    /\ Incident("kill")
    /\ ProcessEnds
    /\ UNCHANGED synced
    /\ \/ wal' = wal
       \/ stage = "redo" /\ wal' = Append(wal, Torn)

\* The machine goes down, with or without a process: of the part of the file
\* that no fdatasync covers any number of whole records is left, and the one
\* after them may be left in part.  What is left is on the disk.
PowerLoss ==
    /\ Incident("power")
    /\ ProcessEnds
    /\ \E n \in synced .. Len(wal) :
         /\ \A i \in synced + 1 .. n : wal[i].type # "TORN"
         /\ synced' = n
         /\ \/ wal' = SubSeq(wal, 1, n)
            \/ n < Len(wal) /\ wal' = Append(SubSeq(wal, 1, n), Torn)

-----------------------------------------------------------------------------
\* Engine.__init__: opening the log, and _recover.

IsPrefixWithoutLast(n) == n = IF wal = << >> THEN 0 ELSE Len(wal) - 1

IsValidPrefix(n) ==
    /\ \A i \in 1 .. n : wal[i].type # "TORN"
    /\ n < Len(wal) => wal[n + 1].type = "TORN"

Smaller(m, n) == IF m < n THEN m ELSE n

\* WAL._recover_and_truncate: the log ends before its first torn record.
Restart ==
    /\ stage = "down"
    /\ \E n \in 0 .. Len(wal) :
         /\ IsValidPrefix(n)
         /\ wal' = SubSeq(wal, 1, n)
         /\ synced' = Smaller(synced, n)
    /\ catalog' = [k \in Key |-> << >>]
    /\ next_ts' = 1 /\ next_txn_id' = 1
    /\ stage' = "replay" /\ scan' = 1
    /\ UNCHANGED <<committer, todo, txnVars, readVars, incidents>>

IsAnyId(id) == TRUE

IsCommittedIdSoFar(id) ==
    \E i \in 1 .. scan : wal[i].type = "COMMIT" /\ wal[i].txn_id = id

\* Pass 1: does some COMMIT record of the log carry this transaction id?
IsCommittedId(id) ==
    \E i \in 1 .. Len(wal) : wal[i].type = "COMMIT" /\ wal[i].txn_id = id

PastOffByOne(counter, used) == IF used > counter THEN used + 1 ELSE counter

\* A counter moved past a number that was used.
Past(counter, used) == IF used >= counter THEN used + 1 ELSE counter

\* Pass 2, a redo record of an id that pass 1 found.
ReplayRedo ==
    /\ stage = "replay"
    /\ scan <= Len(wal)
    /\ LET rec == wal[scan]
       IN  /\ rec.type \in {"REDO_PUT", "REDO_DEL"}
           /\ catalog' = IF IsCommittedId(rec.txn_id)
                THEN [catalog EXCEPT ![rec.key] =
                       InstallVersion(@, NewVersion(rec.commit_ts, rec.writer,
                                                    rec.type = "REDO_DEL"))]
                ELSE catalog
    /\ scan' = scan + 1
    /\ UNCHANGED <<fileVars, counterVars, commitVars, txnVars, readVars,
                   incidents>>

\* The counters, which the code advances over the ids of pass 1 once pass 2
\* is through; nobody can call the engine before both are done.
ReplayCommit ==
    /\ stage = "replay"
    /\ scan <= Len(wal)
    /\ wal[scan].type = "COMMIT"
    /\ next_ts' = Past(next_ts, wal[scan].commit_ts)
    /\ next_txn_id' = Past(next_txn_id, wal[scan].txn_id)
    /\ scan' = scan + 1
    /\ UNCHANGED <<fileVars, catalog, commitVars, txnVars, readVars,
                   incidents>>

RecoverDone ==
    /\ stage = "replay"
    /\ scan > Len(wal)
    /\ stage' = "idle"
    /\ UNCHANGED <<fileVars, catalog, counterVars, committer, todo, scan,
                   txnVars, readVars, incidents>>

-----------------------------------------------------------------------------
Call(t) ==
    \/ Begin(t) \/ Abort(t) \/ GetWalk(t)
    \/ CommitReadOnly(t) \/ CommitConflict(t) \/ CommitStart(t)
    \/ \E k \in Key : Put(t, k) \/ Delete(t, k) \/ GetOpen(t, k)

CommitStep ==
    \/ \E k \in Key : AppendRedo(k) \/ Install(k)
    \/ AppendCommit \/ SyncWal \/ Ack \/ Return

ReplayStep == ReplayRedo \/ ReplayCommit \/ RecoverDone

Failure == CommitRaises \/ Close \/ FaultPoint \/ Kill \/ PowerLoss

Next ==
    \/ \E t \in Txn : Call(t)
    \/ CommitStep
    \/ Failure
    \/ Restart
    \/ ReplayStep

Spec == Init /\ [][Next]_vars

(***************************************************************************)
(* The thread inside commit() and the one inside __init__ keep running     *)
(* (neither waits for anything once commit_lock is taken), and whoever     *)
(* operates the store starts it again after it went down.  No caller is    *)
(* obliged to make a call.                                                 *)
(***************************************************************************)
Fairness == WF_vars(CommitStep) /\ WF_vars(ReplayStep) /\ WF_vars(Restart)

FairSpec == Spec /\ Fairness
=============================================================================
