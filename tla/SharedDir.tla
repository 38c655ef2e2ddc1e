------------------------------ MODULE SharedDir ------------------------------
(***************************************************************************)
(* Several engines on one data directory, as the pages of app.py and the   *)
(* processes they start have them.  commit_lock is a field of Engine, so   *)
(* nothing but O_APPEND orders what two of them write to wal.log.          *)
(*                                                                         *)
(* A session runs one engine at a time, and on it one transaction at a     *)
(* time.  A file that is removed stays for the engines that have it open:  *)
(* "logs" are all the files that ever had the name wal.log, "live" is the  *)
(* one that has it.                                                        *)
(*                                                                         *)
(* The modules that extend this one say who calls what: Console,           *)
(* Experiments.  The definitions no action uses (InTxnAtAnyTime, ...) are  *)
(* faulty variants of the definition that follows them: see README.md.     *)
(***************************************************************************)
EXTENDS Naturals, Sequences, FiniteSets, Replay

CONSTANTS
    Session, Key, None,
    Sizes,      \* what a redo record may take, in bytes
    Garbage,    \* the records that bytes which are not one may be read as
    MaxMisread  \* bound: records read behind the first damage of a log

\* A header and what encode_commit packs.
CommitSize == 9 + 16

\* Garbage has nobody's value.
ASSUME SharedDirAssumption ==
    /\ None \notin Key
    /\ Sizes \subseteq Nat \ {0} /\ MaxMisread \in Nat
    /\ \A r \in Garbage :
          /\ r = Record(r.type, r.txn_id, r.commit_ts, r.key, None, CommitSize)
          /\ r.type \in {"put", "del", "commit"} /\ r.key \in Key \cup {None}
          /\ r.txn_id \in Nat /\ r.commit_ts \in Nat

VARIABLES
    logs, live,
    \* of every session: how far its engine is, the engine, its transaction
    stage, engine, txn_of

vars == <<logs, live, stage, engine, txn_of>>

NoEngine ==
    [file |-> 0, valid_lsn |-> 0, committed |-> << >>,
     catalog |-> [k \in Key |-> << >>], next_ts |-> 1, next_txn_id |-> 1,
     todo |-> {}]

\* A Transaction that is not ACTIVE, or none: no caller tells them apart.
\* "writer" is the name of its commit.
NoTxn ==
    [active |-> FALSE, txn_id |-> 0, start_ts |-> 0, commit_ts |-> 0,
     write_set |-> [k \in Key |-> "none"], writer |-> None]

\* "none": no engine.  "scanned", "truncated", "pass1": Engine() is opening.
\* "idle": between two calls.  "redo", "sync": commit() is appending, or has
\* its COMMIT record in the log.
Stages == {"none", "scanned", "truncated", "pass1", "idle", "redo", "sync"}

HasEngine(s) == stage[s] # "none"

Log(s) == logs[engine[s].file]

Written(txn) == {k \in Key : txn.write_set[k] # "none"}

\* What a get finds in the catalog of session s, for a snapshot.
Read(s, k, ts) ==
    ReadResult(engine[s].catalog[k], Len(engine[s].catalog[k]), ts, None)

Init ==
    /\ logs = << >> /\ live = 0
    /\ stage = [s \in Session |-> "none"]
    /\ engine = [s \in Session |-> NoEngine]
    /\ txn_of = [s \in Session |-> NoTxn]

-----------------------------------------------------------------------------
\* Engine.__init__

(***************************************************************************)
(* WAL.__init__ opens the file, or makes one, and reads its whole prefix.  *)
(* (Every append is one os.write: only a fault or a truncation leaves a    *)
(* part of a record.)                                                      *)
(***************************************************************************)
Open(s) ==
    /\ stage[s] = "none"
    /\ IF live = 0
       THEN logs' = Append(logs, << >>) /\ live' = Len(logs')
       ELSE UNCHANGED <<logs, live>>
    /\ engine' = [engine EXCEPT ![s] =
          [NoEngine EXCEPT !.file      = live',
                           !.valid_lsn = Total(logs'[live'])[WholePrefix(logs'[live'])]]]
    /\ stage' = [stage EXCEPT ![s] = "scanned"]
    /\ UNCHANGED txn_of

\* ... where that reading ended, whatever was appended in between
Truncate(s) ==
    /\ stage[s] = "scanned"
    /\ logs' = [logs EXCEPT ![engine[s].file] = CutAt(@, engine[s].valid_lsn, None)]
    /\ stage' = [stage EXCEPT ![s] = "truncated"]
    /\ UNCHANGED <<live, engine, txn_of>>

ReadingsOf(s) == Readings(Log(s), Garbage, MaxMisread)

\* Pass 1 of _recover
Pass1(s) ==
    /\ stage[s] = "truncated"
    /\ \E log \in ReadingsOf(s) :
          engine' = [engine EXCEPT ![s].committed = CommittedTxns(log)]
    /\ stage' = [stage EXCEPT ![s] = "pass1"]
    /\ UNCHANGED <<logs, live, txn_of>>

\* Pass 2 reads the file once more; then come the counters.
Recovered(e, log) ==
    [e EXCEPT !.valid_lsn   = 0,
              !.committed   = << >>,
              !.catalog     = [k \in Key |-> Replayed(log, e.committed, k)],
              !.next_ts     = PastAll({e.committed[id] : id \in DOMAIN e.committed}),
              !.next_txn_id = PastAll(DOMAIN e.committed)]

Recover(s) ==
    /\ stage[s] = "pass1"
    /\ \E log \in ReadingsOf(s) :
          engine' = [engine EXCEPT ![s] = Recovered(engine[s], log)]
    /\ stage' = [stage EXCEPT ![s] = "idle"]
    /\ UNCHANGED <<logs, live, txn_of>>

\* A decoder may raise on what either pass misreads, and with it Engine().
RecoverRaises(s) ==
    stage[s] \in {"truncated", "pass1"} /\ ~ OnlyZeros(Rest(Log(s)))

\* What a session had in memory is gone.
Forget(s) ==
    /\ txn_of' = [txn_of EXCEPT ![s] = NoTxn]
    /\ engine' = [engine EXCEPT ![s] = NoEngine]
    /\ stage' = [stage EXCEPT ![s] = "none"]

-----------------------------------------------------------------------------
\* The calls of a session.  Engine.get changes nothing.

InTxnAtAnyTime(s) == txn_of[s].active

\* A session makes one call at a time.
InTxn(s) == stage[s] = "idle" /\ txn_of[s].active

SnapshotTooOld(s) == IF engine[s].next_ts = 1 THEN 0 ELSE engine[s].next_ts - 2

Snapshot(s) == engine[s].next_ts - 1

BegunTxn(s) ==
    [NoTxn EXCEPT !.active   = TRUE,
                  !.txn_id   = engine[s].next_txn_id,
                  !.start_ts = Snapshot(s)]

Begin(s) ==
    /\ stage[s] = "idle"
    /\ ~ txn_of[s].active
    /\ txn_of' = [txn_of EXCEPT ![s] = BegunTxn(s)]
    /\ engine' = [engine EXCEPT ![s].next_txn_id = @ + 1]
    /\ UNCHANGED <<logs, live, stage>>

\* Engine.put, Engine.delete
Write(s, k, op) ==
    /\ InTxn(s)
    /\ txn_of' = [txn_of EXCEPT ![s].write_set[k] = op]
    /\ UNCHANGED <<logs, live, stage, engine>>

EndTxn(s) == txn_of' = [txn_of EXCEPT ![s] = NoTxn]

Abort(s) ==
    /\ InTxn(s)
    /\ EndTxn(s)
    /\ UNCHANGED <<logs, live, stage, engine>>

CommitReadOnly(s) ==
    /\ InTxn(s)
    /\ Written(txn_of[s]) = {}
    /\ EndTxn(s)
    /\ UNCHANGED <<logs, live, stage, engine>>

Conflicts(s, txn) ==
    \E k \in Written(txn) :
        GetLatestCommitTs(engine[s].catalog[k]) > txn.start_ts

\* ConflictError
CommitConflict(s) ==
    /\ InTxn(s)
    /\ Conflicts(s, txn_of[s])
    /\ EndTxn(s)
    /\ UNCHANGED <<logs, live, stage, engine>>

\* commit(txn), for the last transaction of the engine, as far as the first
\* append.  w is a name for the commit.
CommitStart(s, txn, w) ==
    /\ stage[s] = "idle" /\ txn.active
    /\ Written(txn) # {} /\ ~ Conflicts(s, txn)
    /\ txn_of' = [txn_of EXCEPT ![s] =
          [txn EXCEPT !.commit_ts = engine[s].next_ts, !.writer = w]]
    /\ engine' = [engine EXCEPT ![s].next_ts     = @ + 1,
                                ![s].next_txn_id = txn.txn_id + 1,
                                ![s].todo        = Written(txn)]
    /\ stage' = [stage EXCEPT ![s] = "redo"]
    /\ UNCHANGED <<logs, live>>

\* WAL.append of a record of session s's transaction
Appended(s, type, k, n) ==
    [logs EXCEPT ![engine[s].file] = Append(@,
        Record(type, txn_of[s].txn_id, txn_of[s].commit_ts, k,
               txn_of[s].writer, n))]

AppendRedo(s, k) ==
    /\ stage[s] = "redo"
    /\ k \in engine[s].todo
    /\ \E n \in Sizes : logs' = Appended(s, txn_of[s].write_set[k], k, n)
    /\ engine' = [engine EXCEPT ![s].todo = @ \ {k}]
    /\ UNCHANGED <<live, stage, txn_of>>

AppendCommit(s) ==
    /\ stage[s] = "redo"
    /\ engine[s].todo = {}
    /\ logs' = Appended(s, "commit", None, CommitSize)
    /\ stage' = [stage EXCEPT ![s] = "sync"]
    /\ UNCHANGED <<live, engine, txn_of>>

WithoutVersion(list, txn, k) == list

\* The list of key k after the commit of a transaction.
WithVersion(list, txn, k) ==
    IF k \in Written(txn)
    THEN InstallVersion(list, NewVersion(txn.commit_ts, txn.writer,
                                         txn.write_set[k] = "del"))
    ELSE list

\* The fdatasync, the versions, and the return: nobody else uses this catalog.
Ack(s) ==
    LET txn == txn_of[s]
    IN  /\ stage[s] = "sync"
        /\ engine' = [engine EXCEPT ![s].catalog =
              [k \in Key |-> WithVersion(engine[s].catalog[k], txn, k)]]
        /\ EndTxn(s)
        /\ stage' = [stage EXCEPT ![s] = "idle"]
        /\ UNCHANGED <<logs, live>>

\* The directory is removed, under the engines that have it open.
RemoveDir == live' = 0 /\ UNCHANGED logs
=============================================================================
