---------------------------- MODULE ConsoleProofs ----------------------------
(***************************************************************************)
(* Proofs about the web console, for any number of pages, engines, keys    *)
(* and commits.                                                            *)
(***************************************************************************)
EXTENDS ConsoleProperties, ReplayProofs

-----------------------------------------------------------------------------
(* The invariant: types.  A commit has a number for its name, which is     *)
(* what a version or record has for a writer.                              *)

Name == Nat \cup {None}

Rec == LogRecord(Key \cup {None}, Name)

Version == VersionBy(Name)

WriteSet == [Key -> {"none", "put", "del"}]

Txns ==
    [active : BOOLEAN, txn_id : Nat, start_ts : Nat, commit_ts : Nat,
     write_set : WriteSet, writer : Name]

Engines ==
    [file : Nat, valid_lsn : Nat, committed : Maps, catalog : [Key -> Seq(Version)],
     next_ts : Nat \ {0}, next_txn_id : Nat \ {0}, todo : SUBSET Key]

TypeInv ==
    /\ logs \in Seq(Seq(Rec)) /\ live \in 0 .. Len(logs)
    /\ stage \in [Session -> Stages]
    /\ engine \in [Session -> Engines]
    /\ txn_of \in [Session -> Txns]
    /\ commits \in Seq([file : Nat, write_set : WriteSet])
    /\ acked \in Seq(Nat) /\ own \in [Session -> Seq(Nat)]
    /\ wiped \in SUBSET Nat /\ wiped_before \in [Session -> SUBSET Nat]
    /\ shared \in BOOLEAN

Committing(s) == stage[s] \in {"redo", "sync"}

Serving(s) == stage[s] \in {"idle", "redo", "sync"}

SessionOK(s) ==
    /\ HasEngine(s) => engine[s].file \in 1 .. Len(logs)
    /\ Committing(s) => txn_of[s].active /\ txn_of[s].writer \in 1 .. Len(commits)
    /\ stage[s] = "redo" => engine[s].todo \subseteq Written(txn_of[s])
    /\ ~ HasEngine(s) => engine[s] = NoEngine
    /\ ~ Serving(s) => /\ \A k \in Key : engine[s].catalog[k] = << >>
                       /\ txn_of[s] = NoTxn
    /\ \A i \in 1 .. Len(own[s]) : own[s][i] \in 1 .. Len(commits)
    /\ \A c \in wiped_before[s] : c \in 1 .. Len(commits)

RangesOK ==
    /\ \A s \in Session : SessionOK(s)
    /\ \A i \in 1 .. Len(acked) : acked[i] \in 1 .. Len(commits)
    /\ \A c \in wiped : \E i \in 1 .. Len(acked) : acked[i] = c

-----------------------------------------------------------------------------
(* The invariant: files.  A commit is in no other file and in no other     *)
(* catalog than those of the file it was written to, and the file of one   *)
(* that was wiped has lost its name.  What else a catalog has is nobody's. *)

\* c is a commit to file f.
IsIn(c, f) == c \in 1 .. Len(commits) /\ commits[c].file = f

LogsKeepToFiles ==
    \A f \in 1 .. Len(logs) : \A i \in 1 .. Len(logs[f]) :
        ~ IsTorn(logs[f][i]) => IsIn(logs[f][i].writer, f)

KeepsToFile(s) ==
    /\ Committing(s) =>
          /\ IsIn(txn_of[s].writer, engine[s].file)
          /\ commits[txn_of[s].writer].write_set = txn_of[s].write_set
    /\ \A k \in Key : \A i \in 1 .. Len(engine[s].catalog[k]) :
          \/ IsIn(engine[s].catalog[k][i].writer, engine[s].file)
          \/ engine[s].catalog[k][i].writer = None
    /\ HasEngine(s) => \A c \in wiped_before[s] : ~ IsIn(c, engine[s].file)

FileInv ==
    /\ \A c \in 1 .. Len(commits) : commits[c].file \in 1 .. Len(logs)
    /\ LogsKeepToFiles
    /\ \A s \in Session : KeepsToFile(s)
    /\ \A c \in wiped : ~ IsIn(c, live)

-----------------------------------------------------------------------------
(* The invariant: a session's own commits.  No conflict means that what    *)
(* a session installs is the newest version of its list, and it is the     *)
(* last.                                                                   *)

\* The last version of the list of k is that of commit c, of transaction txn.
EndsWith(list, k, c, txn, next_ts) ==
    /\ list # << >>
    /\ list[Len(list)].begin_ts < next_ts /\ list[Len(list)].end_ts = 0
    /\ list[Len(list)].writer = c
    /\ list[Len(list)].is_tombstone <=> txn.write_set[k] = "del"

OwnServed(s) ==
    \A k \in Key : \A i \in WritesOf(own[s], k) :
        (\A j \in WritesOf(own[s], k) : j <= i) =>
            EndsWith(engine[s].catalog[k], k, own[s][i], commits[own[s][i]],
                     engine[s].next_ts)

OwnOK(s) ==
    /\ stage[s] = "idle" /\ txn_of[s].active =>
          txn_of[s].start_ts + 1 = engine[s].next_ts
    /\ Committing(s) => txn_of[s].commit_ts + 1 = engine[s].next_ts
    /\ stage[s] \in {"scanned", "truncated", "pass1"} => own[s] = << >>
    /\ Serving(s) => OwnServed(s)

OwnInv == \A s \in Session : OwnOK(s)

-----------------------------------------------------------------------------
(* The invariant: one page at a time.  The file has the commits that were  *)
(* answered and not wiped, complete and in order, and the catalog too.     *)

\* The records of the transactions are one after another, as their ids and
\* timestamps are.
Ordered(log) ==
    \A i, j \in 1 .. Len(log) :
        /\ i < j => log[i].writer <= log[j].writer
        /\ log[i].writer < log[j].writer =>
              log[i].commit_ts < log[j].commit_ts /\ log[i].txn_id < log[j].txn_id
        /\ log[i].writer = log[j].writer =>
              log[i].commit_ts = log[j].commit_ts /\ log[i].txn_id = log[j].txn_id

HasCommit(log, c) ==
    \E i \in 1 .. Len(log) : log[i].type = "commit" /\ log[i].writer = c

HasRedo(log, c, k) ==
    \E i \in 1 .. Len(log) :
        log[i].type \in {"put", "del"} /\ log[i].writer = c /\ log[i].key = k

\* All that commit c, of transaction txn, writes to the log.
Complete(log, c, txn) ==
    HasCommit(log, c) /\ \A k \in Written(txn) : HasRedo(log, c, k)

\* The log when cs are the commits, the first n of them answered, and those in
\* gone wiped.
LogOK(log, cs, n, gone) ==
    /\ \A i \in 1 .. Len(log) :
          /\ ~ IsTorn(log[i])
          /\ log[i].writer \in 1 .. Len(cs)
          /\ log[i].type # "commit" =>
                /\ log[i].key \in Written(cs[log[i].writer])
                /\ log[i].type = cs[log[i].writer].write_set[log[i].key]
    /\ Ordered(log)
    /\ \A c \in (1 .. n) \ gone : Complete(log, c, cs[c])

\* The counters of an engine at stage g are past everything in its log but the
\* commit under way, whose id and timestamp are in its records.
CountersOK(g, e, txn, log, n) ==
    /\ txn.active => txn.txn_id < e.next_txn_id
    /\ \A i \in 1 .. Len(log) :
          /\ log[i].commit_ts < e.next_ts /\ log[i].txn_id < e.next_txn_id
          /\ log[i].writer <= n =>
                /\ txn.active => log[i].txn_id < txn.txn_id
                /\ g \in {"redo", "sync"} => log[i].commit_ts < txn.commit_ts
          /\ log[i].writer > n =>
                log[i].txn_id = txn.txn_id /\ log[i].commit_ts = txn.commit_ts

\* The commits to k that are to be served.
Kept(k, cs, n, gone) == {c \in (1 .. n) \ gone : k \in Written(cs[c])}

CatalogOK(e, cs, n, gone) ==
    \A k \in Key :
        /\ Kept(k, cs, n, gone) = {} => e.catalog[k] = << >>
        /\ \A c \in Kept(k, cs, n, gone) :
              (\A d \in Kept(k, cs, n, gone) : d <= c) =>
                  EndsWith(e.catalog[k], k, c, cs[c], e.next_ts)

EngineOK(g, e, txn, log, cs, n, gone) ==
    /\ g = "scanned" => e.valid_lsn = Total(log)[Len(log)]
    /\ g = "pass1" => FoundIn(e.committed, log)
    /\ g \in {"idle", "redo", "sync"} =>
          CountersOK(g, e, txn, log, n) /\ CatalogOK(e, cs, n, gone)
    /\ g = "redo" =>
          \A k \in Written(txn) \ e.todo : HasRedo(log, txn.writer, k)
    /\ g = "sync" => Complete(log, txn.writer, txn)

NobodyElse(s) == \A r \in Session \ {s} : ~ HasEngine(r)

AloneAs(s) ==
    /\ \A i \in 1 .. Len(acked) : acked[i] = i
    /\ Committing(s) => Len(commits) = Len(acked) + 1 /\ txn_of[s].writer = Len(commits)
    /\ ~ Committing(s) => Len(commits) = Len(acked)
    /\ HasEngine(s) =>
          /\ live # 0 /\ engine[s].file = live
          /\ EngineOK(stage[s], engine[s], txn_of[s], logs[live],
                      commits, Len(acked), wiped)
    /\ live = 0 => 1 .. Len(acked) \subseteq wiped
    /\ live # 0 => LogOK(logs[live], commits, Len(acked), wiped)

AloneInv ==
    ~ shared =>
        /\ \A r, s \in Session : HasEngine(r) /\ HasEngine(s) => r = s
        /\ \A s \in Session : NobodyElse(s) => AloneAs(s)

ConsoleInv == TypeInv /\ RangesOK /\ FileInv /\ OwnInv /\ AloneInv

-----------------------------------------------------------------------------
\* The steps, by what they touch

\* The transaction of session s ends, and nothing else changes.
Ends(s) ==
    /\ InTxn(s) /\ EndTxn(s)
    /\ UNCHANGED <<logs, live, stage, engine, history>>

\* The steps of session s, one by one.
Steps(s) ==
    \/ GetEngine(s)
    \/ Begin(s) /\ UNCHANGED history
    \/ (\E k \in Key, op \in Ops : Write(s, k, op)) /\ UNCHANGED history
    \/ Ends(s)
    \/ Commit(s)
    \/ AnswerOK(s)
    \/ Truncate(s) /\ UNCHANGED history
    \/ Pass1(s) /\ UNCHANGED history
    \/ Recover(s) /\ UNCHANGED history
    \/ (\E k \in Key : AppendRedo(s, k)) /\ UNCHANGED history
    \/ AppendCommit(s) /\ UNCHANGED history
    \/ Reset(s)
    \/ Leave(s)

LEMMA NextSteps ==
    ASSUME Next
    PROVE  \E s \in Session : Steps(s)
<1>1. PICK s \in Session :
        \/ GetEngine(s) \/ Command(s) \/ Commit(s) \/ EngineStep(s)
        \/ AnswerOK(s) \/ Reset(s) \/ Leave(s)
    BY DEF Next
<1>2. CASE Command(s)
    BY <1>2, Zenon DEF Command, Steps, Ends, Abort, CommitReadOnly, CommitConflict
<1>3. CASE EngineStep(s)
    BY <1>3, Zenon DEF EngineStep, Steps
<1> QED
    BY <1>1, <1>2, <1>3 DEF Steps

LEMMA NothingIsTyped == NoEngine \in Engines /\ NoTxn \in Txns
<1>1. << >> \in Maps
    <2>1. << >> \in [{} -> Nat]
        OBVIOUS
    <2>2. {} \in SUBSET Nat /\ DOMAIN << >> = {}
        OBVIOUS
    <2> QED
        BY <2>1, <2>2 DEF Maps
<1>2. [k \in Key |-> << >>] \in [Key -> Seq(Version)]
    BY EmptySeq
<1>3. NoEngine \in Engines
    BY <1>1, <1>2 DEF NoEngine, Engines
<1>4. NoTxn \in Txns
    BY DEF NoTxn, Txns, WriteSet, Name
<1> QED
    BY <1>3, <1>4

LEMMA InitialTypes ==
    ASSUME ConsoleInit
    PROVE  TypeInv
<1>1. /\ << >> \in Seq(Seq(Rec)) /\ << >> \in Seq(Nat) /\ 0 \in 0 .. Len(<< >>)
      /\ << >> \in Seq([file : Nat, write_set : WriteSet])
    BY EmptySeq
<1> QED
    BY <1>1, NothingIsTyped DEF TypeInv, ConsoleInit, Init, Stages

\* r is a record of session s's transaction.
IsRecordOf(r, s, type, k) ==
    /\ r \in Rec /\ r.type = type /\ r.key = k /\ ~ IsTorn(r)
    /\ r.txn_id = txn_of[s].txn_id /\ r.commit_ts = txn_of[s].commit_ts
    /\ r.writer = txn_of[s].writer

\* new are the log files when the record of session s is appended to its file.
AppendedTo(new, s, type, k) ==
    LET f == engine[s].file
        n == Len(logs[f])
    IN  /\ new \in Seq(Seq(Rec)) /\ Len(new) = Len(logs)
        /\ \A g \in 1 .. Len(logs) : g # f => new[g] = logs[g]
        /\ n \in Nat /\ Len(new[f]) = n + 1 /\ IsRecordOf(new[f][n + 1], s, type, k)
        /\ \A i \in 1 .. n : new[f][i] = logs[f][i]

LEMMA AppendedFacts ==
    ASSUME TypeInv, RangesOK, NEW s \in Session, Committing(s),
           NEW type \in {"put", "del", "commit"}, NEW k \in Key \cup {None},
           NEW size \in Nat \ {0}
    PROVE  AppendedTo(Appended(s, type, k, size), s, type, k)
<1>1. PICK f : f = engine[s].file
    OBVIOUS
<1>2. f \in 1 .. Len(logs) /\ logs \in Seq(Seq(Rec)) /\ logs[f] \in Seq(Rec)
    <2>1. HasEngine(s)
        BY DEF Committing, HasEngine
    <2> QED
        BY <2>1, <1>1, ElementOfSeq DEF TypeInv, RangesOK, SessionOK
<1>3. PICK r : r = Record(type, txn_of[s].txn_id, txn_of[s].commit_ts, k,
                          txn_of[s].writer, size)
    OBVIOUS
<1>4. r \in Rec /\ IsRecordOf(r, s, type, k)
    <2>1. txn_of[s] \in Txns
        BY DEF TypeInv
    <2> QED
        BY <1>3, <2>1 DEF Record, Rec, LogRecord, Txns, IsRecordOf, IsTorn
<1>5. PICK log : log = Append(logs[f], r)
    OBVIOUS
<1>6. /\ log \in Seq(Rec) /\ Len(log) = Len(logs[f]) + 1 /\ Len(logs[f]) \in Nat
      /\ log[Len(logs[f]) + 1] = r
      /\ \A i \in 1 .. Len(logs[f]) : log[i] = logs[f][i]
    BY <1>2, <1>4, <1>5, AppendProperties, LenProperties
<1>7. PICK new : new = [logs EXCEPT ![f] = log]
    OBVIOUS
<1>8. /\ new \in Seq(Seq(Rec)) /\ Len(new) = Len(logs) /\ new[f] = log
      /\ \A g \in 1 .. Len(logs) : g # f => new[g] = logs[g]
    BY <1>2, <1>6, <1>7, ExceptSeq
<1>9. Appended(s, type, k, size) = new
    BY <1>1, <1>2, <1>3, <1>5, <1>7 DEF Appended
<1> QED
    BY <1>1, <1>4, <1>6, <1>8, <1>9 DEF AppendedTo

\* Garbage is nobody's.
LEMMA GarbageFacts ==
    /\ Garbage \in SUBSET Rec /\ MaxMisread \in Nat
    /\ \A r \in Garbage : ~ IsTorn(r) /\ r.writer = None
<1>1. ASSUME NEW r \in Garbage
      PROVE  r \in Rec /\ ~ IsTorn(r) /\ r.writer = None
    <2>1. PICK type, id, ts, k :
             type = r.type /\ id = r.txn_id /\ ts = r.commit_ts /\ k = r.key
        OBVIOUS
    <2>2. /\ r = Record(type, id, ts, k, None, CommitSize)
          /\ type \in {"put", "del", "commit"} /\ k \in Key \cup {None}
          /\ id \in Nat /\ ts \in Nat
        BY <2>1, SharedDirAssumption
    <2>3. CommitSize \in Nat \ {0}
        BY DEF CommitSize
    <2> QED
        BY <2>1, <2>2, <2>3 DEF Record, Rec, LogRecord, Name, IsTorn
<1> QED
    BY <1>1, SharedDirAssumption

\* What the passes may read: records of the file, and what is nobody's.
LEMMA ReadingIsTyped ==
    ASSUME TypeInv, RangesOK, NEW s \in Session, HasEngine(s), NEW read \in ReadingsOf(s)
    PROVE  /\ read \in Seq(Rec)
           /\ \A i \in 1 .. Len(read) :
                 /\ ~ IsTorn(read[i])
                 /\ \/ \E j \in 1 .. Len(Log(s)) : read[i] = Log(s)[j]
                    \/ read[i].writer = None
<1>1. Log(s) \in Seq(Rec)
    BY ElementOfSeq DEF TypeInv, RangesOK, SessionOK, Log
<1>2. PICK log \in Seq(Rec) : log = Log(s)
    BY <1>1
<1>3. read \in Readings(log, Garbage, MaxMisread)
    BY <1>2 DEF ReadingsOf
<1>4. /\ read \in Seq(Rec)
      /\ \A i \in 1 .. Len(read) :
            /\ ~ IsTorn(read[i])
            /\ (\E j \in 1 .. Len(log) : read[i] = log[j]) \/ read[i] \in Garbage
    <2>1. PICK K, W : Rec = LogRecord(K, W)
        BY DEF Rec
    <2>4. PICK garbage, most : garbage = Garbage /\ most = MaxMisread
        OBVIOUS
    <2>2. /\ log \in Seq(LogRecord(K, W)) /\ garbage \in SUBSET LogRecord(K, W)
          /\ (\A r \in garbage : ~ IsTorn(r)) /\ most \in Nat
          /\ read \in Readings(log, garbage, most)
        BY <1>2, <1>3, <2>1, <2>4, GarbageFacts
    <2>3. /\ read \in Seq(LogRecord(K, W))
          /\ IsReadOf(read, log, garbage)
        BY <2>2, ReadingsFacts
    <2> QED
        BY <2>1, <2>3, <2>4 DEF IsReadOf
<1> QED
    BY <1>2, <1>4, GarbageFacts

LEMMA TypeStep ==
    ASSUME TypeInv, RangesOK, ConsoleAssumption, NEW s \in Session, Steps(s)
    PROVE  TypeInv'
<1>0. /\ NoEngine \in Engines /\ NoTxn \in Txns
      /\ logs \in Seq(Seq(Rec)) /\ live \in 0 .. Len(logs) /\ stage \in [Session -> Stages]
      /\ engine \in [Session -> Engines] /\ txn_of \in [Session -> Txns]
      /\ commits \in Seq([file : Nat, write_set : WriteSet])
      /\ acked \in Seq(Nat) /\ own \in [Session -> Seq(Nat)]
      /\ wiped \in SUBSET Nat /\ wiped_before \in [Session -> SUBSET Nat]
      /\ shared \in BOOLEAN
      /\ Len(logs) \in Nat /\ Len(commits) \in Nat
      /\ engine[s] \in Engines /\ txn_of[s] \in Txns
    BY LenProperties, NothingIsTyped DEF TypeInv
<1>1. CASE GetEngine(s)
    <2>1. /\ logs' \in Seq(Seq(Rec)) /\ live' \in 0 .. Len(logs') /\ live' \in 1 .. Len(logs')
          /\ logs'[live'] \in Seq(Rec)
        <3>1. CASE live = 0
            <4>1. logs' = Append(logs, << >>) /\ live' = Len(logs')
                BY <1>1, <3>1 DEF GetEngine, Open
            <4>2. << >> \in Seq(Rec)
                BY EmptySeq
            <4> QED
                BY <4>1, <4>2, <1>0, AppendProperties
        <3>2. CASE live # 0
            <4>1. logs' = logs /\ live' = live
                BY <1>1, <3>2 DEF GetEngine, Open
            <4> QED
                BY <4>1, <3>2, <1>0, ElementOfSeq
        <3> QED
            BY <3>1, <3>2
    <2>2. PICK n \in Nat : n = Total(logs'[live'])[WholePrefix(logs'[live'])]
        <3>1. PICK log \in Seq(Rec) : log = logs'[live']
            BY <2>1
        <3>2. WholePrefix(log) \in 0 .. Len(log)
            BY WholePrefixFacts DEF Rec
        <3>3. Total(log)[WholePrefix(log)] \in Nat
            BY <3>2, CutBehind DEF Rec
        <3> QED
            BY <3>1, <3>3
    <2>3. PICK e : e = [NoEngine EXCEPT !.file = live', !.valid_lsn = n]
        OBVIOUS
    <2>4. e \in Engines
        <3>1. PICK f \in Nat : f = live'
            BY <2>1, <1>0
        <3> QED
            BY <2>3, <3>1, <1>0 DEF Engines
    <2>5. engine' = [engine EXCEPT ![s] = e]
        BY <1>1, <2>2, <2>3 DEF GetEngine, Open
    <2>6. << >> \in Seq(Nat)
        BY EmptySeq
    <2>7. /\ stage' = [stage EXCEPT ![s] = "scanned"] /\ txn_of' = txn_of
          /\ own' = [own EXCEPT ![s] = << >>]
          /\ wiped_before' = [wiped_before EXCEPT ![s] = wiped]
          /\ shared' \in BOOLEAN
          /\ commits' = commits /\ acked' = acked /\ wiped' = wiped
        BY <1>1, <1>0 DEF GetEngine, Open
    <2> QED
        BY <1>0, <2>1, <2>4, <2>5, <2>6, <2>7 DEF TypeInv, Stages
<1>2. CASE Begin(s) /\ UNCHANGED history
    <2>1. PICK t : t = BegunTxn(s)
        OBVIOUS
    <2>2. engine[s].next_txn_id \in Nat \ {0} /\ engine[s].next_ts \in Nat \ {0}
        BY <1>0 DEF Engines
    <2>3. t \in Txns
        <3>1. PICK id \in Nat, ts \in Nat : id = engine[s].next_txn_id /\ ts = Snapshot(s)
            BY <2>2 DEF Snapshot
        <3>2. t = [NoTxn EXCEPT !.active = TRUE, !.txn_id = id, !.start_ts = ts]
            BY <2>1, <3>1 DEF BegunTxn
        <3> QED
            BY <3>2, <1>0 DEF Txns
    <2>4. PICK id \in Nat \ {0} : id = engine[s].next_txn_id + 1
        BY <2>2
    <2>5. PICK e : e = [engine[s] EXCEPT !.next_txn_id = id]
        OBVIOUS
    <2>6. e \in Engines
        BY <2>5, <1>0 DEF Engines
    <2>7. /\ engine' = [engine EXCEPT ![s] = e] /\ txn_of' = [txn_of EXCEPT ![s] = t]
          /\ UNCHANGED <<logs, live, stage>> /\ UNCHANGED history
        BY <1>2, <2>1, <2>4, <2>5, <1>0 DEF Begin
    <2> QED
        BY <1>0, <2>3, <2>6, <2>7 DEF TypeInv, history
<1>3. CASE (\E k \in Key, op \in Ops : Write(s, k, op)) /\ UNCHANGED history
    <2>1. PICK k \in Key, op \in Ops : Write(s, k, op)
        BY <1>3
    <2>2. PICK w : w = [txn_of[s].write_set EXCEPT ![k] = op]
        OBVIOUS
    <2>3. w \in WriteSet
        BY <2>2, <1>0, ConsoleAssumption DEF Txns, WriteSet, ConsoleAssumption
    <2>4. PICK t : t = [txn_of[s] EXCEPT !.write_set = w]
        OBVIOUS
    <2>5. t \in Txns
        BY <2>3, <2>4, <1>0 DEF Txns
    <2>6. txn_of' = [txn_of EXCEPT ![s] = t]
        BY <2>1, <2>2, <2>4, <1>0 DEF Write
    <2> QED
        BY <1>0, <1>3, <2>1, <2>5, <2>6 DEF TypeInv, Write, history
<1>4. CASE Ends(s)
    BY <1>0, <1>4 DEF TypeInv, Ends, EndTxn, history
<1>5. CASE Commit(s)
    <2>0. PICK ts \in Nat, w \in Name : ts = engine[s].next_ts /\ w = Len(commits) + 1
        BY <1>0 DEF Engines, Name
    <2>1. PICK t : t = [txn_of[s] EXCEPT !.commit_ts = ts, !.writer = w]
        OBVIOUS
    <2>2. PICK ts1 \in Nat \ {0}, id \in Nat \ {0} : ts1 = ts + 1 /\ id = txn_of[s].txn_id + 1
        <3>1. txn_of[s].txn_id \in Nat
            BY <1>0 DEF Txns
        <3>2. ts + 1 \in Nat \ {0} /\ txn_of[s].txn_id + 1 \in Nat \ {0}
            BY <3>1
        <3> QED
            BY <3>2
    <2>3. t \in Txns
        BY <2>1, <1>0 DEF Txns
    <2>4. PICK e : e = [engine[s] EXCEPT !.next_ts = ts1, !.next_txn_id = id,
                                         !.todo = Written(txn_of[s])]
        OBVIOUS
    <2>5. e \in Engines
        <3>1. Written(txn_of[s]) \in SUBSET Key
            BY DEF Written
        <3> QED
            BY <2>4, <3>1, <1>0 DEF Engines
    <2>6. engine' = [engine EXCEPT ![s] = e] /\ txn_of' = [txn_of EXCEPT ![s] = t]
        BY <1>5, <2>0, <2>1, <2>2, <2>4, <1>0 DEF Commit, CommitStart
    <2>7. PICK c : c = [file |-> engine[s].file, write_set |-> txn_of[s].write_set]
        OBVIOUS
    <2>8. c \in [file : Nat, write_set : WriteSet]
        BY <2>7, <1>0 DEF Engines, Txns
    <2>9. commits' = Append(commits, c)
        BY <1>5, <2>7 DEF Commit
    <2>10. /\ stage' = [stage EXCEPT ![s] = "redo"] /\ logs' = logs /\ live' = live
           /\ UNCHANGED <<acked, own, wiped, wiped_before, shared>>
        BY <1>5 DEF Commit, CommitStart
    <2> QED
        BY <1>0, <2>3, <2>5, <2>6, <2>8, <2>9, <2>10, AppendProperties DEF TypeInv, Stages
<1>6. CASE AnswerOK(s)
    <2>1. stage[s] = "sync"
        BY <1>6 DEF AnswerOK, Ack
    <2>2. txn_of[s].writer \in Nat
        BY <2>1, <1>0 DEF RangesOK, SessionOK, Committing
    <2>3. PICK cat : cat = [k \in Key |-> WithVersion(engine[s].catalog[k], txn_of[s], k)]
        OBVIOUS
    <2>4. ASSUME NEW k \in Key
          PROVE  WithVersion(engine[s].catalog[k], txn_of[s], k) \in Seq(Version)
        <3>1. PICK v : v = NewVersion(txn_of[s].commit_ts, txn_of[s].writer,
                                      txn_of[s].write_set[k] = "del")
            OBVIOUS
        <3>2. v \in Version
            BY <3>1, <1>0 DEF NewVersion, Version, VersionBy, Txns
        <3>3. engine[s].catalog[k] \in Seq(Version)
            BY <1>0 DEF Engines
        <3>4. InstallVersion(engine[s].catalog[k], v) \in Seq(Version)
            <4>1. Grown(InstallVersion(engine[s].catalog[k], v), engine[s].catalog[k], v, Name)
                BY <3>2, <3>3, InstallFacts DEF Version
            <4> QED
                BY <4>1 DEF Grown, Version
        <3> QED
            BY <3>1, <3>3, <3>4 DEF WithVersion
    <2>5. cat \in [Key -> Seq(Version)]
        BY <2>3, <2>4
    <2>6. PICK e : e = [engine[s] EXCEPT !.catalog = cat]
        OBVIOUS
    <2>7. e \in Engines
        BY <2>5, <2>6, <1>0 DEF Engines
    <2>8. engine' = [engine EXCEPT ![s] = e]
        BY <1>6, <2>3, <2>6, <1>0 DEF AnswerOK, Ack
    <2>9. PICK a, o : a = Append(acked, txn_of[s].writer) /\ o = Append(own[s], txn_of[s].writer)
        OBVIOUS
    <2>10. a \in Seq(Nat) /\ o \in Seq(Nat)
        BY <2>2, <2>9, <1>0, AppendProperties
    <2>11. /\ acked' = a /\ own' = [own EXCEPT ![s] = o]
           /\ stage' = [stage EXCEPT ![s] = "idle"] /\ logs' = logs /\ live' = live
           /\ txn_of' = [txn_of EXCEPT ![s] = NoTxn]
           /\ UNCHANGED <<commits, wiped, wiped_before, shared>>
        BY <1>6, <2>9, <1>0 DEF AnswerOK, Ack, EndTxn
    <2> QED
        BY <1>0, <2>7, <2>8, <2>10, <2>11 DEF TypeInv, Stages
<1>7. CASE Truncate(s) /\ UNCHANGED history
    <2>1. PICK f : f = engine[s].file
        OBVIOUS
    <2>2. stage[s] = "scanned" /\ f \in 1 .. Len(logs)
        BY <1>7, <2>1 DEF Truncate, RangesOK, SessionOK, HasEngine
    <2>3. PICK n \in Nat : n = engine[s].valid_lsn
        BY <1>0 DEF Engines
    <2>4. PICK log : log = CutAt(logs[f], n, None)
        OBVIOUS
    <2>5. log \in Seq(Rec)
        <3>1. logs[f] \in Seq(Rec)
            BY <2>2, <1>0, ElementOfSeq
        <3> QED
            BY <2>4, <3>1, CutFacts DEF Rec, Name
    <2>6. logs' = [logs EXCEPT ![f] = log]
        BY <1>7, <2>1, <2>3, <2>4 DEF Truncate
    <2>7. logs' \in Seq(Seq(Rec)) /\ Len(logs') = Len(logs)
        BY <2>2, <2>5, <2>6, <1>0, ExceptSeq
    <2>8. /\ stage' = [stage EXCEPT ![s] = "truncated"]
          /\ UNCHANGED <<live, engine, txn_of>> /\ UNCHANGED history
        BY <1>7 DEF Truncate
    <2> QED
        BY <1>0, <2>7, <2>8 DEF TypeInv, history, Stages
<1>13. CASE Pass1(s) /\ UNCHANGED history
    <2>1. PICK log \in ReadingsOf(s) :
             engine' = [engine EXCEPT ![s].committed = CommittedTxns(log)]
        BY <1>13 DEF Pass1
    <2>2. log \in Seq(Rec)
        <3>1. HasEngine(s)
            BY <1>13 DEF Pass1, HasEngine
        <3> QED
            BY <3>1, ReadingIsTyped
    <2>3. PICK found \in Maps : found = CommittedTxns(log)
        BY <2>2, CommittedFacts DEF Rec
    <2>4. PICK e : e = [engine[s] EXCEPT !.committed = found]
        OBVIOUS
    <2>5. e \in Engines /\ engine' = [engine EXCEPT ![s] = e]
        BY <2>1, <2>3, <2>4, <1>0 DEF Engines
    <2>6. /\ stage' = [stage EXCEPT ![s] = "pass1"]
          /\ UNCHANGED <<logs, live, txn_of>> /\ UNCHANGED history
        BY <1>13 DEF Pass1
    <2> QED
        BY <1>0, <2>5, <2>6 DEF TypeInv, history, Stages
<1>8. CASE Recover(s) /\ UNCHANGED history
    <2>1. PICK log \in ReadingsOf(s) : engine' = [engine EXCEPT ![s] = Recovered(engine[s], log)]
        BY <1>8 DEF Recover
    <2>2. HasEngine(s)
        BY <1>8 DEF Recover, HasEngine
    <2>3. log \in Seq(Rec)
        BY <2>2, ReadingIsTyped
    <2>4. PICK found \in Maps : found = engine[s].committed
        BY <1>0 DEF Engines
    <2>5. PICK cat : cat = [k \in Key |-> Replayed(log, found, k)]
        OBVIOUS
    <2>6. cat \in [Key -> Seq(Version)]
        <3>1. ASSUME NEW k \in Key
              PROVE  Replayed(log, found, k) \in Seq(Version)
            <4>1. Rebuilt(Replayed(log, found, k), log, Len(log), found, k, Name)
                BY <2>3, ReplayedFacts DEF Rec
            <4> QED
                BY <4>1 DEF Rebuilt, Version
        <3> QED
            BY <2>5, <3>1
    <2>7. PICK ts, nid : /\ ts = PastAll({found[i] : i \in DOMAIN found})
                         /\ nid = PastAll(DOMAIN found)
        OBVIOUS
    <2>8. ts \in Nat \ {0} /\ nid \in Nat \ {0}
        <3>1. PICK b \in Nat : \A i \in DOMAIN found : i <= b /\ found[i] <= b
            BY <2>4 DEF Maps
        <3>2. /\ {found[i] : i \in DOMAIN found} \in SUBSET (0 .. b)
              /\ DOMAIN found \in SUBSET (0 .. b)
            <4>1. PICK D \in SUBSET Nat : found \in [D -> Nat]
                BY <2>4 DEF Maps
            <4>2. \A i \in DOMAIN found : i \in Nat /\ found[i] \in Nat
                BY <4>1
            <4> QED
                BY <4>2, <3>1
        <3> QED
            BY <2>7, <3>1, <3>2, PastAllFacts
    <2>9. PICK e : e = Recovered(engine[s], log)
        OBVIOUS
    <2>10. e \in Engines
        <3>1. << >> \in Maps
            BY NothingIsTyped DEF NoEngine, Engines
        <3>2. e = [engine[s] EXCEPT !.valid_lsn = 0, !.committed = << >>,
                       !.catalog = cat, !.next_ts = ts, !.next_txn_id = nid]
            BY <2>4, <2>5, <2>7, <2>9, SMT DEF Recovered
        <3> QED
            BY <2>6, <2>8, <3>1, <3>2, <1>0 DEF Engines
    <2>11. engine' = [engine EXCEPT ![s] = e]
        BY <2>1, <2>9
    <2>12. /\ stage' = [stage EXCEPT ![s] = "idle"] /\ UNCHANGED <<logs, live, txn_of>>
           /\ UNCHANGED history
        BY <1>8 DEF Recover
    <2> QED
        BY <1>0, <2>10, <2>11, <2>12 DEF TypeInv, history, Stages
<1>9. CASE (\E k \in Key : AppendRedo(s, k)) /\ UNCHANGED history
    <2>1. PICK k \in Key : AppendRedo(s, k)
        BY <1>9
    <2>2. PICK type : type = txn_of[s].write_set[k]
        OBVIOUS
    <2>3. stage[s] = "redo" /\ k \in engine[s].todo
        BY <2>1 DEF AppendRedo
    <2>9. PICK size \in Sizes : logs' = Appended(s, type, k, size)
        BY <2>1, <2>2 DEF AppendRedo
    <2>4. type \in {"put", "del"}
        <3>1. type # "none"
            BY <2>2, <2>3 DEF RangesOK, SessionOK, Written
        <3> QED
            BY <2>2, <3>1, <1>0 DEF Txns, WriteSet
    <2>5. AppendedTo(logs', s, type, k)
        <3>1. size \in Nat \ {0} /\ k \in Key \cup {None} /\ Committing(s)
            BY <2>3, SharedDirAssumption DEF Committing
        <3> QED
            BY <2>4, <2>9, <3>1, AppendedFacts
    <2>6. /\ UNCHANGED <<live, stage, txn_of>> /\ UNCHANGED history
          /\ engine' = [engine EXCEPT ![s].todo = @ \ {k}]
        BY <1>9, <2>1 DEF AppendRedo
    <2>7. PICK e : e = [engine[s] EXCEPT !.todo = @ \ {k}]
        OBVIOUS
    <2>8. e \in Engines /\ engine' = [engine EXCEPT ![s] = e]
        BY <2>6, <2>7, <1>0 DEF Engines
    <2>10. logs' \in Seq(Seq(Rec)) /\ Len(logs') = Len(logs)
        BY <2>5 DEF AppendedTo
    <2> QED
        BY <1>0, <2>6, <2>8, <2>10 DEF TypeInv, history
<1>10. CASE AppendCommit(s) /\ UNCHANGED history
    <2>1. /\ stage[s] = "redo" /\ logs' = Appended(s, "commit", None, CommitSize)
          /\ stage' = [stage EXCEPT ![s] = "sync"]
          /\ UNCHANGED <<live, engine, txn_of>> /\ UNCHANGED history
        BY <1>10 DEF AppendCommit
    <2>2. AppendedTo(logs', s, "commit", None)
        <3>1. CommitSize \in Nat \ {0}
            BY DEF CommitSize
        <3> QED
            BY <2>1, <3>1, AppendedFacts DEF Committing
    <2>3. logs' \in Seq(Seq(Rec)) /\ Len(logs') = Len(logs)
        BY <2>2 DEF AppendedTo
    <2> QED
        BY <1>0, <2>1, <2>3 DEF TypeInv, history, Stages
<1>11. CASE Reset(s)
    <2>1. Range(acked) \in SUBSET Nat
        <3>1. \A x \in Range(acked) : \E i \in DOMAIN acked : x = acked[i]
            BY DEF Range
        <3>2. DOMAIN acked = 1 .. Len(acked)
            BY <1>0
        <3> QED
            BY <3>1, <3>2, <1>0, ElementOfSeq
    <2> QED
        BY <1>0, <1>11, <2>1 DEF TypeInv, Reset, Forget, RemoveDir, Stages
<1>12. CASE Leave(s)
    BY <1>0, <1>12 DEF TypeInv, Leave, Forget, Stages, history
<1> QED
    BY <1>1, <1>2, <1>3, <1>4, <1>5, <1>6, <1>7, <1>8, <1>9, <1>10, <1>11, <1>12, <1>13
    DEF Steps

-----------------------------------------------------------------------------
(* What each step leaves behind, field by field.                           *)

\* The other sessions notice nothing but what becomes of the files.
OthersAsBefore(s) ==
    \A r \in Session \ {s} :
        /\ engine'[r] = engine[r] /\ txn_of'[r] = txn_of[r] /\ stage'[r] = stage[r]
        /\ own'[r] = own[r] /\ wiped_before'[r] = wiped_before[r]

\* Files and commits stay what they are, and more may come.
OnlyMore ==
    /\ Len(logs) <= Len(logs')
    /\ Len(commits) <= Len(commits')
    /\ \A c \in 1 .. Len(commits) : commits'[c] = commits[c]
    /\ Len(acked) <= Len(acked')
    /\ \A i \in 1 .. Len(acked) : acked'[i] = acked[i]

LEMMA Frame ==
    ASSUME TypeInv, RangesOK, NEW s \in Session, Steps(s)
    PROVE  OthersAsBefore(s) /\ OnlyMore
<1>0. /\ logs \in Seq(Seq(Rec)) /\ stage \in [Session -> Stages]
      /\ engine \in [Session -> Engines] /\ txn_of \in [Session -> Txns]
      /\ commits \in Seq([file : Nat, write_set : WriteSet])
      /\ acked \in Seq(Nat) /\ own \in [Session -> Seq(Nat)]
      /\ wiped_before \in [Session -> SUBSET Nat]
      /\ Len(logs) \in Nat /\ Len(commits) \in Nat /\ Len(acked) \in Nat
    BY LenProperties DEF TypeInv
<1>1. CASE GetEngine(s)
    <2>1. Len(logs) <= Len(logs')
        <3>1. << >> \in Seq(Rec)
            BY EmptySeq
        <3>2. Len(Append(logs, << >>)) = Len(logs) + 1
            BY <3>1, <1>0, AppendProperties
        <3> QED
            BY <1>0, <1>1, <3>2 DEF GetEngine, Open
    <2> QED
        BY <1>0, <1>1, <2>1 DEF GetEngine, Open, OthersAsBefore, OnlyMore
<1>2. CASE Begin(s) /\ UNCHANGED history
    BY <1>0, <1>2 DEF Begin, history, OthersAsBefore, OnlyMore
<1>3. CASE (\E k \in Key, op \in Ops : Write(s, k, op)) /\ UNCHANGED history
    BY <1>0, <1>3 DEF Write, history, OthersAsBefore, OnlyMore
<1>4. CASE Ends(s)
    BY <1>0, <1>4 DEF Ends, EndTxn, history, OthersAsBefore, OnlyMore
<1>5. CASE Commit(s)
    <2>1. PICK c : c = [file |-> engine[s].file, write_set |-> txn_of[s].write_set]
        OBVIOUS
    <2>2. c \in [file : Nat, write_set : WriteSet]
        BY <2>1, <1>0 DEF Engines, Txns
    <2>3. commits' = Append(commits, c)
        BY <1>5, <2>1 DEF Commit
    <2>4. Len(commits') = Len(commits) + 1 /\ \A i \in 1 .. Len(commits) : commits'[i] = commits[i]
        BY <2>2, <2>3, <1>0, AppendProperties
    <2>5. Len(commits) <= Len(commits')
        BY <2>4, <1>0
    <2> QED
        BY <1>0, <1>5, <2>4, <2>5 DEF Commit, CommitStart, OthersAsBefore, OnlyMore
<1>6. CASE AnswerOK(s)
    <2>1. txn_of[s].writer \in Nat
        BY <1>6, <1>0 DEF AnswerOK, Ack, RangesOK, SessionOK, Committing
    <2>2. Len(acked') = Len(acked) + 1 /\ \A i \in 1 .. Len(acked) : acked'[i] = acked[i]
        BY <2>1, <1>6, <1>0, AppendProperties DEF AnswerOK
    <2>3. Len(acked) <= Len(acked')
        BY <2>2, <1>0
    <2> QED
        BY <1>0, <1>6, <2>2, <2>3 DEF AnswerOK, Ack, EndTxn, OthersAsBefore, OnlyMore
<1>7. CASE Truncate(s) /\ UNCHANGED history
    <2>1. Len(logs') = Len(logs)
        BY <1>0, <1>7 DEF Truncate
    <2>2. OthersAsBefore(s)
        BY <1>0, <1>7 DEF Truncate, history, OthersAsBefore
    <2> QED
        BY <1>0, <1>7, <2>1, <2>2 DEF history, OnlyMore
<1>13. CASE Pass1(s) /\ UNCHANGED history
    <2>1. \A r \in Session \ {s} : engine'[r] = engine[r]
        BY <1>0, <1>13 DEF Pass1
    <2> QED
        BY <1>0, <1>13, <2>1 DEF Pass1, history, OthersAsBefore, OnlyMore
<1>8. CASE Recover(s) /\ UNCHANGED history
    <2>1. \A r \in Session \ {s} : engine'[r] = engine[r]
        BY <1>0, <1>8 DEF Recover
    <2> QED
        BY <1>0, <1>8, <2>1 DEF Recover, history, OthersAsBefore, OnlyMore
<1>9. CASE (\E k \in Key : AppendRedo(s, k)) /\ UNCHANGED history
    <2>1. Len(logs') = Len(logs)
        BY <1>0, <1>9 DEF AppendRedo, Appended
    <2> QED
        BY <1>0, <1>9, <2>1 DEF AppendRedo, history, OthersAsBefore, OnlyMore
<1>10. CASE AppendCommit(s) /\ UNCHANGED history
    <2>1. Len(logs') = Len(logs)
        BY <1>0, <1>10 DEF AppendCommit, Appended
    <2> QED
        BY <1>0, <1>10, <2>1 DEF AppendCommit, history, OthersAsBefore, OnlyMore
<1>11. CASE Reset(s)
    BY <1>0, <1>11 DEF Reset, Forget, RemoveDir, OthersAsBefore, OnlyMore
<1>12. CASE Leave(s)
    BY <1>0, <1>12 DEF Leave, Forget, history, OthersAsBefore, OnlyMore
<1> QED
    BY <1>1, <1>2, <1>3, <1>4, <1>5, <1>6, <1>7, <1>8, <1>9, <1>10, <1>11, <1>12, <1>13
    DEF Steps

\* Session s has neither engine nor transaction.
HasNothing(s) == stage[s] = "none" /\ engine[s] = NoEngine /\ txn_of[s] = NoTxn

AfterOpen(s) ==
    /\ stage[s] = "none" /\ stage'[s] = "scanned"
    /\ IF live = 0
       THEN /\ live' = Len(logs) + 1 /\ Len(logs') = Len(logs) + 1
            /\ \A f \in 1 .. Len(logs) : logs'[f] = logs[f]
            /\ logs'[live'] = << >>
       ELSE logs' = logs /\ live' = live
    /\ engine'[s].file = live' /\ engine'[s].valid_lsn = Total(logs'[live'])[WholePrefix(logs'[live'])]
    /\ \A k \in Key : engine'[s].catalog[k] = << >>
    /\ txn_of'[s] = txn_of[s] /\ own'[s] = << >> /\ wiped_before'[s] = wiped
    /\ shared' = (shared \/ NotAlone(s))
    /\ UNCHANGED <<commits, acked, wiped>>

AfterBegin(s) ==
    /\ stage[s] = "idle" /\ stage'[s] = "idle"
    /\ ~ txn_of[s].active /\ txn_of'[s].active
    /\ txn_of'[s].txn_id = engine[s].next_txn_id
    /\ txn_of'[s].start_ts + 1 = engine[s].next_ts
    /\ engine'[s].next_txn_id = engine[s].next_txn_id + 1
    /\ engine'[s].file = engine[s].file /\ engine'[s].next_ts = engine[s].next_ts
    /\ engine'[s].catalog = engine[s].catalog
    /\ UNCHANGED <<logs, live>> /\ UNCHANGED history

AfterWrite(s) ==
    /\ stage[s] = "idle" /\ stage'[s] = "idle" /\ txn_of[s].active
    /\ txn_of'[s].active = txn_of[s].active
    /\ txn_of'[s].txn_id = txn_of[s].txn_id /\ txn_of'[s].start_ts = txn_of[s].start_ts
    /\ engine'[s] = engine[s]
    /\ UNCHANGED <<logs, live>> /\ UNCHANGED history

AfterEnd(s) ==
    /\ stage[s] = "idle" /\ stage'[s] = "idle"
    /\ txn_of'[s] = NoTxn /\ engine'[s] = engine[s]
    /\ UNCHANGED <<logs, live>> /\ UNCHANGED history

AfterCommit(s) ==
    /\ stage[s] = "idle" /\ stage'[s] = "redo" /\ txn_of[s].active
    /\ ~ Conflicts(s, txn_of[s])
    /\ txn_of'[s].active /\ txn_of'[s].txn_id = txn_of[s].txn_id
    /\ txn_of'[s].commit_ts = engine[s].next_ts
    /\ txn_of'[s].writer = Len(commits) + 1
    /\ txn_of'[s].write_set = txn_of[s].write_set
    /\ engine'[s].file = engine[s].file /\ engine'[s].catalog = engine[s].catalog
    /\ engine'[s].next_ts = engine[s].next_ts + 1
    /\ engine'[s].next_txn_id = txn_of[s].txn_id + 1
    /\ engine'[s].todo = Written(txn_of[s])
    /\ Len(commits') = Len(commits) + 1
    /\ commits'[Len(commits) + 1].file = engine[s].file
    /\ commits'[Len(commits) + 1].write_set = txn_of[s].write_set
    /\ UNCHANGED <<logs, live, acked, own, wiped, wiped_before, shared>>

AfterAnswer(s) ==
    /\ stage[s] = "sync" /\ stage'[s] = "idle" /\ txn_of'[s] = NoTxn
    /\ engine'[s].file = engine[s].file /\ engine'[s].next_ts = engine[s].next_ts
    /\ engine'[s].next_txn_id = engine[s].next_txn_id
    /\ \A k \in Key :
          engine'[s].catalog[k] = WithVersion(engine[s].catalog[k], txn_of[s], k)
    /\ Len(acked') = Len(acked) + 1 /\ acked'[Len(acked) + 1] = txn_of[s].writer
    /\ Len(own'[s]) = Len(own[s]) + 1 /\ own'[s][Len(own[s]) + 1] = txn_of[s].writer
    /\ \A i \in 1 .. Len(own[s]) : own'[s][i] = own[s][i]
    /\ UNCHANGED <<logs, live, commits, wiped, wiped_before, shared>>

AfterTruncate(s) ==
    /\ stage[s] = "scanned" /\ stage'[s] = "truncated"
    /\ Len(logs') = Len(logs)
    /\ \A f \in 1 .. Len(logs) : f # engine[s].file => logs'[f] = logs[f]
    /\ logs'[engine[s].file] = CutAt(Log(s), engine[s].valid_lsn, None)
    /\ UNCHANGED <<live, engine, txn_of>> /\ UNCHANGED history

AfterPass1(s) ==
    /\ stage[s] = "truncated" /\ stage'[s] = "pass1" /\ txn_of'[s] = txn_of[s]
    /\ engine'[s].file = engine[s].file /\ engine'[s].catalog = engine[s].catalog
    /\ \E log \in ReadingsOf(s) : engine'[s].committed = CommittedTxns(log)
    /\ UNCHANGED <<logs, live>> /\ UNCHANGED history

AfterRecover(s) ==
    /\ stage[s] = "pass1" /\ stage'[s] = "idle" /\ txn_of'[s] = txn_of[s]
    /\ engine'[s].file = engine[s].file
    /\ \E log \in ReadingsOf(s) : \A k \in Key :
          engine'[s].catalog[k] = Replayed(log, engine[s].committed, k)
    /\ \A id \in DOMAIN engine[s].committed :
          /\ engine[s].committed[id] < engine'[s].next_ts
          /\ id < engine'[s].next_txn_id
    /\ UNCHANGED <<logs, live>> /\ UNCHANGED history

AfterRedo(s, k) ==
    /\ stage[s] = "redo" /\ stage'[s] = "redo" /\ txn_of'[s] = txn_of[s]
    /\ k \in engine[s].todo /\ txn_of[s].write_set[k] \in {"put", "del"}
    /\ AppendedTo(logs', s, txn_of[s].write_set[k], k)
    /\ engine'[s].file = engine[s].file /\ engine'[s].catalog = engine[s].catalog
    /\ engine'[s].next_ts = engine[s].next_ts
    /\ engine'[s].next_txn_id = engine[s].next_txn_id
    /\ engine'[s].todo = engine[s].todo \ {k}
    /\ live' = live /\ UNCHANGED history

AfterAppend(s) ==
    /\ stage[s] = "redo" /\ stage'[s] = "sync" /\ engine[s].todo = {}
    /\ AppendedTo(logs', s, "commit", None)
    /\ UNCHANGED <<live, engine, txn_of>> /\ UNCHANGED history

AfterReset(s) ==
    /\ stage[s] = "idle" /\ HasNothing(s)' /\ live' = 0
    /\ \A c \in Nat : c \in wiped' <=> \E i \in 1 .. Len(acked) : acked[i] = c
    /\ shared' = (shared \/ NotAlone(s))
    /\ UNCHANGED <<logs, commits, acked, own, wiped_before>>

AfterLeave(s) ==
    /\ stage[s] \in {"idle", "truncated", "pass1"} /\ HasNothing(s)'
    /\ UNCHANGED <<logs, live>> /\ UNCHANGED history

After(s) ==
    \/ AfterOpen(s) \/ AfterBegin(s) \/ AfterWrite(s) \/ AfterEnd(s) \/ AfterCommit(s)
    \/ AfterAnswer(s) \/ AfterTruncate(s) \/ AfterPass1(s) \/ AfterRecover(s)
    \/ (\E k \in Key : AfterRedo(s, k)) \/ AfterAppend(s)
    \/ AfterReset(s) \/ AfterLeave(s)

LEMMA Effects ==
    ASSUME TypeInv, RangesOK, NEW s \in Session, Steps(s)
    PROVE  After(s)
<1>0. /\ logs \in Seq(Seq(Rec)) /\ stage \in [Session -> Stages]
      /\ engine \in [Session -> Engines] /\ txn_of \in [Session -> Txns]
      /\ commits \in Seq([file : Nat, write_set : WriteSet])
      /\ acked \in Seq(Nat) /\ own \in [Session -> Seq(Nat)]
      /\ wiped_before \in [Session -> SUBSET Nat] /\ live \in 0 .. Len(logs)
      /\ Len(logs) \in Nat /\ Len(commits) \in Nat /\ Len(acked) \in Nat
      /\ NoEngine \in Engines /\ NoTxn \in Txns
      /\ engine[s] \in Engines /\ txn_of[s] \in Txns
    BY LenProperties, NothingIsTyped DEF TypeInv
<1>1. CASE GetEngine(s)
    <2>0. PICK n : n = Total(logs'[live'])[WholePrefix(logs'[live'])]
        OBVIOUS
    <2>1. PICK e : e = [NoEngine EXCEPT !.file = live', !.valid_lsn = n]
        OBVIOUS
    <2>2. /\ e.file = live' /\ e.valid_lsn = n
          /\ \A k \in Key : e.catalog[k] = << >>
        BY <2>1 DEF NoEngine
    <2>3. engine' = [engine EXCEPT ![s] = e]
        BY <1>1, <2>0, <2>1 DEF GetEngine, Open
    <2>4. IF live = 0
          THEN /\ live' = Len(logs) + 1 /\ Len(logs') = Len(logs) + 1
               /\ \A f \in 1 .. Len(logs) : logs'[f] = logs[f]
               /\ logs'[live'] = << >>
          ELSE logs' = logs /\ live' = live
        <3>1. CASE live = 0
            <4>1. << >> \in Seq(Rec)
                BY EmptySeq
            <4>2. logs' = Append(logs, << >>) /\ live' = Len(logs')
                BY <3>1, <1>1 DEF GetEngine, Open
            <4> QED
                BY <3>1, <4>1, <4>2, <1>0, AppendProperties
        <3>2. CASE live # 0
            BY <3>2, <1>1 DEF GetEngine, Open
        <3> QED
            BY <3>1, <3>2
    <2>5. /\ stage[s] = "none" /\ stage'[s] = "scanned" /\ engine'[s] = e
          /\ txn_of'[s] = txn_of[s] /\ own'[s] = << >> /\ wiped_before'[s] = wiped
          /\ shared' = (shared \/ NotAlone(s))
          /\ UNCHANGED <<commits, acked, wiped>>
        BY <1>0, <1>1, <2>3 DEF GetEngine, Open
    <2>6. AfterOpen(s)
        BY <2>0, <2>2, <2>4, <2>5, Zenon DEF AfterOpen
    <2> QED
        BY <2>6 DEF After
<1>2. CASE Begin(s) /\ UNCHANGED history
    <2>1. PICK t : t = BegunTxn(s)
        OBVIOUS
    <2>2. engine[s].next_txn_id \in Nat \ {0} /\ engine[s].next_ts \in Nat \ {0}
        BY <1>0 DEF Engines
    <2>3. /\ t.active /\ t.txn_id = engine[s].next_txn_id
          /\ t.start_ts = engine[s].next_ts - 1
        BY <2>1, <1>0 DEF BegunTxn, Snapshot, NoTxn
    <2>4. t.start_ts + 1 = engine[s].next_ts
        BY <2>2, <2>3
    <2>5. /\ stage[s] = "idle" /\ stage'[s] = "idle" /\ ~ txn_of[s].active
          /\ txn_of'[s] = t /\ UNCHANGED <<logs, live>> /\ UNCHANGED history
          /\ engine' = [engine EXCEPT ![s].next_txn_id = @ + 1]
        BY <1>0, <1>2, <2>1 DEF Begin
    <2>6. /\ engine'[s].next_txn_id = engine[s].next_txn_id + 1
          /\ engine'[s].file = engine[s].file /\ engine'[s].next_ts = engine[s].next_ts
          /\ engine'[s].catalog = engine[s].catalog
        BY <1>0, <2>5 DEF Engines
    <2>7. AfterBegin(s)
        BY <2>3, <2>4, <2>5, <2>6 DEF AfterBegin
    <2> QED
        BY <2>7 DEF After
<1>3. CASE (\E k \in Key, op \in Ops : Write(s, k, op)) /\ UNCHANGED history
    <2>1. PICK k \in Key, op \in Ops : Write(s, k, op)
        BY <1>3
    <2>2. /\ stage[s] = "idle" /\ txn_of[s].active
          /\ UNCHANGED <<logs, live, stage, engine>>
        BY <2>1 DEF Write, InTxn
    <2>3. PICK t \in Txns : t = txn_of[s]
        BY <1>0
    <2>4. txn_of'[s] = [t EXCEPT !.write_set[k] = op]
        BY <1>0, <2>1, <2>3 DEF Write
    <2>5. /\ txn_of'[s].active = txn_of[s].active
          /\ txn_of'[s].txn_id = txn_of[s].txn_id
          /\ txn_of'[s].start_ts = txn_of[s].start_ts
        BY <2>3, <2>4 DEF Txns
    <2>6. AfterWrite(s)
        BY <1>3, <2>2, <2>5 DEF AfterWrite
    <2> QED
        BY <2>6 DEF After
<1>4. CASE Ends(s)
    <2>1. AfterEnd(s)
        BY <1>0, <1>4 DEF Ends, EndTxn, InTxn, AfterEnd
    <2> QED
        BY <2>1 DEF After
<1>5. CASE Commit(s)
    <2>1. PICK c : c = [file |-> engine[s].file, write_set |-> txn_of[s].write_set]
        OBVIOUS
    <2>2. c \in [file : Nat, write_set : WriteSet]
        BY <2>1, <1>0 DEF Engines, Txns
    <2>3. commits' = Append(commits, c)
        BY <1>5, <2>1 DEF Commit
    <2>4. Len(commits') = Len(commits) + 1 /\ commits'[Len(commits) + 1] = c
        BY <2>2, <2>3, <1>0, AppendProperties
    <2>5. CommitStart(s, txn_of[s], Len(commits) + 1)
        BY <1>5 DEF Commit
    <2>6. /\ stage[s] = "idle" /\ stage'[s] = "redo" /\ txn_of[s].active
          /\ ~ Conflicts(s, txn_of[s]) /\ UNCHANGED <<logs, live>>
        BY <2>5, <1>0 DEF CommitStart
    <2>7. /\ txn_of'[s].active /\ txn_of'[s].txn_id = txn_of[s].txn_id
          /\ txn_of'[s].commit_ts = engine[s].next_ts
          /\ txn_of'[s].writer = Len(commits) + 1
          /\ txn_of'[s].write_set = txn_of[s].write_set
        BY <2>5, <1>0 DEF CommitStart, Txns
    <2>8. /\ engine'[s].file = engine[s].file /\ engine'[s].catalog = engine[s].catalog
          /\ engine'[s].next_ts = engine[s].next_ts + 1
          /\ engine'[s].next_txn_id = txn_of[s].txn_id + 1
          /\ engine'[s].todo = Written(txn_of[s])
        BY <2>5, <1>0 DEF CommitStart, Engines
    <2>9. UNCHANGED <<acked, own, wiped, wiped_before, shared>>
        BY <1>5 DEF Commit
    <2>10. AfterCommit(s)
        BY <2>1, <2>4, <2>6, <2>7, <2>8, <2>9 DEF AfterCommit
    <2> QED
        BY <2>10 DEF After
<1>6. CASE AnswerOK(s)
    <2>1. stage[s] = "sync" /\ txn_of[s].writer \in Nat
        BY <1>6, <1>0 DEF AnswerOK, Ack, RangesOK, SessionOK, Committing
    <2>2. Len(acked') = Len(acked) + 1 /\ acked'[Len(acked) + 1] = txn_of[s].writer
        BY <2>1, <1>6, <1>0, AppendProperties DEF AnswerOK
    <2>3. own'[s] = Append(own[s], txn_of[s].writer) /\ own[s] \in Seq(Nat)
        BY <1>6, <1>0 DEF AnswerOK
    <2>4. /\ Len(own'[s]) = Len(own[s]) + 1 /\ own'[s][Len(own[s]) + 1] = txn_of[s].writer
          /\ \A i \in 1 .. Len(own[s]) : own'[s][i] = own[s][i]
        BY <2>1, <2>3, AppendProperties
    <2>5. PICK cat : cat = [k \in Key |-> WithVersion(engine[s].catalog[k], txn_of[s], k)]
        OBVIOUS
    <2>6. engine' = [engine EXCEPT ![s].catalog = cat]
        BY <1>6, <2>5 DEF AnswerOK, Ack
    <2>7. /\ engine'[s].file = engine[s].file /\ engine'[s].next_ts = engine[s].next_ts
          /\ engine'[s].next_txn_id = engine[s].next_txn_id
          /\ engine'[s].catalog = cat
        BY <1>0, <2>6 DEF Engines
    <2>8. /\ stage'[s] = "idle" /\ txn_of'[s] = NoTxn
          /\ UNCHANGED <<logs, live, commits, wiped, wiped_before, shared>>
        BY <1>6, <1>0 DEF AnswerOK, Ack, EndTxn
    <2>9. AfterAnswer(s)
        BY <2>1, <2>2, <2>4, <2>5, <2>7, <2>8 DEF AfterAnswer
    <2> QED
        BY <2>9 DEF After
<1>7. CASE Truncate(s) /\ UNCHANGED history
    <2>1. PICK log : log = CutAt(Log(s), engine[s].valid_lsn, None)
        OBVIOUS
    <2>2. PICK f : f = engine[s].file
        OBVIOUS
    <2>3. /\ stage[s] = "scanned" /\ logs' = [logs EXCEPT ![f] = log]
          /\ stage' = [stage EXCEPT ![s] = "truncated"]
          /\ UNCHANGED <<live, engine, txn_of>> /\ UNCHANGED history
        BY <1>7, <2>1, <2>2 DEF Truncate, Log
    <2>4. f \in 1 .. Len(logs)
        BY <2>2, <2>3 DEF RangesOK, SessionOK, HasEngine
    <2>5. /\ Len(logs') = Len(logs) /\ logs'[f] = log
          /\ \A g \in 1 .. Len(logs) : g # f => logs'[g] = logs[g]
        BY <2>3, <2>4, <1>0
    <2>6. stage'[s] = "truncated"
        BY <2>3, <1>0
    <2>7. AfterTruncate(s)
        BY <2>1, <2>2, <2>3, <2>5, <2>6 DEF AfterTruncate
    <2> QED
        BY <2>7 DEF After
<1>13. CASE Pass1(s) /\ UNCHANGED history
    <2>1. PICK log \in ReadingsOf(s) :
             engine' = [engine EXCEPT ![s].committed = CommittedTxns(log)]
        BY <1>13 DEF Pass1
    <2>2. /\ engine'[s].file = engine[s].file /\ engine'[s].catalog = engine[s].catalog
          /\ engine'[s].committed = CommittedTxns(log)
        BY <2>1, <1>0 DEF Engines
    <2>3. /\ stage[s] = "truncated" /\ stage'[s] = "pass1" /\ txn_of'[s] = txn_of[s]
          /\ UNCHANGED <<logs, live>> /\ UNCHANGED history
        BY <1>13, <1>0 DEF Pass1
    <2>4. AfterPass1(s)
        BY <2>2, <2>3 DEF AfterPass1
    <2> QED
        BY <2>4 DEF After
<1>8. CASE Recover(s) /\ UNCHANGED history
    <2>0. PICK log \in ReadingsOf(s) : engine' = [engine EXCEPT ![s] = Recovered(engine[s], log)]
        BY <1>8 DEF Recover
    <2>1. PICK e : e = Recovered(engine[s], log)
        OBVIOUS
    <2>2. PICK found \in Maps : found = engine[s].committed
        BY <1>0 DEF Engines
    <2>3. PICK T, D : T = {found[i] : i \in DOMAIN found} /\ D = DOMAIN found
        OBVIOUS
    <2>4. (\A x \in T : x < PastAll(T)) /\ (\A x \in D : x < PastAll(D))
        <3>1. PICK b \in Nat : \A i \in DOMAIN found : i <= b /\ found[i] <= b
            BY <2>2 DEF Maps
        <3>2. PICK N \in SUBSET Nat : found \in [N -> Nat]
            BY <2>2 DEF Maps
        <3>3. T \in SUBSET (0 .. b) /\ D \in SUBSET (0 .. b)
            <4>1. \A i \in DOMAIN found : i \in Nat /\ found[i] \in Nat
                BY <3>2
            <4> QED
                BY <4>1, <2>3, <3>1
        <3> QED
            BY <3>1, <3>3, PastAllFacts
    <2>5. PICK ts, nid : ts = PastAll(T) /\ nid = PastAll(D)
        OBVIOUS
    <2>6. PICK cat : cat = [k \in Key |-> Replayed(log, found, k)]
        OBVIOUS
    <2>7. e = [engine[s] EXCEPT !.valid_lsn = 0, !.committed = << >>,
                   !.catalog = cat, !.next_ts = ts, !.next_txn_id = nid]
        BY <2>1, <2>2, <2>3, <2>5, <2>6, SMT DEF Recovered
    <2>8. e.file = engine[s].file /\ e.catalog = cat /\ e.next_ts = ts /\ e.next_txn_id = nid
        BY <2>7, <1>0 DEF Engines
    <2>9. /\ stage[s] = "pass1" /\ stage'[s] = "idle" /\ txn_of'[s] = txn_of[s]
          /\ engine'[s] = e
          /\ UNCHANGED <<logs, live>> /\ UNCHANGED history
        BY <1>8, <2>0, <2>1, <1>0 DEF Recover
    <2>10. \A id \in DOMAIN found : found[id] < ts /\ id < nid
        BY <2>3, <2>4, <2>5
    <2>11. AfterRecover(s)
        BY <2>2, <2>6, <2>8, <2>9, <2>10 DEF AfterRecover
    <2> QED
        BY <2>11 DEF After
<1>9. CASE (\E k \in Key : AppendRedo(s, k)) /\ UNCHANGED history
    <2>1. PICK k \in Key : AppendRedo(s, k)
        BY <1>9
    <2>2. PICK type : type = txn_of[s].write_set[k]
        OBVIOUS
    <2>9. PICK size \in Sizes : logs' = Appended(s, type, k, size)
        BY <2>1, <2>2 DEF AppendRedo
    <2>3. /\ stage[s] = "redo" /\ k \in engine[s].todo
          /\ engine' = [engine EXCEPT ![s].todo = @ \ {k}]
          /\ UNCHANGED <<live, stage, txn_of>> /\ UNCHANGED history
        BY <1>9, <2>1, <2>2 DEF AppendRedo
    <2>4. type \in {"put", "del"}
        <3>1. type # "none"
            BY <2>2, <2>3 DEF RangesOK, SessionOK, Written
        <3> QED
            BY <2>2, <3>1, <1>0 DEF Txns, WriteSet
    <2>5. AppendedTo(logs', s, type, k)
        <3>1. size \in Nat \ {0} /\ k \in Key \cup {None} /\ Committing(s)
            BY <2>3, SharedDirAssumption DEF Committing
        <3> QED
            BY <2>4, <2>9, <3>1, AppendedFacts
    <2>6. /\ engine'[s].file = engine[s].file /\ engine'[s].catalog = engine[s].catalog
          /\ engine'[s].next_ts = engine[s].next_ts
          /\ engine'[s].next_txn_id = engine[s].next_txn_id
          /\ engine'[s].todo = engine[s].todo \ {k}
        BY <2>3, <1>0 DEF Engines
    <2>7. AfterRedo(s, k)
        BY <2>2, <2>3, <2>4, <2>5, <2>6 DEF AfterRedo
    <2> QED
        BY <2>7 DEF After
<1>10. CASE AppendCommit(s) /\ UNCHANGED history
    <2>1. /\ stage[s] = "redo" /\ logs' = Appended(s, "commit", None, CommitSize)
          /\ engine[s].todo = {} /\ stage' = [stage EXCEPT ![s] = "sync"]
          /\ UNCHANGED <<live, engine, txn_of>> /\ UNCHANGED history
        BY <1>10 DEF AppendCommit
    <2>2. AppendedTo(logs', s, "commit", None)
        <3>1. CommitSize \in Nat \ {0}
            BY DEF CommitSize
        <3> QED
            BY <2>1, <3>1, AppendedFacts DEF Committing
    <2>3. AfterAppend(s)
        BY <1>0, <2>1, <2>2 DEF AfterAppend
    <2> QED
        BY <2>3 DEF After
<1>11. CASE Reset(s)
    <2>1. \A c \in Nat : c \in Range(acked) <=> \E i \in 1 .. Len(acked) : acked[i] = c
        <3>1. DOMAIN acked = 1 .. Len(acked)
            BY <1>0
        <3> QED
            BY <3>1 DEF Range
    <2>2. HasNothing(s)'
        BY <1>0, <1>11 DEF Reset, Forget, HasNothing
    <2>3. AfterReset(s)
        BY <1>11, <2>1, <2>2 DEF Reset, RemoveDir, AfterReset
    <2> QED
        BY <2>3 DEF After
<1>12. CASE Leave(s)
    <2>1. HasNothing(s)'
        BY <1>0, <1>12 DEF Leave, Forget, HasNothing
    <2>2. AfterLeave(s)
        BY <1>12, <2>1 DEF Leave, RecoverRaises, AfterLeave
    <2> QED
        BY <2>2 DEF After
<1> QED
    BY <1>1, <1>2, <1>3, <1>4, <1>5, <1>6, <1>7, <1>8, <1>9, <1>10, <1>11, <1>12, <1>13
    DEF Steps

-----------------------------------------------------------------------------
(* The invariant is kept.  First the ranges.                               *)

LEMMA InitialRanges ==
    ASSUME ConsoleInit
    PROVE  RangesOK
<1>1. << >> \in Seq(Nat) /\ Len(<< >>) = 0
    BY EmptySeq
<1>2. NoEngine.catalog = [k \in Key |-> << >>]
    BY DEF NoEngine
<1> QED
    BY <1>1, <1>2
    DEF ConsoleInit, Init, RangesOK, SessionOK, HasEngine, Serving, Committing

LEMMA RangesStep ==
    ASSUME TypeInv, TypeInv', RangesOK, NEW s \in Session,
           After(s), OthersAsBefore(s), OnlyMore
    PROVE  RangesOK'
<1>0. /\ Len(logs) \in Nat /\ Len(commits) \in Nat /\ Len(acked) \in Nat
      /\ Len(logs') \in Nat /\ Len(commits') \in Nat /\ live \in 0 .. Len(logs)
      /\ stage[s] \in Stages /\ stage'[s] \in Stages /\ Len(acked') \in Nat
    BY LenProperties DEF TypeInv
<1>1. ASSUME NEW r \in Session, r # s
      PROVE  SessionOK(r)'
    <2>1. SessionOK(r)
        BY DEF RangesOK
    <2>2. /\ 1 .. Len(logs) \subseteq 1 .. Len(logs')
          /\ 1 .. Len(commits) \subseteq 1 .. Len(commits')
        BY <1>0 DEF OnlyMore
    <2>3. /\ engine'[r] = engine[r] /\ txn_of'[r] = txn_of[r] /\ stage'[r] = stage[r]
          /\ own'[r] = own[r] /\ wiped_before'[r] = wiped_before[r]
        BY <1>1 DEF OthersAsBefore
    <2> QED
        BY <2>1, <2>2, <2>3 DEF SessionOK, HasEngine, Committing, Serving, Written
<1>2. SessionOK(s)'
    <2>0. SessionOK(s) /\ Len(own[s]) \in Nat
        BY LenProperties DEF RangesOK, TypeInv
    <2> USE DEF HasEngine, Committing, Serving
    <2>1. CASE AfterOpen(s)
        <3>1. live' \in 1 .. Len(logs')
            BY <2>1, <1>0 DEF AfterOpen
        <3>2. Len(own'[s]) = 0 /\ txn_of'[s] = NoTxn
            BY <2>0, <2>1, EmptySeq DEF AfterOpen, SessionOK
        <3>3. ASSUME NEW c \in wiped
              PROVE  c \in 1 .. Len(commits)
            <4>1. PICK i \in 1 .. Len(acked) : acked[i] = c
                BY DEF RangesOK
            <4> QED
                BY <4>1 DEF RangesOK
        <3> QED
            BY <2>1, <3>1, <3>2, <3>3 DEF AfterOpen, SessionOK
    <2>2. CASE AfterBegin(s) \/ AfterWrite(s) \/ AfterEnd(s)
        BY <2>0, <2>2 DEF AfterBegin, AfterWrite, AfterEnd, SessionOK, history
    <2>3. CASE AfterCommit(s)
        <3>1. /\ Written(txn_of[s])' = Written(txn_of[s])
              /\ txn_of'[s].writer \in 1 .. Len(commits')
              /\ 1 .. Len(commits) \subseteq 1 .. Len(commits')
            BY <2>3, <1>0 DEF AfterCommit, Written
        <3> QED
            BY <2>0, <2>3, <3>1 DEF AfterCommit, SessionOK
    <2>4. CASE AfterAnswer(s)
        <3>1. ASSUME NEW i \in 1 .. Len(own'[s])
              PROVE  own'[s][i] \in 1 .. Len(commits)
            <4>1. CASE i = Len(own[s]) + 1
                BY <4>1, <2>0, <2>4 DEF AfterAnswer, SessionOK
            <4>2. CASE i # Len(own[s]) + 1
                <5>1. i \in 1 .. Len(own[s])
                    BY <4>2, <2>0, <2>4 DEF AfterAnswer
                <5> QED
                    BY <5>1, <2>0, <2>4 DEF AfterAnswer, SessionOK
            <4> QED
                BY <4>1, <4>2
        <3> QED
            BY <2>0, <2>4, <3>1 DEF AfterAnswer, SessionOK
    <2>5. CASE AfterTruncate(s) \/ AfterPass1(s) \/ AfterRecover(s)
        BY <2>0, <2>5 DEF AfterTruncate, AfterPass1, AfterRecover, SessionOK, history
    <2>6. CASE \E k \in Key : AfterRedo(s, k)
        BY <2>0, <2>6 DEF AfterRedo, AppendedTo, SessionOK, Written, history
    <2>7. CASE AfterAppend(s)
        BY <2>0, <2>7 DEF AfterAppend, AppendedTo, SessionOK, history
    <2>8. CASE AfterReset(s) \/ AfterLeave(s)
        <3>1. NoEngine.catalog = [k \in Key |-> << >>]
            BY DEF NoEngine
        <3> QED
            BY <2>0, <2>8, <3>1 DEF AfterReset, AfterLeave, HasNothing, SessionOK, history
    <2> QED
        BY <2>1, <2>2, <2>3, <2>4, <2>5, <2>6, <2>7, <2>8 DEF After
<1>3. ASSUME NEW i \in 1 .. Len(acked')
      PROVE  acked'[i] \in 1 .. Len(commits')
    <2>1. 1 .. Len(commits) \subseteq 1 .. Len(commits')
        BY <1>0 DEF OnlyMore
    <2>2. CASE AfterAnswer(s)
        <3>1. SessionOK(s) /\ txn_of[s].writer \in 1 .. Len(commits)
            BY <2>2 DEF AfterAnswer, RangesOK, SessionOK, Committing
        <3>2. CASE i = Len(acked) + 1
            BY <3>1, <3>2, <2>1, <2>2 DEF AfterAnswer
        <3>3. CASE i # Len(acked) + 1
            <4>1. i \in 1 .. Len(acked)
                BY <3>3, <2>2, <1>0 DEF AfterAnswer
            <4> QED
                BY <4>1, <2>1 DEF OnlyMore, RangesOK
        <3> QED
            BY <3>2, <3>3
    <2>3. CASE ~ AfterAnswer(s)
        <3>1. acked' = acked
            BY <2>3 DEF After, AfterOpen, AfterBegin, AfterWrite, AfterEnd, AfterCommit,
                   AfterTruncate, AfterPass1, AfterRecover, AfterRedo, AfterAppend, AfterReset,
                   AfterLeave, history
        <3> QED
            BY <3>1, <2>1 DEF RangesOK
    <2> QED
        BY <2>2, <2>3
<1>4. ASSUME NEW c \in wiped'
      PROVE  \E i \in 1 .. Len(acked') : acked'[i] = c
    <2>1. c \in Nat
        BY DEF TypeInv
    <2>2. \E i \in 1 .. Len(acked) : acked[i] = c
        BY <2>1 DEF After, AfterOpen, AfterBegin, AfterWrite, AfterEnd, AfterCommit,
               AfterAnswer, AfterTruncate, AfterPass1, AfterRecover, AfterRedo, AfterAppend,
               AfterReset, AfterLeave, history, RangesOK
    <2> QED
        BY <2>2, <1>0 DEF OnlyMore
<1> QED
    BY <1>1, <1>2, <1>3, <1>4 DEF RangesOK

-----------------------------------------------------------------------------
(* The files.                                                              *)

LEMMA InitialFiles ==
    ASSUME ConsoleInit
    PROVE  FileInv
<1>1. Len(<< >>) = 0
    BY EmptySeq
<1>2. NoEngine.catalog = [k \in Key |-> << >>]
    BY DEF NoEngine
<1> QED
    BY <1>1, <1>2
    DEF ConsoleInit, Init, FileInv, LogsKeepToFiles, KeepsToFile, HasEngine, Committing

LEMMA FileStep ==
    ASSUME TypeInv, TypeInv', RangesOK, RangesOK', FileInv, NEW s \in Session,
           After(s), OthersAsBefore(s), OnlyMore
    PROVE  FileInv'
<1>0. /\ Len(logs) \in Nat /\ Len(commits) \in Nat /\ Len(acked) \in Nat
      /\ Len(logs') \in Nat /\ Len(commits') \in Nat /\ live \in 0 .. Len(logs)
      /\ stage[s] \in Stages /\ stage'[s] \in Stages
      /\ logs \in Seq(Seq(Rec))
      /\ SessionOK(s) /\ KeepsToFile(s) /\ LogsKeepToFiles
    BY LenProperties DEF TypeInv, RangesOK, FileInv
<1> DEFINE Now(c, f) == c \in 1 .. Len(commits') /\ commits'[c].file = f
<1>1. /\ \A c, f : IsIn(c, f) => Now(c, f)
      /\ \A c, f : Now(c, f) /\ c \in 1 .. Len(commits) => IsIn(c, f)
    BY <1>0 DEF IsIn, OnlyMore
<1>a. LogsKeepToFiles' <=> \A f \in 1 .. Len(logs') : \A i \in 1 .. Len(logs'[f]) :
                               ~ IsTorn(logs'[f][i]) => Now(logs'[f][i].writer, f)
    BY DEF LogsKeepToFiles, IsIn
<1>b. ASSUME NEW r \in Session
      PROVE  KeepsToFile(r)' <=>
                /\ Committing(r)' =>
                      /\ Now(txn_of'[r].writer, engine'[r].file)
                      /\ commits'[txn_of'[r].writer].write_set = txn_of'[r].write_set
                /\ \A k \in Key : \A i \in 1 .. Len(engine'[r].catalog[k]) :
                      \/ Now(engine'[r].catalog[k][i].writer, engine'[r].file)
                      \/ engine'[r].catalog[k][i].writer = None
                /\ HasEngine(r)' =>
                      \A c \in wiped_before'[r] : ~ Now(c, engine'[r].file)
    BY DEF KeepsToFile, IsIn
<1>c. (\A c \in wiped' : ~ Now(c, live')) => (\A c \in wiped : ~ IsIn(c, live))'
    BY DEF IsIn
<1> HIDE DEF Now
<1>2. ASSUME NEW c \in 1 .. Len(commits')
      PROVE  commits'[c].file \in 1 .. Len(logs')
    <2>1. 1 .. Len(logs) \subseteq 1 .. Len(logs')
        BY <1>0 DEF OnlyMore
    <2>2. CASE c \in 1 .. Len(commits)
        BY <2>1, <2>2 DEF OnlyMore, FileInv
    <2>3. CASE c \notin 1 .. Len(commits)
        <3>1. AfterCommit(s)
            BY <2>3 DEF After, AfterOpen, AfterBegin, AfterWrite, AfterEnd, AfterAnswer,
               AfterTruncate, AfterPass1, AfterRecover, AfterRedo, AfterAppend, AfterReset,
               AfterLeave, history
        <3>2. c = Len(commits) + 1
            BY <2>3, <3>1, <1>0 DEF AfterCommit
        <3> QED
            BY <2>1, <3>1, <3>2, <1>0 DEF AfterCommit, SessionOK, HasEngine
    <2> QED
        BY <2>2, <2>3
<1>3. LogsKeepToFiles'
    <2>1. CASE AfterOpen(s)
        <3>1. CASE live = 0
            <4>1. ASSUME NEW f \in 1 .. Len(logs'), NEW i \in 1 .. Len(logs'[f]),
                         ~ IsTorn(logs'[f][i])
                  PROVE  Now(logs'[f][i].writer, f)
                <5>1. CASE f = Len(logs) + 1
                    BY <5>1, <4>1, <3>1, <2>1, EmptySeq DEF AfterOpen
                <5>2. CASE f # Len(logs) + 1
                    <6>1. f \in 1 .. Len(logs)
                        BY <5>2, <3>1, <2>1, <1>0 DEF AfterOpen
                    <6>2. logs'[f] = logs[f]
                        BY <6>1, <3>1, <2>1 DEF AfterOpen
                    <6> QED
                        BY <6>1, <6>2, <4>1, <1>0, <1>1 DEF LogsKeepToFiles
                <5> QED
                    BY <5>1, <5>2
            <4> QED
                BY <4>1, <1>a
        <3>2. CASE live # 0
            BY <3>2, <2>1, <1>0, <1>1, <1>a DEF AfterOpen, LogsKeepToFiles
        <3> QED
            BY <3>1, <3>2
    <2>2. CASE AfterTruncate(s)
        <3>1. PICK f : f = engine[s].file
            OBVIOUS
        <3>2. f \in 1 .. Len(logs)
            BY <3>1, <2>2, <1>0 DEF AfterTruncate, SessionOK, HasEngine
        <3>3. ASSUME NEW i \in 1 .. Len(logs'[f]), ~ IsTorn(logs'[f][i])
              PROVE  Now(logs'[f][i].writer, f)
            <4>1. PICK n \in Nat : n = engine[s].valid_lsn
                BY DEF TypeInv, Engines
            <4>2. PICK new : new = CutAt(logs[f], n, None)
                OBVIOUS
            <4>3. logs'[f] = new
                BY <3>1, <4>1, <4>2, <2>2 DEF AfterTruncate, Log
            <4>4. \A j \in 1 .. Len(new) :
                     \/ j <= Len(logs[f]) /\ new[j] = logs[f][j]
                     \/ IsTorn(new[j])
                <5>1. PICK log \in Seq(Rec) : log = logs[f]
                    BY <3>2, <1>0, ElementOfSeq
                <5>2. \A j \in 1 .. Len(CutAt(log, n, None)) :
                         \/ j <= Len(log) /\ CutAt(log, n, None)[j] = log[j]
                         \/ IsTorn(CutAt(log, n, None)[j])
                    <6>1. PICK K, W : Rec = LogRecord(K, W) /\ None \in K /\ None \in W
                        BY DEF Rec, Name
                    <6>2. log \in Seq(LogRecord(K, W)) /\ n \in Nat
                        BY <4>1, <5>1, <6>1
                    <6> QED
                        BY <6>1, <6>2, CutFacts
                <5> QED
                    BY <4>2, <5>1, <5>2
            <4>5. i \in 1 .. Len(logs[f]) /\ logs'[f][i] = logs[f][i]
                <5>1. Len(logs[f]) \in Nat
                    BY <3>2, <1>0, ElementOfSeq, LenProperties
                <5>2. i \in 1 .. Len(new) /\ ~ IsTorn(new[i])
                    BY <3>3, <4>3
                <5>3. i <= Len(logs[f]) /\ new[i] = logs[f][i] /\ 1 <= i /\ i \in Int
                    BY <4>4, <5>2
                <5> QED
                    BY <4>3, <5>1, <5>3
            <4> QED
                BY <4>5, <3>2, <3>3, <1>0, <1>1 DEF LogsKeepToFiles
        <3>4. Len(logs') = Len(logs) /\ \A g \in 1 .. Len(logs) : g # f => logs'[g] = logs[g]
            BY <3>1, <2>2 DEF AfterTruncate
        <3>5. ASSUME NEW g \in 1 .. Len(logs), g # f, NEW i \in 1 .. Len(logs'[g]),
                     ~ IsTorn(logs'[g][i])
              PROVE  Now(logs'[g][i].writer, g)
            BY <3>4, <3>5, <1>0, <1>1 DEF LogsKeepToFiles
        <3> QED
            BY <3>3, <3>4, <3>5, <1>a
    <2>3. ASSUME NEW type, NEW k, AppendedTo(logs', s, type, k), Committing(s)
          PROVE  LogsKeepToFiles'
        <3>1. PICK f : f = engine[s].file
            OBVIOUS
        <3>2. PICK n \in Nat : n = Len(logs[f])
            BY <3>1, <2>3 DEF AppendedTo
        <3>3. /\ Len(logs') = Len(logs) /\ Len(logs'[f]) = n + 1
              /\ logs'[f][n + 1].writer = txn_of[s].writer
              /\ \A i \in 1 .. n : logs'[f][i] = logs[f][i]
              /\ \A g \in 1 .. Len(logs) : g # f => logs'[g] = logs[g]
            BY <3>1, <3>2, <2>3 DEF AppendedTo, IsRecordOf
        <3>4. f \in 1 .. Len(logs) /\ IsIn(txn_of[s].writer, f)
            BY <3>1, <2>3, <1>0 DEF SessionOK, KeepsToFile, Committing, HasEngine
        <3>5. ASSUME NEW i \in 1 .. (n + 1), ~ IsTorn(logs'[f][i])
              PROVE  Now(logs'[f][i].writer, f)
            <4>1. CASE i = n + 1
                BY <4>1, <3>3, <3>4, <1>1
            <4>2. CASE i # n + 1
                <5>1. i \in 1 .. Len(logs[f])
                    BY <4>2, <3>2
                <5> QED
                    BY <5>1, <3>2, <3>3, <3>4, <3>5, <1>0, <1>1 DEF LogsKeepToFiles
            <4> QED
                BY <4>1, <4>2
        <3>6. ASSUME NEW g \in 1 .. Len(logs), g # f, NEW i \in 1 .. Len(logs'[g]),
                     ~ IsTorn(logs'[g][i])
              PROVE  Now(logs'[g][i].writer, g)
            BY <3>3, <3>6, <1>0, <1>1 DEF LogsKeepToFiles
        <3> QED
            BY <3>3, <3>5, <3>6, <1>a
    <2>4. CASE (\E k \in Key : AfterRedo(s, k)) \/ AfterAppend(s)
        BY <2>3, <2>4 DEF AfterRedo, AfterAppend, Committing
    <2>5. CASE logs' = logs
        BY <2>5, <1>0, <1>1, <1>a DEF LogsKeepToFiles
    <2> QED
        BY <2>1, <2>2, <2>4, <2>5 DEF After, AfterBegin, AfterWrite, AfterEnd,
           AfterCommit, AfterAnswer, AfterPass1, AfterRecover, AfterReset, AfterLeave
<1>4. \A c \in wiped' : ~ Now(c, live')
    <2>0. wiped \subseteq 1 .. Len(commits)
        BY DEF RangesOK
    <2>1. CASE AfterOpen(s)
        <3>1. CASE live = 0
            <4>1. \A c : ~ IsIn(c, Len(logs) + 1)
                BY <1>0 DEF FileInv, IsIn
            <4> QED
                BY <4>1, <3>1, <2>0, <2>1, <1>1 DEF AfterOpen
        <3>2. CASE live # 0
            BY <3>2, <2>0, <2>1, <1>1 DEF AfterOpen, FileInv
        <3> QED
            BY <3>1, <3>2
    <2>2. CASE AfterReset(s)
        <3>1. \A c : ~ Now(c, 0)
            BY <2>2, <1>0 DEF AfterReset, FileInv, Now
        <3> QED
            BY <3>1, <2>2 DEF AfterReset
    <2>3. CASE live' = live /\ wiped' = wiped
        BY <2>0, <2>3, <1>1 DEF FileInv
    <2> QED
        BY <2>1, <2>2, <2>3 DEF After, AfterBegin, AfterWrite, AfterEnd, AfterCommit,
           AfterAnswer, AfterTruncate, AfterPass1, AfterRecover, AfterRedo, AfterAppend, AfterLeave,
           history
<1>5. ASSUME NEW r \in Session, r # s
      PROVE  KeepsToFile(r)'
    <2>1. KeepsToFile(r) /\ SessionOK(r)
        BY DEF FileInv, RangesOK
    <2>2. /\ engine'[r] = engine[r] /\ txn_of'[r] = txn_of[r] /\ stage'[r] = stage[r]
          /\ wiped_before'[r] = wiped_before[r]
        BY <1>5 DEF OthersAsBefore
    <2>3. Committing(r) => commits'[txn_of[r].writer] = commits[txn_of[r].writer]
        BY <2>1 DEF SessionOK, OnlyMore
    <2> QED
        BY <2>1, <2>2, <2>3, <1>1, <1>b, SMTT(90) DEF KeepsToFile, SessionOK, Committing, HasEngine
<1>6. KeepsToFile(s)'
    <2> USE DEF HasEngine, Committing
    <2>0. ASSUME HasEngine(s), wiped_before'[s] = wiped_before[s],
                 engine'[s].file = engine[s].file
          PROVE  /\ \A c \in wiped_before'[s] : ~ Now(c, engine'[s].file)
                 /\ \A k \in Key : \A i \in 1 .. Len(engine[s].catalog[k]) :
                       \/ Now(engine[s].catalog[k][i].writer, engine[s].file)
                       \/ engine[s].catalog[k][i].writer = None
                 /\ IsIn(txn_of[s].writer, engine[s].file) =>
                       /\ Now(txn_of[s].writer, engine[s].file)
                       /\ commits'[txn_of[s].writer] = commits[txn_of[s].writer]
        <3>1. \A c \in wiped_before[s] : c \in 1 .. Len(commits) /\ ~ IsIn(c, engine[s].file)
            BY <2>0, <1>0 DEF SessionOK, KeepsToFile
        <3>2. \A k \in Key : \A i \in 1 .. Len(engine[s].catalog[k]) :
                 \/ IsIn(engine[s].catalog[k][i].writer, engine[s].file)
                 \/ engine[s].catalog[k][i].writer = None
            BY <1>0 DEF KeepsToFile
        <3>3. IsIn(txn_of[s].writer, engine[s].file) =>
                 commits'[txn_of[s].writer] = commits[txn_of[s].writer]
            BY DEF OnlyMore, IsIn
        <3>4. \A c \in wiped_before'[s] : ~ Now(c, engine'[s].file)
            BY <2>0, <3>1, <1>1
        <3> QED
            BY <3>2, <3>3, <3>4, <1>1
    <2>1. CASE AfterOpen(s)
        <3>1. \A k \in Key : Len(engine'[s].catalog[k]) = 0
            BY <2>1, EmptySeq DEF AfterOpen
        <3> QED
            BY <3>1, <2>1, <1>4, <1>b DEF AfterOpen, KeepsToFile
    <2>2. CASE AfterBegin(s) \/ AfterWrite(s) \/ AfterEnd(s)
        <3>1. /\ HasEngine(s) /\ ~ Committing(s)' /\ wiped_before'[s] = wiped_before[s]
              /\ engine'[s].file = engine[s].file /\ engine'[s].catalog = engine[s].catalog
            BY <2>2 DEF AfterBegin, AfterWrite, AfterEnd, history
        <3> QED
            BY <2>0, <3>1, <1>b
    <2>3. CASE AfterCommit(s)
        <3>1. Now(Len(commits) + 1, engine[s].file)
            BY <2>3, <1>0 DEF AfterCommit, Now
        <3>2. \A k \in Key : \A i \in 1 .. Len(engine'[s].catalog[k]) :
                 \/ Now(engine'[s].catalog[k][i].writer, engine'[s].file)
                 \/ engine'[s].catalog[k][i].writer = None
            BY <2>3, <1>0, <1>1 DEF AfterCommit, KeepsToFile
        <3>3. \A c \in wiped_before'[s] : ~ Now(c, engine'[s].file)
            BY <2>3, <1>0, <1>1 DEF AfterCommit, KeepsToFile, SessionOK
        <3>4. /\ Now(txn_of'[s].writer, engine'[s].file)
              /\ commits'[txn_of'[s].writer].write_set = txn_of'[s].write_set
            BY <3>1, <2>3 DEF AfterCommit
        <3> QED
            BY <3>2, <3>3, <3>4, <1>b
    <2>4. CASE AfterAnswer(s)
        <3>1. ASSUME NEW k \in Key, NEW i \in 1 .. Len(engine'[s].catalog[k])
              PROVE  \/ IsIn(engine'[s].catalog[k][i].writer, engine[s].file)
                     \/ engine'[s].catalog[k][i].writer = None
            <4>1. engine[s].catalog[k] \in Seq(Version) /\ txn_of[s] \in Txns
                BY DEF TypeInv, Engines
            <4>2. PICK list, new : /\ list = engine[s].catalog[k]
                                   /\ new = WithVersion(list, txn_of[s], k)
                OBVIOUS
            <4>3. engine'[s].catalog[k] = new
                BY <4>2, <2>4 DEF AfterAnswer
            <4>4. PICK v : v = NewVersion(txn_of[s].commit_ts, txn_of[s].writer,
                                          txn_of[s].write_set[k] = "del")
                OBVIOUS
            <4>5. v \in Version /\ v.writer = txn_of[s].writer
                BY <4>1, <4>4 DEF NewVersion, Version, VersionBy, Txns
            <4>6. new = list \/ Grown(new, list, v, Name)
                BY <4>1, <4>2, <4>4, <4>5, InstallFacts DEF WithVersion, Version
            <4>7. CASE new = list
                BY <4>2, <4>3, <4>7, <1>0 DEF KeepsToFile
            <4>8. CASE Grown(new, list, v, Name)
                <5>1. Len(list) \in Nat
                    BY <4>1, <4>2, LenProperties
                <5>2. CASE i = Len(list) + 1
                    BY <5>2, <4>3, <4>5, <4>8, <2>4, <1>0
                    DEF Grown, KeepsToFile, AfterAnswer
                <5>3. CASE i # Len(list) + 1
                    <6>1. i \in 1 .. Len(list) /\ new[i].writer = list[i].writer
                        BY <5>1, <5>3, <4>3, <4>8 DEF Grown
                    <6> QED
                        BY <6>1, <4>2, <4>3, <1>0 DEF KeepsToFile
                <5> QED
                    BY <5>2, <5>3
            <4> QED
                BY <4>6, <4>7, <4>8
        <3> QED
            <4>1. /\ HasEngine(s) /\ ~ Committing(s)' /\ wiped_before'[s] = wiped_before[s]
                  /\ engine'[s].file = engine[s].file
                BY <2>4 DEF AfterAnswer
            <4>2. \A k \in Key : \A i \in 1 .. Len(engine'[s].catalog[k]) :
                     \/ Now(engine'[s].catalog[k][i].writer, engine'[s].file)
                     \/ engine'[s].catalog[k][i].writer = None
                BY <3>1, <4>1, <1>1
            <4> QED
                BY <2>0, <4>1, <4>2, <1>b
    <2>5. CASE AfterTruncate(s)
        <3>1. /\ HasEngine(s) /\ ~ Committing(s)' /\ wiped_before'[s] = wiped_before[s]
              /\ engine' = engine
            BY <2>5 DEF AfterTruncate, history
        <3> QED
            BY <2>0, <3>1, <1>b
    <2>10. CASE AfterPass1(s)
        <3>1. /\ HasEngine(s) /\ ~ Committing(s)' /\ wiped_before'[s] = wiped_before[s]
              /\ engine'[s].file = engine[s].file /\ engine'[s].catalog = engine[s].catalog
            BY <2>10 DEF AfterPass1, history
        <3> QED
            BY <2>0, <3>1, <1>b
    <2>6. CASE AfterRecover(s)
        <3>1. ASSUME NEW k \in Key, NEW i \in 1 .. Len(engine'[s].catalog[k])
              PROVE  \/ IsIn(engine'[s].catalog[k][i].writer, engine[s].file)
                     \/ engine'[s].catalog[k][i].writer = None
            <4>1. PICK f : f = engine[s].file
                OBVIOUS
            <4>2. f \in 1 .. Len(logs)
                BY <4>1, <2>6, <1>0 DEF AfterRecover, SessionOK
            <4>3. PICK log \in ReadingsOf(s) :
                     engine'[s].catalog[k] = Replayed(log, engine[s].committed, k)
                BY <2>6 DEF AfterRecover
            <4>4. PICK list, found : /\ list = Replayed(log, found, k)
                                     /\ found = engine[s].committed
                OBVIOUS
            <4>5. /\ log \in Seq(Rec)
                  /\ \A m \in 1 .. Len(log) :
                        /\ ~ IsTorn(log[m])
                        /\ \/ \E j \in 1 .. Len(logs[f]) : log[m] = logs[f][j]
                           \/ log[m].writer = None
                <5>1. HasEngine(s)
                    BY <2>6 DEF AfterRecover
                <5> QED
                    BY <5>1, <4>1, ReadingIsTyped DEF Log
            <4>6. Rebuilt(list, log, Len(log), found, k, Name)
                BY <4>4, <4>5, ReplayedFacts DEF Rec
            <4>7. PICK m \in 1 .. Len(log) : list[i].writer = log[m].writer
                BY <4>3, <4>4, <4>6 DEF Rebuilt
            <4>8. CASE log[m].writer = None
                BY <4>3, <4>4, <4>7, <4>8
            <4>9. CASE \E j \in 1 .. Len(logs[f]) : log[m] = logs[f][j]
                <5>1. PICK j \in 1 .. Len(logs[f]) : log[m] = logs[f][j]
                    BY <4>9
                <5>2. IsIn(logs[f][j].writer, f)
                    BY <5>1, <4>2, <4>5, <1>0 DEF LogsKeepToFiles
                <5> QED
                    BY <4>1, <4>3, <4>4, <4>7, <5>1, <5>2
            <4> QED
                BY <4>5, <4>8, <4>9
        <3> QED
            <4>1. /\ HasEngine(s) /\ ~ Committing(s)' /\ wiped_before'[s] = wiped_before[s]
                  /\ engine'[s].file = engine[s].file
                BY <2>6 DEF AfterRecover, history
            <4>2. \A k \in Key : \A i \in 1 .. Len(engine'[s].catalog[k]) :
                     \/ Now(engine'[s].catalog[k][i].writer, engine'[s].file)
                     \/ engine'[s].catalog[k][i].writer = None
                BY <3>1, <4>1, <1>1
            <4> QED
                BY <2>0, <4>1, <4>2, <1>b
    <2>7. CASE \E k \in Key : AfterRedo(s, k)
        <3>1. /\ Committing(s) /\ wiped_before'[s] = wiped_before[s] /\ commits' = commits
              /\ engine'[s].file = engine[s].file /\ engine'[s].catalog = engine[s].catalog
              /\ txn_of'[s] = txn_of[s]
            BY <2>7 DEF AfterRedo, history
        <3>2. /\ IsIn(txn_of[s].writer, engine[s].file)
              /\ commits[txn_of[s].writer].write_set = txn_of[s].write_set
            BY <3>1, <1>0 DEF KeepsToFile
        <3> QED
            BY <2>0, <3>1, <3>2, <1>b
    <2>8. CASE AfterAppend(s)
        <3>1. /\ Committing(s) /\ wiped_before'[s] = wiped_before[s] /\ commits' = commits
              /\ UNCHANGED <<engine, txn_of>>
            BY <2>8 DEF AfterAppend, history
        <3>2. /\ IsIn(txn_of[s].writer, engine[s].file)
              /\ commits[txn_of[s].writer].write_set = txn_of[s].write_set
            BY <3>1, <1>0 DEF KeepsToFile
        <3> QED
            BY <2>0, <3>1, <3>2, <1>b
    <2>9. CASE AfterReset(s) \/ AfterLeave(s)
        <3>1. \A k \in Key : Len(NoEngine.catalog[k]) = 0
            BY EmptySeq DEF NoEngine
        <3> QED
            BY <3>1, <2>9, <1>b DEF AfterReset, AfterLeave, HasNothing, KeepsToFile
    <2> QED
        BY <2>1, <2>2, <2>3, <2>4, <2>5, <2>6, <2>7, <2>8, <2>9, <2>10 DEF After
<1> QED
    BY <1>2, <1>3, <1>4, <1>5, <1>6, <1>c DEF FileInv

-----------------------------------------------------------------------------
(* A session's own commits.                                                *)

\* What a commit that is appended to a list of commits does to it.
LEMMA InstallEndsWith ==
    ASSUME NEW list \in Seq(Version), NEW v \in Version
    PROVE  /\ InstallVersion(list, v) # << >>
           /\ InstallVersion(list, v)[Len(InstallVersion(list, v))] = v
<1>1. PICK new : new = InstallVersion(list, v)
    OBVIOUS
<1>2. Grown(new, list, v, Name)
    BY <1>1, InstallFacts DEF Version
<1>3. Len(list) \in Nat
    BY LenProperties
<1>4. Len(new) = Len(list) + 1 /\ new[Len(list) + 1] = v
    BY <1>2 DEF Grown
<1>5. new # << >>
    BY <1>3, <1>4, EmptySeq
<1> QED
    BY <1>1, <1>4, <1>5

LEMMA InitialOwn ==
    ASSUME ConsoleInit
    PROVE  OwnInv
BY DEF ConsoleInit, Init, OwnInv, OwnOK, Committing, Serving

LEMMA OwnStep ==
    ASSUME TypeInv, TypeInv', RangesOK, FileInv, OwnInv, NEW s \in Session,
           After(s), OthersAsBefore(s), OnlyMore
    PROVE  OwnInv'
<1>0. /\ Len(commits) \in Nat /\ SessionOK(s) /\ KeepsToFile(s) /\ OwnOK(s)
      /\ engine[s] \in Engines /\ txn_of[s] \in Txns
      /\ engine[s].next_ts \in Nat /\ engine'[s].next_ts \in Nat
      /\ Len(own[s]) \in Nat /\ stage[s] \in Stages
    BY LenProperties DEF TypeInv, RangesOK, FileInv, OwnInv, Engines
<1> DEFINE Wrote(c, k) == commits'[c].write_set[k] # "none"
           EndsNow(list, k, c, next_ts) == EndsWith(list, k, c, commits'[c], next_ts)
           ServedNow(r) ==
               \A k \in Key : \A i \in 1 .. Len(own'[r]) :
                   /\ Wrote(own'[r][i], k)
                   /\ \A j \in 1 .. Len(own'[r]) : Wrote(own'[r][j], k) => j <= i
                   => EndsNow(engine'[r].catalog[k], k, own'[r][i], engine'[r].next_ts)
<1>1. ASSUME NEW r \in Session
      PROVE  ServedNow(r) => OwnServed(r)'
    BY DEF OwnServed, WritesOf, Written
<1>2. ASSUME NEW r \in Session, OwnServed(r), SessionOK(r),
             own'[r] = own[r], engine'[r].catalog = engine[r].catalog,
             engine[r].next_ts \in Nat,
             engine'[r].next_ts \in {engine[r].next_ts, engine[r].next_ts + 1}
      PROVE  ServedNow(r)
    <2>1. ASSUME NEW k \in Key, NEW i \in 1 .. Len(own'[r]), Wrote(own'[r][i], k),
                 \A j \in 1 .. Len(own'[r]) : Wrote(own'[r][j], k) => j <= i
          PROVE  EndsNow(engine'[r].catalog[k], k, own'[r][i], engine'[r].next_ts)
        <3>1. \A j \in 1 .. Len(own[r]) : commits'[own[r][j]] = commits[own[r][j]]
            BY <1>2 DEF SessionOK, OnlyMore
        <3>2. /\ i \in WritesOf(own[r], k) /\ \A j \in WritesOf(own[r], k) : j <= i
              /\ commits'[own[r][i]] = commits[own[r][i]]
            BY <3>1, <2>1, <1>2 DEF WritesOf, Written
        <3>3. EndsWith(engine[r].catalog[k], k, own[r][i], commits[own[r][i]],
                     engine[r].next_ts)
            BY <3>2, <1>2 DEF OwnServed
        <3>4. PICK list, c : list = engine[r].catalog[k] /\ c = own[r][i]
            OBVIOUS
        <3>5. list # << >> /\ list[Len(list)] \in Version
            <4>1. list \in Seq(Version)
                BY <3>4 DEF TypeInv, Engines
            <4> QED
                BY <3>3, <3>4, <4>1, EmptySeq, LenProperties, ElementOfSeq DEF EndsWith
        <3>6. list[Len(list)].begin_ts \in Nat
            BY <3>5 DEF Version, VersionBy
        <3>7. list[Len(list)].begin_ts < engine'[r].next_ts
            BY <3>3, <3>4, <3>6, <1>2, SMTT(30) DEF EndsWith
        <3> QED
            BY <3>2, <3>3, <3>4, <3>7, <1>2 DEF EndsWith
    <2> QED
        BY <2>1
<1> HIDE DEF Wrote, EndsNow, ServedNow
<1>3. ASSUME NEW r \in Session, r # s
      PROVE  OwnOK(r)'
    <2>1. /\ OwnOK(r) /\ SessionOK(r) /\ engine[r].next_ts \in Nat
        BY DEF OwnInv, RangesOK, TypeInv, Engines
    <2>2. /\ engine'[r] = engine[r] /\ txn_of'[r] = txn_of[r] /\ stage'[r] = stage[r]
          /\ own'[r] = own[r]
        BY <1>3 DEF OthersAsBefore
    <2>3. OwnServed(r) => OwnServed(r)'
        BY <2>1, <2>2, <1>1, <1>2
    <2> QED
        BY <2>1, <2>2, <2>3 DEF OwnOK, Committing, Serving
<1>4. OwnOK(s)'
    <2> USE DEF Committing, Serving
    <2>1. CASE AfterOpen(s)
        BY <2>1 DEF AfterOpen, OwnOK
    <2>2. CASE AfterBegin(s) \/ AfterWrite(s) \/ AfterEnd(s)
        <3>1. ServedNow(s)
            BY <2>2, <1>0, <1>2 DEF AfterBegin, AfterWrite, AfterEnd, OwnOK, history
        <3>2. OwnServed(s)'
            BY <3>1, <1>1
        <3> QED
            BY <2>2, <3>2, <1>0 DEF AfterBegin, AfterWrite, AfterEnd, OwnOK, NoTxn
    <2>3. CASE AfterCommit(s)
        <3>1. ServedNow(s)
            BY <2>3, <1>0, <1>2 DEF AfterCommit, OwnOK
        <3>2. OwnServed(s)'
            BY <3>1, <1>1
        <3> QED
            BY <2>3, <3>2, <1>0 DEF AfterCommit, OwnOK
    <2>4. CASE AfterAnswer(s)
        <3>1. ServedNow(s)
            <4>1. PICK n, w : n \in Nat /\ n = Len(own[s]) /\ w = txn_of[s].writer
                BY <1>0
            <4>2. /\ Len(own'[s]) = n + 1 /\ own'[s][n + 1] = w
                  /\ \A i \in 1 .. n : own'[s][i] = own[s][i]
                  /\ commits' = commits
                BY <4>1, <2>4 DEF AfterAnswer
            <4>3. ASSUME NEW k \in Key, NEW i \in 1 .. (n + 1), Wrote(own'[s][i], k),
                         \A j \in 1 .. (n + 1) : Wrote(own'[s][j], k) => j <= i
                  PROVE  EndsNow(engine'[s].catalog[k], k, own'[s][i], engine'[s].next_ts)
                <5>1. /\ w \in 1 .. Len(commits) /\ commits[w].write_set = txn_of[s].write_set
                      /\ txn_of[s].commit_ts + 1 = engine[s].next_ts
                      /\ engine'[s].next_ts = engine[s].next_ts
                    BY <4>1, <2>4, <1>0 DEF AfterAnswer, SessionOK, KeepsToFile, OwnOK
                <5>2. PICK list \in Seq(Version) : list = engine[s].catalog[k]
                    BY DEF TypeInv, Engines
                <5>3. engine'[s].catalog[k] = WithVersion(list, txn_of[s], k)
                    BY <5>2, <2>4 DEF AfterAnswer
                <5>4. CASE k \in Written(txn_of[s])
                    <6>1. i = n + 1
                        <7>1. Wrote(own'[s][n + 1], k)
                            BY <5>1, <5>4, <4>2 DEF Wrote, Written
                        <7> QED
                            BY <7>1, <4>1, <4>3
                    <6>2. PICK v : v = NewVersion(txn_of[s].commit_ts, w,
                                                  txn_of[s].write_set[k] = "del")
                        OBVIOUS
                    <6>3. /\ v \in Version /\ v.begin_ts = txn_of[s].commit_ts /\ v.end_ts = 0
                          /\ v.writer = w /\ v.is_tombstone = (txn_of[s].write_set[k] = "del")
                        BY <6>2, <4>1, <1>0 DEF NewVersion, Version, VersionBy, Txns
                    <6>4. PICK new : new = InstallVersion(list, v)
                        OBVIOUS
                    <6>5. new # << >> /\ new[Len(new)] = v
                        BY <5>2, <6>3, <6>4, InstallEndsWith
                    <6>6. engine'[s].catalog[k] = new
                        BY <4>1, <5>3, <5>4, <6>2, <6>4 DEF WithVersion
                    <6>7. v.begin_ts < engine'[s].next_ts
                        <7>1. txn_of[s].commit_ts \in Nat
                            BY <1>0 DEF Txns
                        <7> QED
                            BY <7>1, <5>1, <6>3
                    <6> QED
                        BY <4>2, <5>1, <6>1, <6>3, <6>5, <6>6, <6>7 DEF EndsNow, EndsWith
                <5>5. CASE k \notin Written(txn_of[s])
                    <6>1. ~ Wrote(own'[s][n + 1], k)
                        BY <5>1, <5>5, <4>2 DEF Wrote, Written
                    <6>2. i \in 1 .. n
                        BY <6>1, <4>1, <4>3
                    <6>3. i \in WritesOf(own[s], k) /\ \A j \in WritesOf(own[s], k) : j <= i
                        <7>1. \A j \in 1 .. n : Wrote(own'[s][j], k)
                                                  <=> k \in Written(commits[own[s][j]])
                            BY <4>2 DEF Wrote, Written
                        <7>2. \A j \in 1 .. n : j \in WritesOf(own[s], k)
                                                  <=> Wrote(own'[s][j], k)
                            BY <7>1, <4>1 DEF WritesOf
                        <7>3. \A j \in WritesOf(own[s], k) : j \in 1 .. n
                            BY <4>1 DEF WritesOf
                        <7> HIDE DEF Wrote
                        <7> QED
                            BY <6>2, <4>1, <4>3, <7>2, <7>3
                    <6>4. EndsWith(list, k, own[s][i], commits[own[s][i]], engine[s].next_ts)
                        <7>1. OwnServed(s)
                            BY <2>4, <1>0 DEF AfterAnswer, OwnOK, Serving
                        <7> QED
                            BY <6>3, <5>2, <7>1 DEF OwnServed
                    <6> QED
                        BY <6>2, <6>4, <5>1, <5>3, <5>5, <4>2
                        DEF EndsWith, EndsNow, WithVersion
                <5> QED
                    BY <5>4, <5>5
            <4> QED
                BY <4>2, <4>3 DEF ServedNow
        <3>2. OwnServed(s)'
            BY <3>1, <1>1
        <3> QED
            BY <2>4, <3>2 DEF AfterAnswer, OwnOK, NoTxn
    <2>5. CASE AfterTruncate(s) \/ AfterPass1(s)
        BY <2>5, <1>0 DEF AfterTruncate, AfterPass1, OwnOK, history
    <2>6. CASE AfterRecover(s)
        <3>1. own'[s] = << >> /\ txn_of'[s] = NoTxn /\ stage'[s] = "idle"
            BY <2>6, <1>0 DEF AfterRecover, OwnOK, SessionOK, history
        <3>2. ServedNow(s)
            BY <3>1, EmptySeq DEF ServedNow
        <3>3. OwnServed(s)'
            BY <3>2, <1>1
        <3> QED
            BY <3>1, <3>3 DEF OwnOK, NoTxn
    <2>7. CASE (\E k \in Key : AfterRedo(s, k)) \/ AfterAppend(s)
        <3>1. ServedNow(s)
            BY <2>7, <1>0, <1>2 DEF AfterRedo, AfterAppend, OwnOK, history
        <3>2. OwnServed(s)'
            BY <3>1, <1>1
        <3> QED
            BY <2>7, <3>2, <1>0 DEF AfterRedo, AfterAppend, OwnOK
    <2>8. CASE AfterReset(s) \/ AfterLeave(s)
        BY <2>8 DEF AfterReset, AfterLeave, HasNothing, OwnOK
    <2> QED
        BY <2>1, <2>2, <2>3, <2>4, <2>5, <2>6, <2>7, <2>8 DEF After
<1> QED
    BY <1>3, <1>4 DEF OwnInv

-----------------------------------------------------------------------------
(* One page at a time.                                                     *)

\* What the proofs below need to know of the session alone.
LEMMA AloneFacts ==
    ASSUME TypeInv, NEW s \in Session
    PROVE  /\ Len(logs) \in Nat /\ Len(commits) \in Nat /\ Len(acked) \in Nat
           /\ live \in 0 .. Len(logs) /\ stage[s] \in Stages
           /\ engine[s] \in Engines /\ txn_of[s] \in Txns
           /\ live # 0 => logs[live] \in Seq(Rec) /\ Len(logs[live]) \in Nat
BY LenProperties, ElementOfSeq DEF TypeInv

\* A log without damage is whole.
LEMMA LogIsWhole ==
    ASSUME NEW log, NEW cs, NEW n, NEW gone, LogOK(log, cs, n, gone)
    PROVE  IsUntorn(log)
BY DEF LogOK, IsUntorn

LEMMA AloneOpen ==
    ASSUME TypeInv, RangesOK, NEW s \in Session, AloneAs(s), AfterOpen(s)
    PROVE  AloneAs(s)'
<1>0. /\ Len(logs) \in Nat /\ Len(commits) \in Nat /\ Len(acked) \in Nat
      /\ live \in 0 .. Len(logs)
      /\ live # 0 => logs[live] \in Seq(Rec) /\ Len(logs[live]) \in Nat
    BY AloneFacts
<1>1. /\ stage[s] = "none" /\ stage'[s] = "scanned"
      /\ engine'[s].file = live'
      /\ engine'[s].valid_lsn = Total(logs'[live'])[WholePrefix(logs'[live'])]
      /\ UNCHANGED <<commits, acked, wiped>>
      /\ live = 0 => live' = Len(logs) + 1 /\ logs'[live'] = << >>
      /\ live # 0 => logs'[live'] = logs[live] /\ live' = live
    BY DEF AfterOpen
<1>2. /\ \A i \in 1 .. Len(acked) : acked[i] = i
      /\ Len(commits) = Len(acked)
      /\ live = 0 => 1 .. Len(acked) \subseteq wiped
      /\ live # 0 => LogOK(logs[live], commits, Len(acked), wiped)
    BY <1>1 DEF AloneAs, Committing
<1>3. PICK log : log = logs'[live']
    OBVIOUS
<1>4. live' # 0 /\ log \in Seq(Rec)
    <2>1. << >> \in Seq(Rec)
        BY EmptySeq
    <2>2. CASE live = 0
        <3>1. live' # 0
            BY <2>2, <1>0, <1>1
        <3>2. log = << >>
            BY <2>2, <1>1, <1>3, Zenon
        <3> QED
            BY <3>1, <3>2, <2>1, Zenon
    <2>3. CASE live # 0
        BY <2>3, <1>0, <1>1, <1>3
    <2> QED
        BY <2>2, <2>3
<1>5. LogOK(log, commits, Len(acked), wiped)
    <2>1. CASE live = 0
        <3>1. Len(log) = 0 /\ (1 .. Len(acked)) \ wiped = {}
            BY <2>1, <1>1, <1>2, <1>3, EmptySeq
        <3>2. 1 .. Len(log) = {}
            BY <3>1
        <3> QED
            BY <3>1, <3>2 DEF LogOK, Ordered
    <2>2. CASE live # 0
        BY <2>2, <1>1, <1>2, <1>3
    <2> QED
        BY <2>1, <2>2
<1>6. WholePrefix(log) = Len(log)
    <2>1. IsUntorn(log)
        BY <1>5, LogIsWhole
    <2> QED
        BY <2>1, <1>4, UntornIsWhole DEF Rec
<1>7. EngineOK("scanned", engine'[s], txn_of'[s], log, commits, Len(acked), wiped)
    BY <1>1, <1>3, <1>6 DEF EngineOK
<1> QED
    BY <1>1, <1>2, <1>3, <1>4, <1>5, <1>7 DEF AloneAs, Committing, HasEngine

LEMMA AloneQuiet ==
    ASSUME TypeInv, NEW s \in Session, AloneAs(s), RangesOK,
           AfterBegin(s) \/ AfterWrite(s) \/ AfterEnd(s)
    PROVE  AloneAs(s)'
<1>0. /\ Len(commits) \in Nat /\ Len(acked) \in Nat /\ live \in 0 .. Len(logs)
      /\ engine[s] \in Engines /\ txn_of[s] \in Txns
      /\ live # 0 => logs[live] \in Seq(Rec)
    BY AloneFacts
<1>1. /\ stage[s] = "idle" /\ stage'[s] = "idle" /\ UNCHANGED <<logs, live>>
      /\ UNCHANGED <<commits, acked, wiped>>
      /\ engine'[s].file = engine[s].file /\ engine'[s].catalog = engine[s].catalog
      /\ engine'[s].next_ts = engine[s].next_ts
    BY DEF AfterBegin, AfterWrite, AfterEnd, history
<1>2. /\ \A i \in 1 .. Len(acked) : acked[i] = i
      /\ Len(commits) = Len(acked) /\ live # 0 /\ engine[s].file = live
      /\ LogOK(logs[live], commits, Len(acked), wiped)
      /\ CountersOK("idle", engine[s], txn_of[s], logs[live], Len(acked))
      /\ CatalogOK(engine[s], commits, Len(acked), wiped)
    BY <1>1 DEF AloneAs, Committing, HasEngine, EngineOK
<1>3. PICK log : log = logs[live]
    OBVIOUS
<1>4. \A i \in 1 .. Len(log) :
         log[i].writer \in 1 .. Len(acked) /\ log[i].txn_id \in Nat
    <2>1. \A i \in 1 .. Len(log) : log[i] \in Rec
        BY <1>0, <1>2, <1>3, ElementOfSeq
    <2> QED
        BY <2>1, <1>2, <1>3 DEF LogOK, Rec, LogRecord
<1>5. CountersOK("idle", engine'[s], txn_of'[s], log, Len(acked))
    <2>1. CASE AfterBegin(s)
        <3>1. PICK id \in Nat : id = engine[s].next_txn_id
            BY <1>0 DEF Engines
        <3>2. /\ txn_of'[s].txn_id = id /\ engine'[s].next_txn_id = id + 1
              /\ engine'[s].next_ts = engine[s].next_ts
            BY <2>1, <3>1 DEF AfterBegin
        <3>3. \A i \in 1 .. Len(log) :
                 log[i].txn_id < id /\ log[i].commit_ts < engine[s].next_ts
            BY <1>2, <1>3, <3>1 DEF CountersOK
        <3> QED
            BY <3>1, <3>2, <3>3, <1>0, <1>4, SMTT(30) DEF CountersOK
    <2>2. CASE AfterWrite(s)
        BY <2>2, <1>0, <1>2, <1>3, <1>4 DEF AfterWrite, CountersOK
    <2>3. CASE AfterEnd(s)
        BY <2>3, <1>0, <1>2, <1>3, <1>4 DEF AfterEnd, CountersOK, NoTxn
    <2> QED
        BY <2>1, <2>2, <2>3
<1>6. CatalogOK(engine'[s], commits, Len(acked), wiped)
    BY <1>1, <1>2 DEF CatalogOK
<1>7. EngineOK("idle", engine'[s], txn_of'[s], log, commits, Len(acked), wiped)
    BY <1>5, <1>6 DEF EngineOK
<1> QED
    BY <1>1, <1>2, <1>3, <1>7 DEF AloneAs, Committing, HasEngine

\* Nobody else: the log that is cut is the one that was scanned.
LEMMA AloneTruncate ==
    ASSUME TypeInv, RangesOK, NEW s \in Session, AloneAs(s), AfterTruncate(s)
    PROVE  AloneAs(s)'
<1>0. /\ Len(commits) \in Nat /\ Len(acked) \in Nat /\ live \in 0 .. Len(logs)
      /\ live # 0 => logs[live] \in Seq(Rec)
    BY AloneFacts
<1>1. /\ stage[s] = "scanned" /\ stage'[s] = "truncated"
      /\ UNCHANGED <<live, engine, txn_of>> /\ UNCHANGED <<commits, acked, wiped>>
    BY DEF AfterTruncate, history
<1>2. /\ \A i \in 1 .. Len(acked) : acked[i] = i
      /\ Len(commits) = Len(acked) /\ live # 0 /\ engine[s].file = live
      /\ LogOK(logs[live], commits, Len(acked), wiped)
      /\ engine[s].valid_lsn = Total(logs[live])[Len(logs[live])]
    BY <1>1 DEF AloneAs, Committing, HasEngine, EngineOK
<1>3. PICK log : log = logs[live]
    OBVIOUS
<1>4. log \in Seq(Rec) /\ Len(log) \in 0 .. Len(log)
    <2>1. log \in Seq(Rec)
        BY <1>0, <1>2, <1>3
    <2> QED
        BY <2>1, LenProperties
<1>5. CutAt(log, Total(log)[Len(log)], None) = log
    <2>1. CutAt(log, Total(log)[Len(log)], None) = SubSeq(log, 1, Len(log))
        BY <1>4, CutBehind DEF Rec
    <2> QED
        BY <2>1, <1>4, SubSeqFull
<1>6. logs'[live'] = log
    BY <1>1, <1>2, <1>3, <1>5 DEF AfterTruncate, Log
<1>7. EngineOK("truncated", engine[s], txn_of[s], log, commits, Len(acked), wiped)
    BY DEF EngineOK
<1> QED
    BY <1>1, <1>2, <1>3, <1>6, <1>7 DEF AloneAs, Committing, HasEngine

\* Both passes read it as it is.
LEMMA AloneReads ==
    ASSUME TypeInv, NEW s \in Session, live # 0, engine[s].file = live,
           LogOK(logs[live], commits, Len(acked), wiped)
    PROVE  ReadingsOf(s) = {logs[live]}
<1>1. PICK log : log = logs[live]
    OBVIOUS
<1>2. log \in Seq(Rec) /\ IsUntorn(log)
    BY <1>1, AloneFacts, LogIsWhole
<1>3. Readings(log, Garbage, MaxMisread) = {log}
    BY <1>2, UntornIsReadAsItIs DEF Rec
<1> QED
    BY <1>1, <1>3 DEF ReadingsOf, Log

LEMMA AlonePass1 ==
    ASSUME TypeInv, RangesOK, NEW s \in Session, AloneAs(s), AfterPass1(s)
    PROVE  AloneAs(s)'
<1>1. /\ stage[s] = "truncated" /\ stage'[s] = "pass1" /\ UNCHANGED <<logs, live>>
      /\ UNCHANGED <<commits, acked, wiped>> /\ engine'[s].file = engine[s].file
    BY DEF AfterPass1, history
<1>2. /\ \A i \in 1 .. Len(acked) : acked[i] = i
      /\ Len(commits) = Len(acked) /\ live # 0 /\ engine[s].file = live
      /\ LogOK(logs[live], commits, Len(acked), wiped)
    BY <1>1 DEF AloneAs, Committing, HasEngine
<1>3. PICK log : log = logs[live]
    OBVIOUS
<1>4. log \in Seq(Rec)
    BY <1>2, <1>3, AloneFacts
<1>5. engine'[s].committed = CommittedTxns(log)
    BY <1>2, <1>3, AloneReads DEF AfterPass1
<1>6. FoundIn(engine'[s].committed, log)
    BY <1>4, <1>5, CommittedFacts DEF Rec
<1>7. EngineOK("pass1", engine'[s], txn_of'[s], log, commits, Len(acked), wiped)
    BY <1>6 DEF EngineOK
<1> QED
    BY <1>1, <1>2, <1>3, <1>7 DEF AloneAs, Committing, HasEngine

LEMMA AloneForget ==
    ASSUME TypeInv, RangesOK, NEW s \in Session, AloneAs(s), AfterReset(s) \/ AfterLeave(s)
    PROVE  AloneAs(s)'
<1>0. /\ Len(commits) \in Nat /\ Len(acked) \in Nat /\ live \in 0 .. Len(logs)
    BY AloneFacts
<1>1. /\ \A i \in 1 .. Len(acked) : acked[i] = i
      /\ Len(commits) = Len(acked)
      /\ live = 0 => 1 .. Len(acked) \subseteq wiped
      /\ live # 0 => LogOK(logs[live], commits, Len(acked), wiped)
      /\ stage'[s] = "none" /\ UNCHANGED <<logs, commits, acked>>
    BY DEF AloneAs, AfterReset, AfterLeave, HasNothing, Committing, history
<1>2. CASE AfterReset(s)
    <2>1. live' = 0 /\ 1 .. Len(acked) \subseteq wiped'
        BY <1>0, <1>1, <1>2 DEF AfterReset
    <2> QED
        BY <1>1, <2>1 DEF AloneAs, Committing, HasEngine
<1>3. CASE AfterLeave(s)
    <2>1. live' = live /\ wiped' = wiped
        BY <1>3 DEF AfterLeave, history
    <2> QED
        BY <1>1, <2>1 DEF AloneAs, Committing, HasEngine
<1> QED
    BY <1>2, <1>3

LEMMA AloneCommit ==
    ASSUME TypeInv, RangesOK, OwnInv, NEW s \in Session, AloneAs(s), AfterCommit(s),
           OnlyMore
    PROVE  AloneAs(s)'
<1>0. /\ Len(commits) \in Nat /\ Len(acked) \in Nat /\ live \in 0 .. Len(logs)
      /\ engine[s] \in Engines /\ txn_of[s] \in Txns
      /\ live # 0 => logs[live] \in Seq(Rec)
    BY AloneFacts
<1>1. /\ stage[s] = "idle" /\ stage'[s] = "redo" /\ txn_of[s].active
      /\ UNCHANGED <<logs, live, acked, wiped>>
      /\ engine'[s].file = engine[s].file /\ engine'[s].catalog = engine[s].catalog
    BY DEF AfterCommit
<1>2. /\ \A i \in 1 .. Len(acked) : acked[i] = i
      /\ Len(commits) = Len(acked) /\ live # 0 /\ engine[s].file = live
      /\ LogOK(logs[live], commits, Len(acked), wiped)
      /\ CountersOK("idle", engine[s], txn_of[s], logs[live], Len(acked))
      /\ CatalogOK(engine[s], commits, Len(acked), wiped)
    BY <1>1 DEF AloneAs, Committing, HasEngine, EngineOK
<1>3. PICK log, n, ts, id :
         /\ log = logs[live] /\ n = Len(acked)
         /\ ts = engine[s].next_ts /\ id = txn_of[s].txn_id
    OBVIOUS
<1>4. n \in Nat /\ ts \in Nat /\ id \in Nat
    BY <1>0, <1>3 DEF Engines, Txns
<1>5. /\ Len(commits') = n + 1 /\ \A c \in 1 .. n : commits'[c] = commits[c]
      /\ txn_of'[s].writer = n + 1
    BY <1>2, <1>3 DEF AfterCommit, OnlyMore
<1>6. \A i \in 1 .. Len(log) :
         /\ log[i].writer \in 1 .. n /\ log[i].txn_id \in Nat /\ log[i].commit_ts \in Nat
    <2>1. \A i \in 1 .. Len(log) : log[i] \in Rec
        BY <1>0, <1>2, <1>3, ElementOfSeq
    <2> QED
        BY <2>1, <1>2, <1>3 DEF LogOK, Rec, LogRecord
<1>7. LogOK(log, commits', n, wiped)
    <2>1. 1 .. n \subseteq 1 .. (n + 1)
        BY <1>4
    <2> QED
        BY <2>1, <1>2, <1>3, <1>5, <1>6, SMTT(30) DEF LogOK
<1>8. CountersOK("redo", engine'[s], txn_of'[s], log, n)
    <2>1. /\ txn_of'[s].txn_id = id /\ txn_of'[s].commit_ts = ts
          /\ engine'[s].next_ts = ts + 1 /\ engine'[s].next_txn_id = id + 1
        BY <1>3 DEF AfterCommit
    <2>2. \A i \in 1 .. Len(log) : log[i].commit_ts < ts /\ log[i].txn_id < id
        BY <1>1, <1>2, <1>3, <1>4, <1>6, SMTT(30) DEF CountersOK
    <2> QED
        BY <2>1, <2>2, <1>4, <1>6 DEF CountersOK
<1>9. CatalogOK(engine'[s], commits', n, wiped)
    <2>1. ASSUME NEW k \in Key
          PROVE  Kept(k, commits', n, wiped) = Kept(k, commits, n, wiped)
        BY <1>5 DEF Kept
    <2>2. ASSUME NEW k \in Key, NEW c \in Kept(k, commits, n, wiped),
                 \A d \in Kept(k, commits, n, wiped) : d <= c
          PROVE  EndsWith(engine'[s].catalog[k], k, c, commits'[c], engine'[s].next_ts)
        <3>1. PICK list : list = engine[s].catalog[k]
            OBVIOUS
        <3>2. EndsWith(list, k, c, commits[c], ts)
            BY <2>2, <3>1, <1>2, <1>3 DEF CatalogOK
        <3>3. list[Len(list)].begin_ts \in Nat
            <4>1. list \in Seq(Version)
                BY <3>1, <1>0 DEF Engines
            <4>2. list[Len(list)] \in Version
                BY <3>2, <4>1, EmptySeq, LenProperties, ElementOfSeq DEF EndsWith
            <4> QED
                BY <4>2 DEF Version, VersionBy
        <3>4. commits'[c] = commits[c]
            BY <1>5, <2>2 DEF Kept
        <3>5. engine'[s].catalog[k] = list /\ engine'[s].next_ts = ts + 1
            BY <1>1, <1>3, <3>1 DEF AfterCommit
        <3>6. list[Len(list)].begin_ts < ts + 1
            BY <3>2, <3>3, <1>4 DEF EndsWith
        <3> QED
            BY <3>2, <3>4, <3>5, <3>6 DEF EndsWith
    <2> QED
        BY <2>1, <2>2, <1>1, <1>2, <1>3 DEF CatalogOK
<1>10. EngineOK("redo", engine'[s], txn_of'[s], log, commits', n, wiped)
    <2>1. Written(txn_of'[s]) \ engine'[s].todo = {}
        BY DEF AfterCommit, Written
    <2> QED
        BY <2>1, <1>8, <1>9 DEF EngineOK
<1> QED
    BY <1>1, <1>2, <1>3, <1>4, <1>5, <1>7, <1>10 DEF AloneAs, Committing, HasEngine

\* A log with one record more, of the commit under way.
Lengthened(new, log, type, k, txn) ==
    /\ Len(log) \in Nat /\ Len(new) = Len(log) + 1
    /\ \A i \in 1 .. Len(log) : new[i] = log[i]
    /\ LET r == new[Len(log) + 1]
       IN  /\ r.type = type /\ r.key = k /\ ~ IsTorn(r)
           /\ r.txn_id = txn.txn_id /\ r.commit_ts = txn.commit_ts
           /\ r.writer = txn.writer

\* The log is still what it should be, and has the new record as well.
StillOK(new, log, type, k, n, e, txn, cs, gone, g) ==
    /\ LogOK(new, cs, n, gone) /\ CountersOK(g, e, txn, new, n)
    /\ \A c, l : HasRedo(log, c, l) => HasRedo(new, c, l)
    /\ type = "commit" => HasCommit(new, n + 1)
    /\ type # "commit" => HasRedo(new, n + 1, k)

LEMMA LengthenedFacts ==
    ASSUME NEW n \in Nat, NEW e, NEW txn \in Txns, NEW cs, NEW gone, NEW g,
           g \in {"redo", "sync"}, Len(cs) = n + 1, txn.writer = n + 1, txn.active,
           cs[n + 1].write_set = txn.write_set, txn.commit_ts < e.next_ts,
           NEW log \in Seq(Rec), LogOK(log, cs, n, gone), CountersOK(g, e, txn, log, n),
           NEW type, NEW k, NEW new, Lengthened(new, log, type, k, txn),
           \/ type = "commit"
           \/ k \in Key /\ type = txn.write_set[k] /\ type \in {"put", "del"}
    PROVE  StillOK(new, log, type, k, n, e, txn, cs, gone, g)
<1>0. PICK len \in Nat : len = Len(log)
    BY DEF Lengthened
<1>1. PICK r : r = new[len + 1]
    OBVIOUS
<1>2. /\ r.type = type /\ r.txn_id = txn.txn_id /\ r.commit_ts = txn.commit_ts
      /\ r.key = k /\ r.writer = n + 1 /\ ~ IsTorn(r)
    BY <1>0, <1>1 DEF Lengthened
<1>3. Len(new) = len + 1 /\ new[len + 1] = r /\ \A i \in 1 .. len : new[i] = log[i]
    BY <1>0, <1>1 DEF Lengthened
<1>4. \A i \in 1 .. (len + 1) : i \in 1 .. len \/ i = len + 1
    OBVIOUS
<1>5. 1 .. len \subseteq 1 .. (len + 1) /\ len + 1 \in 1 .. (len + 1)
    OBVIOUS
<1>6. \A i \in 1 .. len :
         /\ log[i].writer \in 1 .. (n + 1)
         /\ log[i].txn_id \in Nat /\ log[i].commit_ts \in Nat
    <2>1. \A i \in 1 .. len : log[i] \in Rec
        BY <1>0, ElementOfSeq
    <2> QED
        BY <2>1, <1>0 DEF LogOK, Rec, LogRecord
<1>7. txn.txn_id \in Nat /\ txn.commit_ts \in Nat
    BY DEF Txns
<1>8. /\ \A c, l : HasRedo(log, c, l) => HasRedo(new, c, l)
      /\ \A c : HasCommit(log, c) => HasCommit(new, c)
    BY <1>0, <1>3, <1>5 DEF HasRedo, HasCommit
<1>9. /\ type = "commit" => HasCommit(new, n + 1)
      /\ type # "commit" => HasRedo(new, n + 1, k)
    BY <1>2, <1>3, <1>5 DEF HasRedo, HasCommit
<1>10. \A i \in 1 .. len :
          /\ log[i].writer < n + 1 => /\ log[i].commit_ts < txn.commit_ts
                                      /\ log[i].txn_id < txn.txn_id
          /\ log[i].writer = n + 1 => /\ log[i].commit_ts = txn.commit_ts
                                      /\ log[i].txn_id = txn.txn_id
    <2>1. \A i \in 1 .. len :
             /\ log[i].writer <= n => /\ log[i].commit_ts < txn.commit_ts
                                      /\ log[i].txn_id < txn.txn_id
             /\ log[i].writer > n => /\ log[i].commit_ts = txn.commit_ts
                                     /\ log[i].txn_id = txn.txn_id
        BY <1>0 DEF CountersOK
    <2> QED
        BY <2>1, <1>6
<1>11. Ordered(new)
    <2>1. Ordered(log)
        BY DEF LogOK
    <2>2. ASSUME NEW i \in 1 .. (len + 1), NEW j \in 1 .. (len + 1)
          PROVE  /\ i < j => new[i].writer <= new[j].writer
                 /\ new[i].writer < new[j].writer =>
                       new[i].commit_ts < new[j].commit_ts /\ new[i].txn_id < new[j].txn_id
                 /\ new[i].writer = new[j].writer =>
                       new[i].commit_ts = new[j].commit_ts /\ new[i].txn_id = new[j].txn_id
        <3>1. CASE i \in 1 .. len /\ j \in 1 .. len
            BY <3>1, <2>1, <1>0, <1>3 DEF Ordered
        <3>2. CASE i \in 1 .. len /\ j = len + 1
            BY <3>2, <1>2, <1>3, <1>6, <1>10
        <3>3. CASE i = len + 1 /\ j \in 1 .. len
            <4>1. ~ (i < j) /\ new[i] = r /\ new[j] = log[j]
                BY <3>3, <1>3
            <4>2. ~ (n + 1 < log[j].writer)
                BY <3>3, <1>6
            <4> QED
                BY <3>3, <4>1, <4>2, <1>2, <1>10
        <3>4. CASE i = len + 1 /\ j = len + 1
            BY <3>4, <1>2, <1>3, <1>7
        <3> QED
            BY <3>1, <3>2, <3>3, <3>4, <1>4
    <2> QED
        BY <2>2, <1>3 DEF Ordered
<1>12. LogOK(new, cs, n, gone)
    <2>1. ASSUME NEW i \in 1 .. (len + 1)
          PROVE  /\ ~ IsTorn(new[i]) /\ new[i].writer \in 1 .. Len(cs)
                 /\ new[i].type # "commit" =>
                       /\ new[i].key \in Written(cs[new[i].writer])
                       /\ new[i].type = cs[new[i].writer].write_set[new[i].key]
        <3>1. CASE i \in 1 .. len
            BY <3>1, <1>0, <1>3 DEF LogOK
        <3>2. CASE i = len + 1
            BY <3>2, <1>2, <1>3 DEF Written
        <3> QED
            BY <3>1, <3>2, <1>4
    <2>2. ASSUME NEW c \in (1 .. n) \ gone
          PROVE  Complete(new, c, cs[c])
        BY <1>8 DEF LogOK, Complete
    <2> QED
        BY <2>1, <2>2, <1>3, <1>11 DEF LogOK
<1>13. CountersOK(g, e, txn, new, n)
    <2>1. ASSUME NEW i \in 1 .. (len + 1)
          PROVE  /\ new[i].commit_ts < e.next_ts /\ new[i].txn_id < e.next_txn_id
                 /\ new[i].writer <= n =>
                       /\ txn.active => new[i].txn_id < txn.txn_id
                       /\ g \in {"redo", "sync"} => new[i].commit_ts < txn.commit_ts
                 /\ new[i].writer > n =>
                       new[i].txn_id = txn.txn_id /\ new[i].commit_ts = txn.commit_ts
        <3>1. CASE i \in 1 .. len
            BY <3>1, <1>0, <1>3 DEF CountersOK
        <3>2. CASE i = len + 1
            BY <3>2, <1>2, <1>3 DEF CountersOK
        <3> QED
            BY <3>1, <3>2, <1>4
    <2> QED
        BY <2>1, <1>3 DEF CountersOK
<1> QED
    BY <1>8, <1>9, <1>12, <1>13 DEF StillOK

\* A record that session s appends to the log of the console.
LEMMA AloneAppends ==
    ASSUME TypeInv, RangesOK, FileInv, OwnInv, NEW s \in Session, AloneAs(s),
           Committing(s), NEW type, NEW k, AppendedTo(logs', s, type, k),
           \/ type = "commit"
           \/ k \in Key /\ type = txn_of[s].write_set[k] /\ type \in {"put", "del"}
    PROVE  /\ Lengthened(logs'[live], logs[live], type, k, txn_of[s])
           /\ LogOK(logs'[live], commits, Len(acked), wiped)
           /\ CountersOK(stage[s], engine[s], txn_of[s], logs'[live], Len(acked))
           /\ \A c, l : HasRedo(logs[live], c, l) => HasRedo(logs'[live], c, l)
           /\ type = "commit" => HasCommit(logs'[live], txn_of[s].writer)
           /\ type # "commit" => HasRedo(logs'[live], txn_of[s].writer, k)
<1>0. /\ Len(commits) \in Nat /\ Len(acked) \in Nat /\ live \in 0 .. Len(logs)
      /\ engine[s] \in Engines /\ txn_of[s] \in Txns
      /\ live # 0 => logs[live] \in Seq(Rec)
    BY AloneFacts
<1>1. /\ Len(commits) = Len(acked) + 1 /\ txn_of[s].writer = Len(acked) + 1
      /\ live # 0 /\ engine[s].file = live
      /\ LogOK(logs[live], commits, Len(acked), wiped)
      /\ CountersOK(stage[s], engine[s], txn_of[s], logs[live], Len(acked))
    BY DEF AloneAs, Committing, HasEngine, EngineOK
<1>2. /\ txn_of[s].active /\ txn_of[s].commit_ts < engine[s].next_ts
      /\ commits[Len(acked) + 1].write_set = txn_of[s].write_set
    <2>1. txn_of[s].commit_ts \in Nat
        BY <1>0 DEF Txns
    <2> QED
        BY <2>1, <1>0, <1>1
        DEF RangesOK, SessionOK, FileInv, KeepsToFile, OwnInv, OwnOK
<1>3. PICK log, new, n, g, e, txn, cs, gone :
         /\ log = logs[live] /\ new = logs'[live] /\ n = Len(acked) /\ g = stage[s]
         /\ e = engine[s] /\ txn = txn_of[s] /\ cs = commits /\ gone = wiped
    OBVIOUS
<1>4. Lengthened(new, log, type, k, txn)
    BY <1>1, <1>3 DEF AppendedTo, Lengthened, IsRecordOf
<1>5. /\ n \in Nat /\ txn \in Txns /\ log \in Seq(Rec) /\ g \in {"redo", "sync"}
      /\ Len(cs) = n + 1 /\ txn.writer = n + 1 /\ txn.active
      /\ cs[n + 1].write_set = txn.write_set /\ txn.commit_ts < e.next_ts
      /\ LogOK(log, cs, n, gone) /\ CountersOK(g, e, txn, log, n)
    BY <1>0, <1>1, <1>2, <1>3 DEF Committing
<1>6. \/ type = "commit"
      \/ k \in Key /\ type = txn.write_set[k] /\ type \in {"put", "del"}
    <2>1. txn_of[s].write_set = txn.write_set
        BY <1>3
    <2> QED
        BY <2>1
<1>7. StillOK(new, log, type, k, n, e, txn, cs, gone, g)
    BY <1>4, <1>5, <1>6, LengthenedFacts
<1>8. /\ LogOK(new, cs, n, gone) /\ CountersOK(g, e, txn, new, n)
      /\ \A c, l : HasRedo(log, c, l) => HasRedo(new, c, l)
      /\ type = "commit" => HasCommit(new, n + 1)
      /\ type # "commit" => HasRedo(new, n + 1, k)
    BY <1>7 DEF StillOK
<1> QED
    BY <1>1, <1>3, <1>4, <1>8

LEMMA AloneRedo ==
    ASSUME TypeInv, RangesOK, FileInv, OwnInv, NEW s \in Session, AloneAs(s),
           NEW k \in Key, AfterRedo(s, k)
    PROVE  AloneAs(s)'
<1>1. /\ stage[s] = "redo" /\ stage'[s] = "redo" /\ txn_of'[s] = txn_of[s]
      /\ live' = live /\ UNCHANGED <<commits, acked, wiped>>
      /\ engine'[s].file = engine[s].file /\ engine'[s].catalog = engine[s].catalog
      /\ engine'[s].next_ts = engine[s].next_ts
      /\ engine'[s].next_txn_id = engine[s].next_txn_id
      /\ engine'[s].todo = engine[s].todo \ {k}
    BY DEF AfterRedo, history
<1>2. /\ \A i \in 1 .. Len(acked) : acked[i] = i
      /\ Len(commits) = Len(acked) + 1 /\ txn_of[s].writer = Len(commits)
      /\ live # 0 /\ engine[s].file = live
      /\ CatalogOK(engine[s], commits, Len(acked), wiped)
      /\ \A l \in Written(txn_of[s]) \ engine[s].todo :
            HasRedo(logs[live], txn_of[s].writer, l)
    BY <1>1 DEF AloneAs, Committing, HasEngine, EngineOK
<1>3. PICK type : type = txn_of[s].write_set[k]
    OBVIOUS
<1>4. AppendedTo(logs', s, type, k) /\ type \in {"put", "del"} /\ Committing(s)
    BY <1>1, <1>3 DEF AfterRedo, Committing
<1>5. /\ LogOK(logs'[live], commits, Len(acked), wiped)
      /\ CountersOK(stage[s], engine[s], txn_of[s], logs'[live], Len(acked))
      /\ \A c, l : HasRedo(logs[live], c, l) => HasRedo(logs'[live], c, l)
      /\ HasRedo(logs'[live], txn_of[s].writer, k)
    BY <1>3, <1>4, AloneAppends
<1>6. \A l \in Written(txn_of[s]) \ engine'[s].todo :
         HasRedo(logs'[live], txn_of[s].writer, l)
    BY <1>1, <1>2, <1>5
<1>7. /\ CountersOK("redo", engine'[s], txn_of'[s], logs'[live], Len(acked))
      /\ CatalogOK(engine'[s], commits, Len(acked), wiped)
    BY <1>1, <1>2, <1>5 DEF CountersOK, CatalogOK
<1>8. EngineOK("redo", engine'[s], txn_of'[s], logs'[live], commits, Len(acked), wiped)
    BY <1>1, <1>6, <1>7 DEF EngineOK
<1> QED
    BY <1>1, <1>2, <1>5, <1>8 DEF AloneAs, Committing, HasEngine

LEMMA AloneAppend ==
    ASSUME TypeInv, RangesOK, FileInv, OwnInv, NEW s \in Session, AloneAs(s),
           AfterAppend(s)
    PROVE  AloneAs(s)'
<1>1. /\ stage[s] = "redo" /\ stage'[s] = "sync" /\ engine[s].todo = {}
      /\ UNCHANGED <<live, engine, txn_of>> /\ UNCHANGED <<commits, acked, wiped>>
    BY DEF AfterAppend, history
<1>2. /\ \A i \in 1 .. Len(acked) : acked[i] = i
      /\ Len(commits) = Len(acked) + 1 /\ txn_of[s].writer = Len(commits)
      /\ live # 0 /\ engine[s].file = live
      /\ CatalogOK(engine[s], commits, Len(acked), wiped)
      /\ \A l \in Written(txn_of[s]) : HasRedo(logs[live], txn_of[s].writer, l)
    BY <1>1 DEF AloneAs, Committing, HasEngine, EngineOK
<1>3. /\ LogOK(logs'[live], commits, Len(acked), wiped)
      /\ CountersOK(stage[s], engine[s], txn_of[s], logs'[live], Len(acked))
      /\ \A c, l : HasRedo(logs[live], c, l) => HasRedo(logs'[live], c, l)
      /\ HasCommit(logs'[live], txn_of[s].writer)
    <2>1. AppendedTo(logs', s, "commit", None) /\ Committing(s)
        BY <1>1 DEF AfterAppend, Committing
    <2> QED
        BY <2>1, AloneAppends
<1>4. Complete(logs'[live], txn_of[s].writer, txn_of[s])
    BY <1>2, <1>3 DEF Complete
<1>5. CountersOK("sync", engine[s], txn_of[s], logs'[live], Len(acked))
    BY <1>1, <1>3 DEF CountersOK
<1>6. EngineOK("sync", engine[s], txn_of[s], logs'[live], commits, Len(acked), wiped)
    BY <1>2, <1>4, <1>5 DEF EngineOK
<1> QED
    BY <1>1, <1>2, <1>3, <1>6 DEF AloneAs, Committing, HasEngine

LEMMA AloneAnswer ==
    ASSUME TypeInv, RangesOK, FileInv, OwnInv, NEW s \in Session, AloneAs(s),
           AfterAnswer(s), OnlyMore
    PROVE  AloneAs(s)'
<1>0. /\ Len(commits) \in Nat /\ Len(acked) \in Nat /\ live \in 0 .. Len(logs)
      /\ engine[s] \in Engines /\ txn_of[s] \in Txns
      /\ live # 0 => logs[live] \in Seq(Rec)
    BY AloneFacts
<1>1. /\ stage[s] = "sync" /\ stage'[s] = "idle" /\ txn_of'[s] = NoTxn
      /\ UNCHANGED <<logs, live, commits, wiped>>
      /\ engine'[s].file = engine[s].file /\ engine'[s].next_ts = engine[s].next_ts
      /\ engine'[s].next_txn_id = engine[s].next_txn_id
    BY DEF AfterAnswer
<1>2. /\ \A i \in 1 .. Len(acked) : acked[i] = i
      /\ Len(commits) = Len(acked) + 1 /\ txn_of[s].writer = Len(commits)
      /\ live # 0 /\ engine[s].file = live
      /\ LogOK(logs[live], commits, Len(acked), wiped)
      /\ CountersOK("sync", engine[s], txn_of[s], logs[live], Len(acked))
      /\ CatalogOK(engine[s], commits, Len(acked), wiped)
      /\ Complete(logs[live], txn_of[s].writer, txn_of[s])
    BY <1>1 DEF AloneAs, Committing, HasEngine, EngineOK
<1>3. PICK log, n, txn : log = logs[live] /\ n = Len(acked) /\ txn = txn_of[s]
    OBVIOUS
<1>4. n \in Nat /\ txn \in Txns /\ Len(commits) = n + 1 /\ txn.writer = n + 1
    BY <1>0, <1>2, <1>3
<1>5. /\ commits[n + 1].write_set = txn.write_set /\ txn.commit_ts \in Nat
      /\ txn.commit_ts + 1 = engine[s].next_ts
    BY <1>1, <1>3, <1>4 DEF FileInv, KeepsToFile, OwnInv, OwnOK, Committing, Txns
<1>6. n + 1 \notin wiped /\ 1 .. n \subseteq 1 .. (n + 1)
    BY <1>2, <1>3, <1>4 DEF RangesOK
<1>7. Len(acked') = n + 1 /\ \A i \in 1 .. (n + 1) : acked'[i] = i
    <2>1. /\ Len(acked') = n + 1 /\ acked'[n + 1] = n + 1
          /\ \A i \in 1 .. n : acked'[i] = acked[i]
        BY <1>3, <1>4 DEF AfterAnswer, OnlyMore
    <2> QED
        BY <2>1, <1>2, <1>3, <1>4
<1>8. LogOK(log, commits, n + 1, wiped)
    <2>1. \A c \in 1 .. (n + 1) : c \in 1 .. n \/ c = n + 1
        BY <1>4
    <2>2. Complete(log, n + 1, commits[n + 1])
        BY <1>2, <1>3, <1>4, <1>5 DEF Complete, Written
    <2> QED
        BY <2>1, <2>2, <1>2, <1>3 DEF LogOK
<1>9. CountersOK("idle", engine'[s], txn_of'[s], log, n + 1)
    <2>1. \A i \in 1 .. Len(log) : log[i].writer \in 1 .. (n + 1)
        BY <1>2, <1>3, <1>4 DEF LogOK
    <2> QED
        BY <2>1, <1>1, <1>2, <1>3, <1>4 DEF CountersOK, NoTxn
<1>10. CatalogOK(engine'[s], commits, n + 1, wiped)
    <2> DEFINE K(k, m) == Kept(k, commits, m, wiped)
    <2>1. ASSUME NEW k \in Key
          PROVE  /\ K(k, n + 1) = {} => engine'[s].catalog[k] = << >>
                 /\ \A c \in K(k, n + 1) : (\A d \in K(k, n + 1) : d <= c) =>
                       EndsWith(engine'[s].catalog[k], k, c, commits[c], engine'[s].next_ts)
        <3>1. PICK list \in Seq(Version) : list = engine[s].catalog[k]
            BY <1>0 DEF Engines
        <3>2. engine'[s].catalog[k] = WithVersion(list, txn, k)
            BY <1>3, <3>1 DEF AfterAnswer
        <3>3. /\ K(k, n) = {} => list = << >>
              /\ \A c \in K(k, n) : (\A d \in K(k, n) : d <= c) =>
                       EndsWith(list, k, c, commits[c], engine[s].next_ts)
            BY <1>2, <1>3, <3>1 DEF CatalogOK
        <3>4. CASE k \in Written(txn)
            <4>1. n + 1 \in K(k, n + 1)
                BY <3>4, <1>4, <1>5, <1>6 DEF Kept, Written
            <4>2. ASSUME NEW c \in K(k, n + 1), \A d \in K(k, n + 1) : d <= c
                  PROVE  c = n + 1
                <5>1. c \in 1 .. (n + 1) /\ n + 1 <= c
                    BY <4>1, <4>2 DEF Kept
                <5> QED
                    BY <5>1, <1>4
            <4>3. PICK v : v = NewVersion(txn.commit_ts, txn.writer, txn.write_set[k] = "del")
                OBVIOUS
            <4>4. /\ v \in Version /\ v.begin_ts = txn.commit_ts /\ v.end_ts = 0
                  /\ v.writer = n + 1 /\ v.is_tombstone = (txn.write_set[k] = "del")
                BY <4>3, <1>4, <1>5 DEF NewVersion, Version, VersionBy, Name
            <4>5. PICK new : new = InstallVersion(list, v)
                OBVIOUS
            <4>6. new # << >> /\ new[Len(new)] = v
                BY <3>1, <4>4, <4>5, InstallEndsWith
            <4>7. engine'[s].catalog[k] = new
                BY <3>2, <3>4, <4>3, <4>5 DEF WithVersion
            <4>8. v.begin_ts < engine'[s].next_ts
                BY <4>4, <1>1, <1>5
            <4>9. EndsWith(new, k, n + 1, commits[n + 1], engine'[s].next_ts)
                BY <4>4, <4>6, <4>8, <1>5 DEF EndsWith
            <4> QED
                BY <4>1, <4>2, <4>7, <4>9
        <3>5. CASE k \notin Written(txn)
            <4>1. K(k, n + 1) = K(k, n)
                <5>1. k \notin Written(commits[n + 1])
                    BY <3>5, <1>5 DEF Written
                <5>2. \A c \in 1 .. (n + 1) : c \in 1 .. n \/ c = n + 1
                    BY <1>4
                <5> QED
                    BY <5>1, <5>2, <1>6 DEF Kept
            <4>2. engine'[s].catalog[k] = list
                BY <3>2, <3>5 DEF WithVersion
            <4> QED
                BY <4>1, <4>2, <3>3, <1>1
        <3> QED
            BY <3>4, <3>5
    <2> QED
        BY <2>1 DEF CatalogOK
<1>11. EngineOK("idle", engine'[s], txn_of'[s], log, commits, n + 1, wiped)
    BY <1>9, <1>10 DEF EngineOK
<1> QED
    BY <1>1, <1>2, <1>3, <1>4, <1>7, <1>8, <1>11 DEF AloneAs, Committing, HasEngine

\* The counters are past all that pass 1 has found.
PastFound(e, found) ==
    \A id \in DOMAIN found : found[id] < e.next_ts /\ id < e.next_txn_id

\* Every transaction of the log has its COMMIT record there, and pass 1 has
\* found it.
AllFound(log, found, n, gone) ==
    \A i \in 1 .. Len(log) : /\ log[i].writer \in (1 .. n) \ gone
                             /\ log[i].txn_id \in DOMAIN found
                             /\ found[log[i].txn_id] = log[i].commit_ts

LEMMA FoundFacts ==
    ASSUME NEW n \in Nat, NEW cs, Len(cs) = n, NEW gone, NEW log \in Seq(Rec),
           LogOK(log, cs, n, gone),
           \A i \in 1 .. Len(log) : log[i].writer \notin gone,
           NEW found, FoundIn(found, log)
    PROVE  AllFound(log, found, n, gone)
<1> SUFFICES ASSUME NEW i \in 1 .. Len(log)
             PROVE  /\ log[i].writer \in (1 .. n) \ gone
                    /\ log[i].txn_id \in DOMAIN found
                    /\ found[log[i].txn_id] = log[i].commit_ts
    BY DEF AllFound
<1>1. log[i].writer \in (1 .. n) \ gone
    BY DEF LogOK
<1>2. PICK j \in 1 .. Len(log) : log[j].type = "commit" /\ log[j].writer = log[i].writer
    BY <1>1 DEF LogOK, Complete, HasCommit
<1>3. log[j].txn_id = log[i].txn_id /\ log[j].commit_ts = log[i].commit_ts
    BY <1>2 DEF LogOK, Ordered
<1>4. log[i].txn_id \in DOMAIN found
    BY <1>2, <1>3 DEF FoundIn
<1>5. PICK m \in 1 .. Len(log) :
        /\ log[m].type = "commit" /\ log[m].txn_id = log[i].txn_id
        /\ found[log[i].txn_id] = log[m].commit_ts
    BY <1>4 DEF FoundIn
<1>6. /\ log[m].writer \in Nat /\ log[i].writer \in Nat
      /\ log[m].txn_id \in Nat /\ log[i].txn_id \in Nat
    <2>1. log[m] \in Rec /\ log[i] \in Rec
        BY ElementOfSeq
    <2>2. log[m].txn_id \in Nat /\ log[i].txn_id \in Nat
        BY <2>1 DEF Rec, LogRecord
    <2>3. log[m].writer \in 1 .. n /\ log[i].writer \in 1 .. n
        BY DEF LogOK
    <2> QED
        BY <2>2, <2>3
<1>7. log[m].writer = log[i].writer
    <2>1. ~ (log[m].writer < log[i].writer)
        <3>1. log[m].writer < log[i].writer => log[m].txn_id < log[i].txn_id
            BY DEF LogOK, Ordered
        <3> QED
            BY <3>1, <1>5, <1>6
    <2>2. ~ (log[i].writer < log[m].writer)
        <3>1. log[i].writer < log[m].writer => log[i].txn_id < log[m].txn_id
            BY DEF LogOK, Ordered
        <3> QED
            BY <3>1, <1>5, <1>6
    <2> QED
        BY <2>1, <2>2, <1>6
<1>8. log[m].commit_ts = log[i].commit_ts
    BY <1>7 DEF LogOK, Ordered
<1> QED
    BY <1>1, <1>4, <1>5, <1>8

LEMMA RecoveredCatalog ==
    ASSUME NEW n \in Nat, NEW cs, Len(cs) = n, NEW gone, NEW log \in Seq(Rec),
           LogOK(log, cs, n, gone),
           \A i \in 1 .. Len(log) : log[i].writer \notin gone,
           NEW found, FoundIn(found, log),
           NEW e, PastFound(e, found),
           \A k \in Key : e.catalog[k] = Replayed(log, found, k)
    PROVE  CatalogOK(e, cs, n, gone) /\ CountersOK("idle", e, NoTxn, log, n)
<1>1. \A i \in 1 .. Len(log) : /\ log[i].writer \in (1 .. n) \ gone
                               /\ log[i].txn_id \in DOMAIN found
                               /\ found[log[i].txn_id] = log[i].commit_ts
    <2>1. AllFound(log, found, n, gone)
        BY FoundFacts
    <2> QED
        BY <2>1 DEF AllFound
<1>2. \A i \in 1 .. Len(log) :
         log[i].commit_ts < e.next_ts /\ log[i].txn_id < e.next_txn_id
    BY <1>1 DEF PastFound
<1>3. CountersOK("idle", e, NoTxn, log, n)
    BY <1>1, <1>2 DEF CountersOK, NoTxn
<1>4. ASSUME NEW k \in Key
      PROVE  /\ Kept(k, cs, n, gone) = {} => e.catalog[k] = << >>
             /\ \A c \in Kept(k, cs, n, gone) :
                   (\A d \in Kept(k, cs, n, gone) : d <= c) =>
                       EndsWith(e.catalog[k], k, c, cs[c], e.next_ts)
    <2>1. PICK list : list = Replayed(log, found, k) /\ e.catalog[k] = list
        OBVIOUS
    <2>2. Rebuilt(list, log, Len(log), found, k, Name)
        BY <2>1, ReplayedFacts DEF Rec
    <2>3. ASSUME NEW m \in 1 .. Len(log), IsReplayed(log[m], found, k)
          PROVE  /\ log[m].writer \in Kept(k, cs, n, gone)
                 /\ log[m].type = cs[log[m].writer].write_set[k]
        BY <2>3, <1>1 DEF LogOK, IsReplayed, Kept
    <2>4. CASE list = << >> /\ \A m \in 1 .. Len(log) : ~ IsReplayed(log[m], found, k)
        <3>1. ASSUME NEW c \in Kept(k, cs, n, gone)
              PROVE  FALSE
            <4>1. PICK i \in 1 .. Len(log) : log[i].type \in {"put", "del"} /\ log[i].key = k
                BY <3>1 DEF Kept, LogOK, Complete, HasRedo
            <4> QED
                BY <4>1, <2>4, <1>1 DEF IsReplayed
        <3> QED
            BY <3>1, <2>1, <2>4
    <2>5. ASSUME NEW m \in 1 .. Len(log), IsReplayed(log[m], found, k),
                 \A j \in 1 .. Len(log) : j > m => ~ IsReplayed(log[j], found, k),
                 list # << >>, list[Len(list)] = VersionOf(log[m]),
                 NEW c \in Kept(k, cs, n, gone), \A d \in Kept(k, cs, n, gone) : d <= c
          PROVE  EndsWith(list, k, c, cs[c], e.next_ts)
        <3>1. PICK i \in 1 .. Len(log) :
                 log[i].type \in {"put", "del"} /\ log[i].key = k /\ log[i].writer = c
            BY <2>5 DEF Kept, LogOK, Complete, HasRedo
        <3>2. ~ (i > m)
            BY <3>1, <2>5, <1>1 DEF IsReplayed
        <3>3. Len(log) \in Nat
            BY LenProperties
        <3>4. log[i].writer <= log[m].writer /\ log[m].writer \in Nat /\ c \in Nat
            <4>1. log[m].writer \in 1 .. n /\ log[i].writer \in 1 .. n
                BY <1>1
            <4>2. CASE i = m
                BY <4>1, <4>2, <3>1
            <4>3. CASE i < m
                BY <4>1, <4>3, <3>1 DEF LogOK, Ordered
            <4> QED
                BY <4>2, <4>3, <3>2, <3>3
        <3>5. log[m].writer = c
            <4>1. log[m].writer <= c
                BY <2>3, <2>5
            <4> QED
                BY <4>1, <3>1, <3>4
        <3>6. PICK v : v = VersionOf(log[m])
            OBVIOUS
        <3>7. /\ v.begin_ts = log[m].commit_ts /\ v.end_ts = 0
              /\ v.writer = c /\ v.is_tombstone = (log[m].type = "del")
            BY <3>5, <3>6 DEF VersionOf, NewVersion
        <3>8. log[m].type = cs[c].write_set[k]
            BY <2>3, <2>5, <3>5
        <3> QED
            BY <2>5, <3>6, <3>7, <3>8, <1>2 DEF EndsWith
    <2>6. ASSUME NEW m \in 1 .. Len(log), IsReplayed(log[m], found, k)
          PROVE  Kept(k, cs, n, gone) # {}
        BY <2>3, <2>6
    <2> QED
        BY <2>1, <2>2, <2>4, <2>5, <2>6 DEF Rebuilt
<1> QED
    BY <1>3, <1>4 DEF CatalogOK

LEMMA AloneRecover ==
    ASSUME TypeInv, RangesOK, FileInv, NEW s \in Session, AloneAs(s), AfterRecover(s)
    PROVE  AloneAs(s)'
<1>0. /\ Len(commits) \in Nat /\ Len(acked) \in Nat /\ live \in 0 .. Len(logs)
      /\ live # 0 => logs[live] \in Seq(Rec)
    BY AloneFacts
<1>1. /\ stage[s] = "pass1" /\ stage'[s] = "idle" /\ UNCHANGED <<logs, live>>
      /\ UNCHANGED <<commits, acked, wiped>> /\ engine'[s].file = engine[s].file
      /\ txn_of'[s] = NoTxn
    BY DEF AfterRecover, history, RangesOK, SessionOK, Serving
<1>2. /\ \A i \in 1 .. Len(acked) : acked[i] = i
      /\ Len(commits) = Len(acked) /\ live # 0 /\ engine[s].file = live
      /\ LogOK(logs[live], commits, Len(acked), wiped)
      /\ FoundIn(engine[s].committed, logs[live])
    BY <1>1 DEF AloneAs, Committing, HasEngine, EngineOK
<1>3. PICK log, n, cs, gone, found, e :
         /\ log = logs[live] /\ n = Len(acked) /\ cs = commits /\ gone = wiped
         /\ found = engine[s].committed /\ e = engine'[s]
    OBVIOUS
<1>4. /\ n \in Nat /\ Len(cs) = n /\ log \in Seq(Rec) /\ LogOK(log, cs, n, gone)
      /\ FoundIn(found, log)
    BY <1>0, <1>2, <1>3
<1>5. \A i \in 1 .. Len(log) : log[i].writer \notin gone
    <2>1. \A i \in 1 .. Len(log) : IsIn(log[i].writer, live)
        BY <1>0, <1>2, <1>3 DEF FileInv, LogsKeepToFiles, LogOK
    <2> QED
        BY <2>1, <1>3 DEF FileInv
<1>6. PastFound(e, found) /\ \A k \in Key : e.catalog[k] = Replayed(log, found, k)
    <2>1. ReadingsOf(s) = {log}
        BY <1>2, <1>3, AloneReads
    <2> QED
        BY <2>1, <1>3 DEF AfterRecover, PastFound
<1>7. CatalogOK(e, cs, n, gone) /\ CountersOK("idle", e, NoTxn, log, n)
    BY <1>4, <1>5, <1>6, RecoveredCatalog
<1>8. EngineOK("idle", e, NoTxn, log, cs, n, gone)
    BY <1>7 DEF EngineOK
<1> QED
    BY <1>1, <1>2, <1>3, <1>8 DEF AloneAs, Committing, HasEngine

LEMMA InitialAlone ==
    ASSUME ConsoleInit
    PROVE  AloneInv
<1>1. Len(<< >>) = 0
    BY EmptySeq
<1> QED
    BY <1>1 DEF ConsoleInit, Init, AloneInv, AloneAs, HasEngine, Committing

LEMMA AloneStep ==
    ASSUME TypeInv, RangesOK, FileInv, OwnInv, AloneInv, NEW s \in Session,
           After(s), OthersAsBefore(s), OnlyMore
    PROVE  AloneInv'
<1> SUFFICES ASSUME ~ shared'
             PROVE  /\ \A r, q \in Session : HasEngine(r)' /\ HasEngine(q)' => r = q
                    /\ \A r \in Session : NobodyElse(r)' => AloneAs(r)'
    BY DEF AloneInv
<1>1. ~ shared /\ NobodyElse(s)
    <2>1. CASE AfterOpen(s) \/ AfterReset(s)
        BY <2>1 DEF AfterOpen, AfterReset, TypeInv, NotAlone, NobodyElse
    <2>2. CASE ~ (AfterOpen(s) \/ AfterReset(s))
        <3>1. shared' = shared /\ HasEngine(s)
            BY <2>2 DEF After, AfterBegin, AfterWrite, AfterEnd, AfterCommit, AfterAnswer,
               AfterTruncate, AfterPass1, AfterRecover, AfterRedo, AfterAppend, AfterLeave, history,
               HasEngine
        <3> QED
            BY <3>1 DEF AloneInv, NobodyElse
    <2> QED
        BY <2>1, <2>2
<1>2. AloneAs(s)
    BY <1>1 DEF AloneInv
<1>3. AloneAs(s)'
    BY <1>2, AloneOpen, AloneQuiet, AloneTruncate, AlonePass1, AloneForget, AloneCommit, AloneRedo,
       AloneAppend, AloneAnswer, AloneRecover DEF After
<1>4. \A r \in Session \ {s} : ~ HasEngine(r)'
    BY <1>1 DEF NobodyElse, OthersAsBefore, HasEngine
<1>5. ASSUME NEW r \in Session, r # s, NobodyElse(r)'
      PROVE  AloneAs(r)'
    <2>1. ~ HasEngine(s)' /\ ~ HasEngine(r)'
        BY <1>4, <1>5 DEF NobodyElse
    <2> QED
        BY <2>1, <1>3 DEF AloneAs, HasEngine, Committing
<1> QED
    BY <1>3, <1>4, <1>5

-----------------------------------------------------------------------------
\* The invariant holds

LEMMA ConsoleInvHolds == Spec => []ConsoleInv
<1>1. ConsoleInit => ConsoleInv
    BY InitialTypes, InitialRanges, InitialFiles, InitialOwn, InitialAlone DEF ConsoleInv
<1>2. ConsoleInv /\ [Next]_allVars => ConsoleInv'
    <2> SUFFICES ASSUME ConsoleInv, [Next]_allVars
                 PROVE  ConsoleInv'
        OBVIOUS
    <2>1. CASE Next
        <3>1. PICK s \in Session : Steps(s)
            BY <2>1, NextSteps
        <3>2. TypeInv'
            BY <3>1, ConsoleAssumption, TypeStep DEF ConsoleInv
        <3>3. After(s) /\ OthersAsBefore(s) /\ OnlyMore
            BY <3>1, Effects, Frame DEF ConsoleInv
        <3>4. RangesOK'
            BY <3>2, <3>3, RangesStep DEF ConsoleInv
        <3>5. FileInv'
            BY <3>2, <3>3, <3>4, FileStep DEF ConsoleInv
        <3>6. OwnInv'
            BY <3>2, <3>3, OwnStep DEF ConsoleInv
        <3>7. AloneInv'
            BY <3>3, AloneStep DEF ConsoleInv
        <3> QED
            BY <3>2, <3>4, <3>5, <3>6, <3>7 DEF ConsoleInv
    <2>2. CASE UNCHANGED allVars
        <3>1. UNCHANGED <<logs, live, stage, engine, txn_of, commits, acked, own, wiped,
                          wiped_before, shared>>
            BY <2>2 DEF allVars, vars, history
        <3>2. TypeInv'
            BY <3>1 DEF ConsoleInv, TypeInv
        <3>3. RangesOK'
            BY <3>1 DEF ConsoleInv, RangesOK, SessionOK, HasEngine, Committing, Serving,
                        Written
        <3>4. FileInv'
            BY <3>1 DEF ConsoleInv, FileInv, LogsKeepToFiles, KeepsToFile, IsIn, HasEngine,
                        Committing, Written
        <3>5. OwnInv'
            BY <3>1 DEF ConsoleInv, OwnInv, OwnOK, OwnServed, WritesOf, Committing, Serving,
                        EndsWith, Written
        <3>6. AloneInv'
            BY <3>1 DEF ConsoleInv, AloneInv, AloneAs, NobodyElse, HasEngine, Committing,
                        Written
        <3> QED
            BY <3>2, <3>3, <3>4, <3>5, <3>6 DEF ConsoleInv
    <2> QED
        BY <2>1, <2>2
<1> QED
    BY <1>1, <1>2, PTL DEF Spec

-----------------------------------------------------------------------------
(* The properties.                                                         *)

(***************************************************************************)
(* Every engine has its file, every commit under way its transaction, and  *)
(* what was answered or wiped is a commit.                                 *)
(***************************************************************************)
THEOREM ConsoleTypes == Spec => []TypeOK
<1>1. ConsoleInv => TypeOK
    <2> SUFFICES ASSUME ConsoleInv
                 PROVE  TypeOK
        OBVIOUS
    <2>1. DOMAIN acked = 1 .. Len(acked)
        BY DEF ConsoleInv, TypeInv
    <2> QED
        BY <2>1 DEF ConsoleInv, TypeInv, RangesOK, SessionOK, TypeOK, Committing, Range
<1> QED
    BY <1>1, ConsoleInvHolds, PTL

(***************************************************************************)
(* A reset is for good: what it wiped is in no catalog of an engine that   *)
(* was opened after it (app.py: reset_engine).                             *)
(***************************************************************************)
THEOREM ResetIsForGood == Spec => []WipedStaysWiped
<1>1. ConsoleInv => WipedStaysWiped
    <2> SUFFICES ASSUME ConsoleInv, NEW s \in Session, NEW k \in Key,
                        NEW i \in 1 .. Len(engine[s].catalog[k])
                 PROVE  engine[s].catalog[k][i].writer \notin wiped_before[s]
        BY DEF WipedStaysWiped
    <2>1. \/ IsIn(engine[s].catalog[k][i].writer, engine[s].file)
          \/ engine[s].catalog[k][i].writer = None
        BY DEF ConsoleInv, FileInv, KeepsToFile
    <2>3. None \notin wiped_before[s]
        BY ConsoleAssumption DEF ConsoleInv, TypeInv
    <2>2. HasEngine(s)
        <3>1. engine[s].catalog[k] # << >>
            BY EmptySeq
        <3> QED
            BY <3>1 DEF ConsoleInv, RangesOK, SessionOK, Serving, HasEngine
    <2> QED
        BY <2>1, <2>2, <2>3 DEF ConsoleInv, FileInv, KeepsToFile
<1> QED
    BY <1>1, ConsoleInvHolds, PTL

\* What a new snapshot reads of a list that ends with commit c.
LEMMA ReadsLastCommit ==
    ASSUME TypeInv, NEW s \in Session, NEW k \in Key, NEW c, NEW txn,
           EndsWith(engine[s].catalog[k], k, c, txn, engine[s].next_ts)
    PROVE  Read(s, k, Snapshot(s)) = IF txn.write_set[k] = "del" THEN None ELSE c
<1>1. PICK list \in Seq(Version) : list = engine[s].catalog[k]
    BY DEF TypeInv, Engines
<1>2. PICK ts \in Nat : ts = Snapshot(s) /\ ts + 1 = engine[s].next_ts
    <2>1. PICK next \in Nat \ {0} : next = engine[s].next_ts
        BY DEF TypeInv, Engines
    <2> QED
        BY <2>1 DEF Snapshot
<1>3. PICK v : v = list[Len(list)]
    OBVIOUS
<1>4. /\ list # << >> /\ v.begin_ts < engine[s].next_ts /\ v.end_ts = 0
      /\ v.writer = c /\ (v.is_tombstone <=> txn.write_set[k] = "del")
    BY <1>1, <1>3 DEF EndsWith
<1>5. v.begin_ts \in Nat
    <2>1. v \in Version
        BY <1>1, <1>3, <1>4, EmptySeq, LenProperties, ElementOfSeq
    <2> QED
        BY <2>1 DEF Version, VersionBy
<1>6. v.begin_ts <= ts
    BY <1>2, <1>4, <1>5
<1>7. ReadResult(list, Len(list), ts, None) = IF v.is_tombstone THEN None ELSE v.writer
    BY <1>1, <1>3, <1>4, <1>6, ReadIsLast DEF Version
<1> QED
    BY <1>1, <1>2, <1>4, <1>7 DEF Read

(***************************************************************************)
(* A session reads its own commits, whatever the recovery of its engine    *)
(* made of the file, and whatever the engines of others cut off or append  *)
(* (app.py: get_engine, one engine for each session).                      *)
(***************************************************************************)
THEOREM SessionsReadTheirOwn == Spec => []OwnCommitsServed
<1>1. ConsoleInv => OwnCommitsServed
    <2> SUFFICES ASSUME ConsoleInv, NEW s \in Session, NEW k \in Key,
                        stage[s] = "idle", WritesOf(own[s], k) # {}
                 PROVE  Read(s, k, Snapshot(s)) = ResultAt(own[s], WritesOf(own[s], k), k)
        BY DEF OwnCommitsServed
    <2>1. PICK mine, i : mine = WritesOf(own[s], k) /\ i = Max(mine)
        OBVIOUS
    <2>2. i \in mine /\ \A j \in mine : j <= i
        <3>1. Len(own[s]) \in Nat
            BY LenProperties DEF ConsoleInv, TypeInv
        <3>2. mine \in SUBSET (0 .. Len(own[s])) /\ mine # {}
            BY <2>1, <3>1 DEF WritesOf
        <3> QED
            BY <2>1, <3>1, <3>2, MaxFacts
    <2>3. EndsWith(engine[s].catalog[k], k, own[s][i], commits[own[s][i]], engine[s].next_ts)
        BY <2>1, <2>2 DEF ConsoleInv, OwnInv, OwnOK, Serving, OwnServed
    <2>4. Read(s, k, Snapshot(s))
             = IF commits[own[s][i]].write_set[k] = "del" THEN None ELSE own[s][i]
        <3>1. TypeInv
            BY DEF ConsoleInv
        <3>2. PICK c, txn : c = own[s][i] /\ txn = commits[own[s][i]]
            OBVIOUS
        <3>3. EndsWith(engine[s].catalog[k], k, c, txn, engine[s].next_ts)
            BY <2>3, <3>2
        <3>4. Read(s, k, Snapshot(s)) = IF txn.write_set[k] = "del" THEN None ELSE c
            BY <3>1, <3>3, ReadsLastCommit, Zenon
        <3> QED
            BY <3>2, <3>4
    <2> QED
        BY <2>1, <2>2, <2>4 DEF ResultAt
<1> QED
    BY <1>1, ConsoleInvHolds, PTL

\* The commits to a key that are to be served, when one page is open at a time.
LEMMA ServesKept ==
    ASSUME ConsoleInv, ~ shared, NEW s \in Session, stage[s] = "idle", NEW k \in Key
    PROVE  /\ \A i \in 1 .. Len(acked) : acked[i] = i
           /\ Len(commits) = Len(acked) /\ Len(acked) \in Nat
           /\ CatalogOK(engine[s], commits, Len(acked), wiped)
<1>1. AloneAs(s)
    BY DEF ConsoleInv, AloneInv, NobodyElse, HasEngine
<1>2. Len(acked) \in Nat
    BY LenProperties DEF ConsoleInv, TypeInv
<1> QED
    BY <1>1, <1>2 DEF AloneAs, Committing, HasEngine, EngineOK

(***************************************************************************)
(* One page at a time: what is read is the last commit that was answered   *)
(* and not wiped (engine.py: _recover, commit; app.py: reset_engine).      *)
(***************************************************************************)
THEOREM OneStore == Spec => []OnePageIsOneStore
<1>1. ConsoleInv => OnePageIsOneStore
    <2> SUFFICES ASSUME ConsoleInv, ~ shared, NEW s \in Session, NEW k \in Key,
                        stage[s] = "idle",
                        NEW kept, kept = {i \in WritesOf(acked, k) : acked[i] \notin wiped}
                 PROVE  Read(s, k, Snapshot(s)) = ResultAt(acked, kept, k)
        BY DEF OnePageIsOneStore
    <2>1. PICK n \in Nat : n = Len(acked)
        BY ServesKept
    <2>2. /\ \A i \in 1 .. n : acked[i] = i
          /\ CatalogOK(engine[s], commits, n, wiped)
        BY <2>1, ServesKept
    <2>3. kept = Kept(k, commits, n, wiped)
        BY <2>1, <2>2 DEF WritesOf, Kept
    <2>4. CASE kept = {}
        <3>1. engine[s].catalog[k] = << >>
            BY <2>2, <2>3, <2>4 DEF CatalogOK
        <3>2. Read(s, k, Snapshot(s)) = None
            BY <3>1, ReadOfNothing DEF Read
        <3> QED
            BY <2>4, <3>2 DEF ResultAt
    <2>5. CASE kept # {}
        <3>1. PICK c : c = Max(kept)
            OBVIOUS
        <3>2. c \in kept /\ \A d \in kept : d <= c
            <4>1. kept \in SUBSET (0 .. n)
                BY <2>1, <2>3 DEF Kept
            <4> QED
                BY <3>1, <4>1, <2>5, MaxFacts
        <3>3. EndsWith(engine[s].catalog[k], k, c, commits[c], engine[s].next_ts)
            BY <2>2, <2>3, <3>2 DEF CatalogOK
        <3>4. Read(s, k, Snapshot(s)) = IF commits[c].write_set[k] = "del" THEN None ELSE c
            BY <3>3, ReadsLastCommit DEF ConsoleInv
        <3>5. acked[c] = c
            BY <2>2, <2>3, <3>2 DEF Kept
        <3> QED
            BY <2>5, <3>1, <3>4, <3>5 DEF ResultAt
    <2> QED
        BY <2>4, <2>5
<1> QED
    BY <1>1, ConsoleInvHolds, PTL

(***************************************************************************)
(* A COMMIT that is refused for a conflict shows that the engine was       *)
(* shared with another page (engine.py: commit, the conflict check).       *)
(***************************************************************************)
THEOREM ConflictMeansShared == Spec => []ConflictsOnlyIfShared
<1>1. ConsoleInv => ConflictsOnlyIfShared
    <2> SUFFICES ASSUME ConsoleInv, ~ shared, NEW s \in Session, InTxn(s),
                        NEW k \in Written(txn_of[s]),
                        GetLatestCommitTs(engine[s].catalog[k]) > txn_of[s].start_ts
                 PROVE  FALSE
        BY DEF ConflictsOnlyIfShared, Conflicts
    <2>1. PICK ts \in Nat : ts = txn_of[s].start_ts /\ ts + 1 = engine[s].next_ts
        BY DEF ConsoleInv, TypeInv, Txns, InTxn, OwnInv, OwnOK
    <2>2. PICK list \in Seq(Version) : list = engine[s].catalog[k]
        BY DEF ConsoleInv, TypeInv, Engines, Written
    <2>3. list # << >>
        BY <2>1, <2>2 DEF GetLatestCommitTs
    <2>4. k \in Key /\ stage[s] = "idle"
        BY DEF Written, InTxn
    <2>5. PICK n \in Nat : n = Len(acked) /\ CatalogOK(engine[s], commits, n, wiped)
        BY <2>4, ServesKept
    <2>6. PICK kept : kept = Kept(k, commits, n, wiped)
        OBVIOUS
    <2>7. PICK c \in kept : \A d \in kept : c >= d
        <3>1. kept \in SUBSET (0 .. n) /\ kept # {}
            BY <2>2, <2>3, <2>4, <2>5, <2>6 DEF Kept, CatalogOK
        <3> QED
            BY <3>1, LargestNumber
    <2>8. EndsWith(list, k, c, commits[c], engine[s].next_ts)
        <3>1. \A d \in kept : d <= c
            <4>1. \A d \in kept : d \in Nat
                BY <2>5, <2>6 DEF Kept
            <4> QED
                BY <4>1, <2>7
        <3> QED
            BY <3>1, <2>2, <2>4, <2>5, <2>6, <2>7 DEF CatalogOK
    <2>9. list[Len(list)].begin_ts \in Nat
        <3>1. list[Len(list)] \in Version
            BY <2>2, <2>3, EmptySeq, LenProperties, ElementOfSeq
        <3> QED
            BY <3>1 DEF Version, VersionBy
    <2>10. list[Len(list)].begin_ts <= ts
        BY <2>1, <2>8, <2>9 DEF EndsWith
    <2> QED
        BY <2>1, <2>2, <2>3, <2>9, <2>10 DEF GetLatestCommitTs
<1> QED
    BY <1>1, ConsoleInvHolds, PTL

==============================================================================
