-------------------------- MODULE ExperimentsProofs --------------------------
(***************************************************************************)
(* Proofs about the crash tab and the chaos loop, for any number of        *)
(* experiments in one directory, of keys and of fault points to pick from. *)
(***************************************************************************)
EXTENDS ExperimentsProperties, ReplayProofs

-----------------------------------------------------------------------------
(* The invariant: types.  A commit is named by its experiment and the      *)
(* phase that made it.                                                     *)

Name == [by : Session, phase : {"baseline", "worker"}] \cup {None}

Own(s, ph) == [by |-> s, phase |-> ph]

Rec == LogRecord(Key \cup {None}, Name)

Version == VersionBy(Name)

WriteSet == [Key -> {"none", "put", "del"}]

Txns ==
    [active : BOOLEAN, txn_id : Nat, start_ts : Nat, commit_ts : Nat,
     write_set : WriteSet, writer : Name]

Engines ==
    [file : Nat, valid_lsn : Nat, committed : Maps, catalog : [Key -> Seq(Version)],
     next_ts : Nat \ {0}, next_txn_id : Nat \ {0}, todo : SUBSET Key]

Phases == {"start", "baseline", "worker", "verify", "cleanup", "done"}

EngineTypes ==
    /\ logs \in Seq(Seq(Rec)) /\ live \in 0 .. Len(logs)
    /\ stage \in [Session -> Stages]
    /\ engine \in [Session -> Engines]
    /\ txn_of \in [Session -> Txns]

RunTypes ==
    /\ kind \in {"crash", "chaos"}
    /\ baseline \in [Session -> SUBSET Key]
    /\ value \in [Session -> {"", "val"}]
    /\ \A s \in Session : baseline[s] = {} => value[s] = "val"
    /\ pending \in [Session -> SUBSET Key]
    /\ phase \in [Session -> Phases]
    /\ fault \in [Session -> FAULT_POINTS \cup {"none"}]
    /\ verdict \in [Session -> {"none", "PASS", "FAIL", "ERROR"}]
    /\ met \in [Session -> BOOLEAN]

-----------------------------------------------------------------------------
\* The invariant: how far an experiment is

Committing(s) == stage[s] \in {"redo", "sync"}

Serving(s) == stage[s] \in {"idle", "redo", "sync"}

\* The worker's put is in the log, or was.
Wrote(s) ==
    \/ phase[s] = "worker" /\ stage[s] = "redo" /\ engine[s].todo = {}
    \/ phase[s] = "worker" /\ stage[s] = "sync"
    \/ phase[s] = "worker" /\ pending[s] = {}
    \/ phase[s] = "verify" /\ ExpectSurvive(fault[s])

\* What an experiment commits next, in each phase.
PhaseOK(s) ==
    /\ phase[s] = "start" => stage[s] = "none" /\ pending[s] = baseline[s]
    /\ phase[s] = "baseline" =>
          /\ pending[s] \subseteq baseline[s]
          /\ stage[s] \in {"none", "scanned", "truncated", "pass1"}
                => pending[s] = baseline[s]
    /\ phase[s] \in {"worker", "verify"} => fault[s] \in FAULT_POINTS
    /\ phase[s] = "worker" =>
          /\ pending[s] \subseteq {WorkerKey(fault[s])}
          /\ Wrote(s) => ExpectSurvive(fault[s])
    /\ phase[s] = "verify" => pending[s] = {}

\* A commit under way is of one key.
EngineOK(s) ==
    /\ stage[s] # "none" => UsesEngine(s) /\ engine[s].file \in 1 .. Len(logs)
    /\ Committing(s) =>
          /\ \E k \in pending[s] :
                Written(txn_of[s]) = {k} /\ txn_of[s].write_set[k] = "put"
          /\ txn_of[s].writer = Own(s, phase[s])
          /\ txn_of[s].commit_ts < engine[s].next_ts
          /\ engine[s].todo \subseteq Written(txn_of[s])

SessionsOK == \A s \in Session : PhaseOK(s) /\ EngineOK(s)

Basics == EngineTypes /\ RunTypes /\ SessionsOK

-----------------------------------------------------------------------------
(* What each step leaves behind, field by field.                           *)

\* Only session s has moved.
Others(s) ==
    /\ UNCHANGED <<kind, baseline, value>>
    /\ \A r \in Session \ {s} :
          /\ stage'[r] = stage[r] /\ engine'[r] = engine[r] /\ txn_of'[r] = txn_of[r]
          /\ phase'[r] = phase[r] /\ pending'[r] = pending[r]
          /\ fault'[r] = fault[r] /\ verdict'[r] = verdict[r]

Typed(s) == EngineTypes' /\ RunTypes' /\ Others(s)

AfterOpen(s) ==
    /\ Typed(s)
    /\ stage[s] = "none" /\ stage'[s] = "scanned"
    /\ live' \in 1 .. Len(logs')
    /\ live # 0 => UNCHANGED <<logs, live>>
    /\ live = 0 =>
          /\ Len(logs') = Len(logs) + 1 /\ live' = Len(logs) + 1
          /\ logs'[live'] = << >>
          /\ \A f \in 1 .. Len(logs) : logs'[f] = logs[f]
    /\ engine'[s].file = live'
    /\ engine'[s].valid_lsn = Total(logs'[live'])[WholePrefix(logs'[live'])]
    /\ \A k \in Key : engine'[s].catalog[k] = << >>
    /\ UNCHANGED <<pending, fault, verdict>>

AfterStart(s) ==
    /\ AfterOpen(s)
    /\ phase[s] = "start" /\ phase'[s] = "baseline"
    /\ \A r \in Session : met[r] => met'[r]
    /\ \A r \in Session \ {s} : AtWork(r) => met'[r] /\ met'[s]
    /\ \A r \in Session : met'[r] => met[r] \/ met'[s]
    /\ (\E r \in Session : met[r]) => met'[s]

AfterTruncate(s) ==
    LET f == engine[s].file
    IN  /\ Typed(s)
        /\ stage[s] = "scanned" /\ stage'[s] = "truncated"
        /\ Len(logs') = Len(logs)
        /\ logs'[f] = CutAt(logs[f], engine[s].valid_lsn, None)
        /\ \A g \in 1 .. Len(logs) : g # f => logs'[g] = logs[g]
        /\ UNCHANGED <<live, engine, txn_of, runVars>>

AfterPass1(s) ==
    /\ Typed(s)
    /\ stage[s] = "truncated" /\ stage'[s] = "pass1"
    /\ engine'[s].file = engine[s].file
    /\ \E log \in ReadingsOf(s) : engine'[s].committed = CommittedTxns(log)
    /\ engine'[s].catalog = engine[s].catalog
    /\ engine'[s].next_ts = engine[s].next_ts
    /\ UNCHANGED <<logs, live, runVars>>

AfterRecover(s) ==
    LET found == engine[s].committed
    IN  /\ Typed(s)
        /\ stage[s] = "pass1" /\ stage'[s] = "idle"
        /\ engine'[s].file = engine[s].file
        /\ \E log \in ReadingsOf(s) :
              \A k \in Key : engine'[s].catalog[k] = Replayed(log, found, k)
        /\ engine'[s].next_ts = PastAll({found[id] : id \in DOMAIN found})
        /\ engine'[s].next_txn_id = PastAll(DOMAIN found)
        /\ UNCHANGED <<logs, live, runVars>>

AfterCommit(s, k) ==
    /\ Typed(s)
    /\ stage[s] = "idle" /\ stage'[s] = "redo"
    /\ UsesEngine(s) /\ k \in pending[s]
    /\ txn_of'[s].txn_id = engine[s].next_txn_id
    /\ txn_of'[s].commit_ts = engine[s].next_ts
    /\ txn_of'[s].writer = Own(s, phase[s])
    /\ Written(txn_of'[s]) = {k} /\ txn_of'[s].write_set[k] = "put"
    /\ engine'[s].file = engine[s].file
    /\ engine'[s].next_ts = engine[s].next_ts + 1
    /\ engine'[s].next_txn_id = engine[s].next_txn_id + 1
    /\ engine'[s].todo = {k}
    /\ engine'[s].catalog = engine[s].catalog
    /\ UNCHANGED <<logs, live, runVars>>

\* new are the log files when r is appended to file f.
AppendedTo(new, f, r) ==
    /\ new \in Seq(Seq(Rec)) /\ Len(new) = Len(logs)
    /\ \A g \in 1 .. Len(logs) : g # f => new[g] = logs[g]
    /\ Len(logs[f]) \in Nat /\ Len(new[f]) = Len(logs[f]) + 1
    /\ new[f][Len(logs[f]) + 1] = r
    /\ \A i \in 1 .. Len(logs[f]) : new[f][i] = logs[f][i]

RecordOf(s, type, k, n) ==
    Record(type, txn_of[s].txn_id, txn_of[s].commit_ts, k, txn_of[s].writer, n)

AfterRedo(s, k) ==
    /\ Typed(s)
    /\ stage[s] = "redo" /\ ~ DiesBeforeAppend(s)
    /\ \E n \in Nat \ {0} :
          AppendedTo(logs', engine[s].file, RecordOf(s, "put", k, n))
    /\ Written(txn_of[s]) = {k} /\ k \in engine[s].todo
    /\ UNCHANGED <<live, stage, txn_of, runVars>>
    /\ engine'[s] = [engine[s] EXCEPT !.todo = {}]

AfterAppendCommit(s) ==
    /\ Typed(s)
    /\ stage[s] = "redo" /\ stage'[s] = "sync" /\ ~ DiesBeforeAppend(s)
    /\ engine[s].todo = {}
    /\ AppendedTo(logs', engine[s].file, RecordOf(s, "commit", None, CommitSize))
    /\ UNCHANGED <<live, engine, txn_of, runVars>>

AfterAck(s) ==
    /\ Typed(s)
    /\ stage[s] = "sync" /\ stage'[s] = "idle"
    /\ engine'[s].file = engine[s].file
    /\ engine'[s].next_ts = engine[s].next_ts
    /\ engine'[s].next_txn_id = engine[s].next_txn_id
    /\ \A k \in Key :
          engine'[s].catalog[k] = WithVersion(engine[s].catalog[k], txn_of[s], k)
    /\ pending'[s] = pending[s] \ Written(txn_of[s])
    /\ UNCHANGED <<logs, live, phase, fault, verdict, met>>

\* An engine is closed, or its process gone.
AfterForget(s) ==
    /\ Typed(s)
    /\ stage'[s] = "none"
    /\ \A k \in Key : engine'[s].catalog[k] = << >>
    /\ UNCHANGED <<live, met>>

AfterWorker(s) ==
    /\ AfterForget(s)
    /\ phase[s] = "worker" /\ phase'[s] = "verify" /\ pending'[s] = {}
    /\ \/ stage[s] = "redo" /\ DiesBeforeAppend(s)
       \/ stage[s] = "sync"
       \/ stage[s] = "idle" /\ pending[s] = {}
    /\ UNCHANGED <<fault, verdict>>
    /\ \/ logs' = logs
       \/ \E n \in Nat \ {0} :
             AppendedTo(logs', engine[s].file, Damage("torn", n, None))

AfterBaseline(s) ==
    /\ AfterForget(s)
    /\ phase[s] = "baseline" /\ stage[s] = "idle" /\ pending[s] = {}
    /\ phase'[s] = "worker" /\ fault'[s] \in FAULT_POINTS
    /\ pending'[s] = {WorkerKey(fault'[s])}
    /\ UNCHANGED <<logs, verdict>>

AfterRaise(s) ==
    /\ AfterForget(s)
    /\ UsesEngine(s)
    /\ RecoverRaises(s) \/ Refused(s)
    /\ pending'[s] = {}
    /\ phase'[s] = IF phase[s] = "worker" THEN "verify" ELSE After
    /\ UNCHANGED <<logs, fault>>

AfterVerify(s) ==
    /\ AfterForget(s)
    /\ phase[s] = "verify" /\ stage[s] = "idle" /\ phase'[s] = After
    /\ verdict'[s] = IF \A k \in baseline[s] : Matches(s, k) THEN "PASS" ELSE "FAIL"
    /\ UNCHANGED <<logs, pending, fault>>

AfterCleanup(s) ==
    /\ Typed(s)
    /\ phase[s] = "cleanup" /\ phase'[s] = "done" /\ live' = 0
    /\ UNCHANGED <<logs, stage, engine, txn_of, pending, fault, verdict, met>>

Steps(s) ==
    \/ AfterStart(s)
    \/ AfterOpen(s) /\ UsesEngine(s) /\ UNCHANGED runVars
    \/ AfterTruncate(s)
    \/ AfterPass1(s)
    \/ AfterRecover(s)
    \/ \E k \in Key : AfterCommit(s, k)
    \/ \E k \in Key : AfterRedo(s, k)
    \/ AfterAppendCommit(s)
    \/ AfterAck(s)
    \/ AfterWorker(s)
    \/ AfterBaseline(s)
    \/ AfterRaise(s)
    \/ AfterVerify(s)
    \/ AfterCleanup(s)

LEMMA NothingIsTyped == NoEngine \in Engines /\ NoTxn \in Txns
<1>1. << >> \in Maps
    <2>1. << >> \in [{} -> Nat]
        OBVIOUS
    <2>2. {} \in SUBSET Nat /\ DOMAIN << >> = {}
        OBVIOUS
    <2> QED
        BY <2>1, <2>2 DEF Maps
<1>2. [k \in Key |-> << >>] \in [Key -> Seq(Version)]
    BY EmptySeq
<1>3. NoEngine \in Engines
    BY <1>1, <1>2 DEF NoEngine, Engines
<1>4. NoTxn \in Txns
    BY DEF NoTxn, Txns, WriteSet, Name
<1> QED
    BY <1>3, <1>4

LEMMA OpenEffect ==
    ASSUME Basics, NEW s \in Session, Open(s), RunTypes',
           UNCHANGED <<kind, baseline, value, pending, fault, verdict>>,
           \A r \in Session \ {s} : phase'[r] = phase[r]
    PROVE  AfterOpen(s)
<1>0. /\ NoEngine \in Engines /\ logs \in Seq(Seq(Rec)) /\ live \in 0 .. Len(logs)
      /\ stage \in [Session -> Stages] /\ engine \in [Session -> Engines]
      /\ txn_of \in [Session -> Txns] /\ Len(logs) \in Nat
    BY LenProperties, NothingIsTyped DEF Basics, EngineTypes
<1>1. /\ logs' \in Seq(Seq(Rec)) /\ live' \in 0 .. Len(logs') /\ live' \in 1 .. Len(logs')
      /\ logs'[live'] \in Seq(Rec)
      /\ live # 0 => UNCHANGED <<logs, live>>
      /\ live = 0 => /\ Len(logs') = Len(logs) + 1 /\ live' = Len(logs) + 1
                     /\ logs'[live'] = << >>
                     /\ \A f \in 1 .. Len(logs) : logs'[f] = logs[f]
    <2>1. CASE live = 0
        <3>1. logs' = Append(logs, << >>) /\ live' = Len(logs')
            BY <2>1 DEF Open
        <3>2. << >> \in Seq(Rec)
            BY EmptySeq
        <3> QED
            BY <2>1, <3>1, <3>2, <1>0, AppendProperties
    <2>2. CASE live # 0
        <3>1. logs' = logs /\ live' = live
            BY <2>2 DEF Open
        <3> QED
            BY <3>1, <2>2, <1>0, ElementOfSeq
    <2> QED
        BY <2>1, <2>2
<1>2. PICK n \in Nat : n = Total(logs'[live'])[WholePrefix(logs'[live'])]
    <2>1. PICK log \in Seq(Rec) : log = logs'[live']
        BY <1>1
    <2>2. WholePrefix(log) \in 0 .. Len(log)
        BY WholePrefixFacts DEF Rec
    <2>3. Total(log)[WholePrefix(log)] \in Nat
        BY <2>2, CutBehind DEF Rec
    <2> QED
        BY <2>1, <2>3
<1>3. PICK e : e = [NoEngine EXCEPT !.file = live', !.valid_lsn = n]
    OBVIOUS
<1>4. e \in Engines /\ e.file = live' /\ e.valid_lsn = n /\ e.catalog = NoEngine.catalog
    <2>1. PICK f \in Nat : f = live'
        BY <1>1, <1>0
    <2> QED
        BY <1>3, <2>1, <1>0 DEF Engines
<1>5. engine' = [engine EXCEPT ![s] = e]
    BY <1>2, <1>3 DEF Open
<1>6. stage[s] = "none" /\ stage' = [stage EXCEPT ![s] = "scanned"] /\ txn_of' = txn_of
    BY DEF Open
<1>7. EngineTypes'
    BY <1>0, <1>1, <1>4, <1>5, <1>6 DEF EngineTypes, Stages
<1>8. Others(s)
    BY <1>0, <1>5, <1>6 DEF Others
<1>9. engine'[s] = e /\ stage'[s] = "scanned"
    BY <1>0, <1>5, <1>6
<1>10. \A k \in Key : e.catalog[k] = << >>
    BY <1>4 DEF NoEngine
<1> QED
    BY <1>1, <1>2, <1>4, <1>6, <1>7, <1>8, <1>9, <1>10 DEF AfterOpen, Typed

LEMMA StartEffect ==
    ASSUME Basics, NEW s \in Session, Start(s)
    PROVE  AfterStart(s)
<1>0. /\ RunTypes /\ phase \in [Session -> Phases] /\ met \in [Session -> BOOLEAN]
    BY DEF Basics, RunTypes
<1>1. PICK others : others = {r \in Session \ {s} : AtWork(r)}
    OBVIOUS
<1>2. /\ phase[s] = "start" /\ phase' = [phase EXCEPT ![s] = "baseline"] /\ Open(s)
      /\ UNCHANGED <<kind, baseline, value, pending, fault, verdict>>
    BY DEF Start
<1>3. met' = [r \in Session |->
                \/ met[r] \/ r \in others
                \/ r = s /\ (others # {} \/ \E q \in Session : met[q])]
    BY <1>1, Zenon DEF Start
<1>4. met' \in [Session -> BOOLEAN]
    BY <1>3
<1>5. RunTypes'
    BY <1>0, <1>2, <1>4 DEF RunTypes, Phases
<1>6. \A r \in Session : met[r] => met'[r]
    BY <1>3
<1>7. \A r \in Session \ {s} : AtWork(r) => met'[r] /\ met'[s]
    BY <1>1, <1>3
<1>8. phase'[s] = "baseline" /\ \A r \in Session \ {s} : phase'[r] = phase[r]
    BY <1>0, <1>2
<1>9. AfterOpen(s)
    BY <1>2, <1>5, <1>8, OpenEffect
<1>10. (\E r \in Session : met[r]) => met'[s]
    BY <1>3
<1>11. \A r \in Session : met'[r] => met[r] \/ met'[s]
    BY <1>1, <1>3
<1> QED
    BY <1>2, <1>6, <1>7, <1>8, <1>9, <1>10, <1>11 DEF AfterStart

\* Damage is a record without a name.
LEMMA DamageIsTyped ==
    ASSUME NEW type \in {"torn", "zeros"}, NEW n \in Nat \ {0}
    PROVE  /\ Damage(type, n, None) \in Rec
           /\ Damage(type, n, None).type = type
           /\ Damage(type, n, None).txn_id = Damage(type, n, None).commit_ts
BY DEF Damage, Record, Rec, LogRecord, Name

LEMMA GarbageFacts ==
    Garbage \in SUBSET Rec /\ MaxMisread \in Nat /\ \A r \in Garbage : ~ IsTorn(r)
<1>1. ASSUME NEW r \in Garbage
      PROVE  r \in Rec /\ ~ IsTorn(r)
    <2>1. PICK type, id, ts, k :
             type = r.type /\ id = r.txn_id /\ ts = r.commit_ts /\ k = r.key
        OBVIOUS
    <2>2. /\ r = Record(type, id, ts, k, None, CommitSize)
          /\ type \in {"put", "del", "commit"} /\ k \in Key \cup {None}
          /\ id \in Nat /\ ts \in Nat
        BY <2>1, SharedDirAssumption
    <2>3. CommitSize \in Nat \ {0}
        BY DEF CommitSize
    <2> QED
        BY <2>1, <2>2, <2>3 DEF Record, Rec, LogRecord, Name, IsTorn
<1> QED
    BY <1>1, SharedDirAssumption

\* Whatever the passes read are records.
LEMMA ReadingIsTyped ==
    ASSUME Basics, NEW s \in Session, stage[s] # "none", NEW log \in ReadingsOf(s)
    PROVE  log \in Seq(Rec)
<1>1. Log(s) \in Seq(Rec)
    BY ElementOfSeq DEF Basics, EngineTypes, SessionsOK, EngineOK, Log
<1>2. PICK file, garbage, most : file = Log(s) /\ garbage = Garbage /\ most = MaxMisread
    OBVIOUS
<1>3. PICK K, W : Rec = LogRecord(K, W)
    BY DEF Rec
<1>4. /\ file \in Seq(LogRecord(K, W)) /\ garbage \in SUBSET LogRecord(K, W)
      /\ (\A r \in garbage : ~ IsTorn(r)) /\ most \in Nat
    BY <1>1, <1>2, <1>3, GarbageFacts
<1>5. log \in Readings(file, garbage, most)
    BY <1>2 DEF ReadingsOf
<1>6. log \in Seq(LogRecord(K, W))
    BY <1>4, <1>5, ReadingsFacts
<1> QED
    BY <1>3, <1>6

LEMMA TruncateEffect ==
    ASSUME Basics, NEW s \in Session, Truncate(s), UNCHANGED runVars
    PROVE  AfterTruncate(s)
<1>0. /\ logs \in Seq(Seq(Rec)) /\ live \in 0 .. Len(logs)
      /\ stage \in [Session -> Stages] /\ Len(logs) \in Nat /\ engine[s] \in Engines
    BY LenProperties DEF Basics, EngineTypes
<1>1. PICK f : f = engine[s].file
    OBVIOUS
<1>2. stage[s] = "scanned" /\ f \in 1 .. Len(logs)
    BY <1>1 DEF Truncate, Basics, SessionsOK, EngineOK
<1>3. PICK n \in Nat : n = engine[s].valid_lsn
    BY <1>0 DEF Engines
<1>4. PICK log : log = CutAt(logs[f], n, None)
    OBVIOUS
<1>5. log \in Seq(Rec)
    <2>1. PICK old \in Seq(Rec) : old = logs[f]
        BY <1>2, <1>0, ElementOfSeq
    <2>2. None \in Key \cup {None} /\ None \in Name
        BY DEF Name
    <2>3. CutAt(old, n, None) \in Seq(Rec)
        BY <2>2, CutFacts DEF Rec
    <2> QED
        BY <1>4, <2>1, <2>3
<1>6. logs' = [logs EXCEPT ![f] = log]
    BY <1>1, <1>3, <1>4, <1>0 DEF Truncate
<1>7. /\ logs' \in Seq(Seq(Rec)) /\ Len(logs') = Len(logs) /\ logs'[f] = log
      /\ \A g \in 1 .. Len(logs) : g # f => logs'[g] = logs[g]
    BY <1>2, <1>5, <1>6, <1>0, ExceptSeq
<1>8. stage' = [stage EXCEPT ![s] = "truncated"] /\ UNCHANGED <<live, engine, txn_of>>
    BY DEF Truncate
<1>9. EngineTypes'
    BY <1>0, <1>7, <1>8 DEF Basics, EngineTypes, Stages
<1>10. RunTypes'
    BY DEF Basics, RunTypes, runVars
<1>11. Others(s)
    BY <1>0, <1>8 DEF Others, runVars
<1>12. stage'[s] = "truncated"
    BY <1>0, <1>8
<1> QED
    BY <1>1, <1>2, <1>3, <1>4, <1>7, <1>8, <1>9, <1>10, <1>11, <1>12
    DEF AfterTruncate, Typed

LEMMA Pass1Effect ==
    ASSUME Basics, NEW s \in Session, Pass1(s), UNCHANGED runVars
    PROVE  AfterPass1(s)
<1>0. /\ stage \in [Session -> Stages] /\ engine \in [Session -> Engines]
      /\ engine[s] \in Engines
    BY DEF Basics, EngineTypes
<1>1. stage[s] = "truncated"
    BY DEF Pass1
<1>2. PICK log \in ReadingsOf(s) :
         engine' = [engine EXCEPT ![s].committed = CommittedTxns(log)]
    BY DEF Pass1
<1>3. log \in Seq(Rec)
    BY <1>1, ReadingIsTyped
<1>4. PICK found \in Maps : found = CommittedTxns(log)
    BY <1>3, CommittedFacts DEF Rec
<1>5. PICK e : e = [engine[s] EXCEPT !.committed = found]
    OBVIOUS
<1>6. /\ e \in Engines /\ e.file = engine[s].file /\ e.committed = found
      /\ e.catalog = engine[s].catalog /\ e.next_ts = engine[s].next_ts
    BY <1>0, <1>5 DEF Engines
<1>7. engine' = [engine EXCEPT ![s] = e]
    BY <1>0, <1>2, <1>4, <1>5
<1>8. stage' = [stage EXCEPT ![s] = "pass1"] /\ UNCHANGED <<logs, live, txn_of>>
    BY DEF Pass1
<1>9. EngineTypes'
    BY <1>0, <1>6, <1>7, <1>8 DEF Basics, EngineTypes, Stages
<1>10. RunTypes'
    BY DEF Basics, RunTypes, runVars
<1>11. Others(s)
    BY <1>0, <1>7, <1>8 DEF Others, runVars
<1>12. engine'[s] = e /\ stage'[s] = "pass1"
    BY <1>0, <1>7, <1>8
<1> QED
    BY <1>1, <1>2, <1>4, <1>6, <1>8, <1>9, <1>10, <1>11, <1>12 DEF AfterPass1, Typed

LEMMA RecoverEffect ==
    ASSUME Basics, NEW s \in Session, Recover(s), UNCHANGED runVars
    PROVE  AfterRecover(s)
<1>0. /\ stage \in [Session -> Stages] /\ engine \in [Session -> Engines]
      /\ engine[s] \in Engines
    BY DEF Basics, EngineTypes
<1>1. stage[s] = "pass1"
    BY DEF Recover
<1>2. PICK log \in ReadingsOf(s) :
         engine' = [engine EXCEPT ![s] = Recovered(engine[s], log)]
    BY DEF Recover
<1>3. log \in Seq(Rec)
    BY <1>1, ReadingIsTyped
<1>4. PICK found \in Maps : found = engine[s].committed
    BY <1>0 DEF Engines
<1>5. PICK cat : cat = [k \in Key |-> Replayed(log, found, k)]
    OBVIOUS
<1>6. cat \in [Key -> Seq(Version)]
    <2>1. ASSUME NEW k \in Key
          PROVE  Replayed(log, found, k) \in Seq(Version)
        <3>1. Rebuilt(Replayed(log, found, k), log, Len(log), found, k, Name)
            BY <1>3, ReplayedFacts DEF Rec
        <3> QED
            BY <3>1 DEF Rebuilt, Version
    <2> QED
        BY <1>5, <2>1
<1>7. PICK ts, nid : /\ ts = PastAll({found[i] : i \in DOMAIN found})
                     /\ nid = PastAll(DOMAIN found)
    OBVIOUS
<1>8. ts \in Nat \ {0} /\ nid \in Nat \ {0}
    <2>1. PICK b \in Nat : \A i \in DOMAIN found : i <= b /\ found[i] <= b
        BY <1>4 DEF Maps
    <2>2. /\ {found[i] : i \in DOMAIN found} \in SUBSET (0 .. b)
          /\ DOMAIN found \in SUBSET (0 .. b)
        <3>1. PICK D \in SUBSET Nat : found \in [D -> Nat]
            BY <1>4 DEF Maps
        <3>2. \A i \in DOMAIN found : i \in Nat /\ found[i] \in Nat
            BY <3>1
        <3> QED
            BY <3>2, <2>1
    <2> QED
        BY <1>7, <2>1, <2>2, PastAllFacts
<1>9. PICK e : e = Recovered(engine[s], log)
    OBVIOUS
<1>10. /\ e \in Engines /\ e.file = engine[s].file /\ e.catalog = cat
       /\ e.next_ts = ts /\ e.next_txn_id = nid
    <2>1. << >> \in Maps
        BY NothingIsTyped DEF NoEngine, Engines
    <2>2. e = [engine[s] EXCEPT !.valid_lsn = 0, !.committed = << >>,
                   !.catalog = cat, !.next_ts = ts, !.next_txn_id = nid]
        BY <1>4, <1>5, <1>7, <1>9, SMT DEF Recovered
    <2> QED
        BY <1>6, <1>8, <2>1, <2>2, <1>0 DEF Engines
<1>11. engine' = [engine EXCEPT ![s] = e]
    BY <1>2, <1>9
<1>12. stage' = [stage EXCEPT ![s] = "idle"] /\ UNCHANGED <<logs, live, txn_of>>
    BY DEF Recover
<1>13. EngineTypes'
    BY <1>0, <1>10, <1>11, <1>12 DEF Basics, EngineTypes, Stages
<1>14. RunTypes'
    BY DEF Basics, RunTypes, runVars
<1>15. Others(s)
    BY <1>0, <1>11, <1>12 DEF Others, runVars
<1>16. engine'[s] = e /\ stage'[s] = "idle"
    BY <1>0, <1>11, <1>12
<1>17. \A k \in Key : e.catalog[k] = Replayed(log, found, k)
    BY <1>5, <1>10
<1> QED
    BY <1>1, <1>2, <1>4, <1>7, <1>10, <1>12, <1>13, <1>14, <1>15, <1>16, <1>17
    DEF AfterRecover, Typed

\* A transaction that puts one key.
LEMMA TxnWithFacts ==
    ASSUME Basics, NEW s \in Session, NEW k \in Key
    PROVE  /\ TxnWith(s, k) \in Txns
           /\ TxnWith(s, k).txn_id = engine[s].next_txn_id
           /\ TxnWith(s, k).start_ts = engine[s].next_ts - 1
           /\ Written(TxnWith(s, k)) = {k} /\ TxnWith(s, k).write_set[k] = "put"
<1>0. /\ NoTxn \in Txns /\ engine[s] \in Engines
      /\ NoTxn.write_set = [j \in Key |-> "none"]
    BY NothingIsTyped DEF Basics, EngineTypes, NoTxn
<1>1. PICK id \in Nat, ts \in Nat :
        /\ id = engine[s].next_txn_id /\ ts = engine[s].next_ts - 1 /\ ts = Snapshot(s)
    BY <1>0 DEF Engines, Snapshot
<1>2. PICK w : w = [NoTxn.write_set EXCEPT ![k] = "put"]
    OBVIOUS
<1>3. /\ w \in WriteSet /\ w[k] = "put"
      /\ \A j \in Key : j # k => w[j] = "none"
    BY <1>0, <1>2 DEF WriteSet
<1>4. PICK t : t = [NoTxn EXCEPT !.active = TRUE, !.txn_id = id, !.start_ts = ts]
    OBVIOUS
<1>5. t \in Txns /\ t.txn_id = id /\ t.start_ts = ts /\ t.write_set = NoTxn.write_set
    BY <1>0, <1>4 DEF Txns
<1>6. t = BegunTxn(s)
    BY <1>1, <1>4 DEF BegunTxn
<1>7. PICK u : u = [t EXCEPT !.write_set = w]
    OBVIOUS
<1>8. u \in Txns /\ u.txn_id = id /\ u.start_ts = ts /\ u.write_set = w
    BY <1>3, <1>5, <1>7 DEF Txns
<1>9. TxnWith(s, k) = u
    BY <1>2, <1>5, <1>6, <1>7 DEF TxnWith, Txns
<1>10. Written(u) = {k}
    BY <1>3, <1>8 DEF Written
<1> QED
    BY <1>1, <1>3, <1>8, <1>9, <1>10

LEMMA CommitEffect ==
    ASSUME Basics, NEW s \in Session, Commit(s)
    PROVE  \E k \in Key : AfterCommit(s, k)
<1>0. /\ logs \in Seq(Seq(Rec)) /\ live \in 0 .. Len(logs)
      /\ stage \in [Session -> Stages] /\ engine \in [Session -> Engines]
      /\ txn_of \in [Session -> Txns] /\ Len(logs) \in Nat /\ engine[s] \in Engines
      /\ pending[s] \in SUBSET Key
    BY LenProperties DEF Basics, EngineTypes, RunTypes
<1>1. PICK k \in pending[s] : CommitStart(s, TxnWith(s, k), Own(s, phase[s]))
    BY DEF Commit, Own
<1>2. UsesEngine(s) /\ UNCHANGED runVars
    BY DEF Commit
<1>3. k \in Key
    BY <1>0
<1>4. PICK u : u = TxnWith(s, k)
    OBVIOUS
<1>5. /\ u \in Txns /\ u.txn_id = engine[s].next_txn_id /\ Written(u) = {k}
      /\ u.write_set[k] = "put"
    BY <1>3, <1>4, TxnWithFacts
<1>6. PICK ts \in Nat \ {0}, id \in Nat \ {0} :
        ts = engine[s].next_ts /\ id = engine[s].next_txn_id
    BY <1>0 DEF Engines
<1>7. /\ stage[s] = "idle"
      /\ txn_of' = [txn_of EXCEPT ![s] =
            [u EXCEPT !.commit_ts = engine[s].next_ts, !.writer = Own(s, phase[s])]]
      /\ engine' = [engine EXCEPT ![s].next_ts = @ + 1,
                                  ![s].next_txn_id = u.txn_id + 1,
                                  ![s].todo = Written(u)]
      /\ stage' = [stage EXCEPT ![s] = "redo"]
      /\ UNCHANGED <<logs, live>>
    BY <1>1, <1>4, Zenon DEF CommitStart
<1>8. phase[s] \in {"baseline", "worker"}
    <2>1. phase[s] # "verify"
        BY DEF Basics, SessionsOK, PhaseOK
    <2> QED
        BY <1>2, <2>1 DEF UsesEngine
<1>9. PICK w \in Name : w = Own(s, phase[s])
    BY <1>8 DEF Name, Own
<1>10. PICK t : t = [u EXCEPT !.commit_ts = ts, !.writer = w]
    OBVIOUS
<1>11. /\ t \in Txns /\ t.txn_id = id /\ t.commit_ts = ts /\ t.writer = w
       /\ t.write_set = u.write_set
    BY <1>5, <1>6, <1>10 DEF Txns
<1>12. Written(t) = {k} /\ t.write_set[k] = "put"
    BY <1>5, <1>11 DEF Written
<1>13. PICK ts1 \in Nat \ {0}, id1 \in Nat \ {0} : ts1 = ts + 1 /\ id1 = id + 1
    OBVIOUS
<1>14. PICK e : e = [engine[s] EXCEPT !.next_ts = ts1, !.next_txn_id = id1, !.todo = {k}]
    OBVIOUS
<1>15. /\ e \in Engines /\ e.next_ts = ts1 /\ e.next_txn_id = id1 /\ e.todo = {k}
       /\ e.file = engine[s].file /\ e.catalog = engine[s].catalog
    BY <1>0, <1>3, <1>14 DEF Engines
<1>16. txn_of' = [txn_of EXCEPT ![s] = t]
    BY <1>6, <1>7, <1>9, <1>10
<1>17. engine' = [engine EXCEPT ![s] = e]
    BY <1>0, <1>5, <1>6, <1>7, <1>13, <1>14
<1>18. EngineTypes'
    <2>1. stage' = [stage EXCEPT ![s] = "redo"] /\ logs' = logs /\ live' = live
        BY <1>7
    <2> QED
        BY <1>0, <1>11, <1>15, <1>16, <1>17, <2>1 DEF EngineTypes, Stages
<1>19. RunTypes'
    BY <1>2 DEF Basics, RunTypes, runVars
<1>20. Others(s)
    BY <1>0, <1>2, <1>7, <1>16, <1>17 DEF Others, runVars
<1>21. engine'[s] = e /\ txn_of'[s] = t /\ stage'[s] = "redo"
    BY <1>0, <1>7, <1>16, <1>17
<1>22. Written(txn_of'[s]) = {k}
    BY <1>12, <1>21
<1>23. AfterCommit(s, k)
    BY <1>2, <1>6, <1>7, <1>9, <1>11, <1>12, <1>13, <1>15, <1>18, <1>19, <1>20, <1>21,
       <1>22 DEF AfterCommit, Typed
<1> QED
    BY <1>3, <1>23

LEMMA AppendedFacts ==
    ASSUME EngineTypes, NEW f \in 1 .. Len(logs), NEW r \in Rec
    PROVE  AppendedTo([logs EXCEPT ![f] = Append(@, r)], f, r)
<1>1. logs \in Seq(Seq(Rec)) /\ logs[f] \in Seq(Rec)
    BY ElementOfSeq DEF EngineTypes
<1>2. PICK log : log = Append(logs[f], r)
    OBVIOUS
<1>3. /\ log \in Seq(Rec) /\ Len(log) = Len(logs[f]) + 1 /\ Len(logs[f]) \in Nat
      /\ log[Len(logs[f]) + 1] = r
      /\ \A i \in 1 .. Len(logs[f]) : log[i] = logs[f][i]
    BY <1>1, <1>2, AppendProperties, LenProperties
<1>4. PICK new : new = [logs EXCEPT ![f] = log]
    OBVIOUS
<1>5. /\ new \in Seq(Seq(Rec)) /\ Len(new) = Len(logs) /\ new[f] = log
      /\ \A g \in 1 .. Len(logs) : g # f => new[g] = logs[g]
    BY <1>1, <1>3, <1>4, ExceptSeq
<1>6. [logs EXCEPT ![f] = Append(@, r)] = new
    BY <1>2, <1>4
<1> QED
    BY <1>3, <1>5, <1>6 DEF AppendedTo

\* What a commit appends.
LEMMA RecordFacts ==
    ASSUME Basics, NEW s \in Session, Committing(s), NEW type \in {"put", "commit"},
           NEW k \in Key \cup {None}, NEW n \in Nat \ {0}
    PROVE  /\ RecordOf(s, type, k, n) \in Rec
           /\ engine[s].file \in 1 .. Len(logs)
           /\ Appended(s, type, k, n) =
                [logs EXCEPT ![engine[s].file] = Append(@, RecordOf(s, type, k, n))]
<1>1. txn_of[s] \in Txns
    BY DEF Basics, EngineTypes
<1>2. RecordOf(s, type, k, n) \in Rec
    BY <1>1 DEF RecordOf, Record, Rec, LogRecord, Txns
<1>3. engine[s].file \in 1 .. Len(logs)
    BY DEF Committing, Basics, SessionsOK, EngineOK
<1> QED
    BY <1>2, <1>3, Zenon DEF Appended, RecordOf

LEMMA RedoEffect ==
    ASSUME Basics, NEW s \in Session, ~ DiesBeforeAppend(s), NEW k \in Key,
           AppendRedo(s, k), UNCHANGED runVars
    PROVE  AfterRedo(s, k)
<1>0. /\ logs \in Seq(Seq(Rec)) /\ live \in 0 .. Len(logs)
      /\ stage \in [Session -> Stages] /\ engine \in [Session -> Engines]
      /\ txn_of \in [Session -> Txns] /\ engine[s] \in Engines
    BY DEF Basics, EngineTypes
<1>0a. PICK n \in Sizes : logs' = Appended(s, txn_of[s].write_set[k], k, n)
    BY DEF AppendRedo
<1>0b. n \in Nat \ {0}
    BY <1>0a, SharedDirAssumption
<1>1. /\ stage[s] = "redo" /\ k \in engine[s].todo
      /\ engine' = [engine EXCEPT ![s].todo = @ \ {k}]
      /\ UNCHANGED <<live, stage, txn_of>>
    BY DEF AppendRedo
<1>2. PICK j \in pending[s] :
        Written(txn_of[s]) = {j} /\ txn_of[s].write_set[j] = "put"
    BY <1>1 DEF Basics, SessionsOK, EngineOK, Committing
<1>3. engine[s].todo \subseteq Written(txn_of[s])
    BY <1>1 DEF Basics, SessionsOK, EngineOK, Committing
<1>4. j = k /\ engine[s].todo \ {k} = {}
    BY <1>1, <1>2, <1>3
<1>5. PICK f, r : f = engine[s].file /\ r = RecordOf(s, "put", k, n)
    OBVIOUS
<1>6. r \in Rec /\ f \in 1 .. Len(logs) /\ logs' = [logs EXCEPT ![f] = Append(@, r)]
    <2>1. Committing(s)
        BY <1>1 DEF Committing
    <2>2. logs' = Appended(s, "put", k, n)
        BY <1>0a, <1>2, <1>4
    <2> QED
        BY <2>1, <2>2, <1>0b, <1>5, RecordFacts
<1>7. AppendedTo(logs', f, r)
    <2>1. EngineTypes
        BY DEF Basics
    <2> QED
        BY <1>6, <2>1, AppendedFacts
<1>8. PICK e : e = [engine[s] EXCEPT !.todo = {}]
    OBVIOUS
<1>9. e \in Engines
    BY <1>0, <1>8 DEF Engines
<1>10. engine' = [engine EXCEPT ![s] = e]
    BY <1>0, <1>1, <1>4, <1>8
<1>11. EngineTypes'
    BY <1>0, <1>1, <1>7, <1>9, <1>10 DEF EngineTypes, AppendedTo
<1>12. RunTypes'
    BY DEF Basics, RunTypes, runVars
<1>13. Others(s)
    BY <1>0, <1>1, <1>10 DEF Others, runVars
<1>14. engine'[s] = e
    BY <1>0, <1>10
<1> QED
    BY <1>0b, <1>1, <1>2, <1>4, <1>5, <1>7, <1>8, <1>11, <1>12, <1>13, <1>14
    DEF AfterRedo, Typed

LEMMA AppendCommitEffect ==
    ASSUME Basics, NEW s \in Session, ~ DiesBeforeAppend(s),
           AppendCommit(s), UNCHANGED runVars
    PROVE  AfterAppendCommit(s)
<1>0. /\ logs \in Seq(Seq(Rec)) /\ live \in 0 .. Len(logs)
      /\ stage \in [Session -> Stages] /\ engine \in [Session -> Engines]
      /\ txn_of \in [Session -> Txns]
    BY DEF Basics, EngineTypes
<1>1. /\ stage[s] = "redo" /\ engine[s].todo = {}
      /\ logs' = Appended(s, "commit", None, CommitSize)
      /\ stage' = [stage EXCEPT ![s] = "sync"]
      /\ UNCHANGED <<live, engine, txn_of>>
    BY DEF AppendCommit
<1>2. PICK f, r : f = engine[s].file /\ r = RecordOf(s, "commit", None, CommitSize)
    OBVIOUS
<1>3. r \in Rec /\ f \in 1 .. Len(logs) /\ logs' = [logs EXCEPT ![f] = Append(@, r)]
    <2>1. Committing(s)
        BY <1>1 DEF Committing
    <2>2. PICK n \in Nat \ {0} : n = CommitSize
        BY DEF CommitSize
    <2>3. r = RecordOf(s, "commit", None, n) /\ logs' = Appended(s, "commit", None, n)
        BY <1>1, <1>2, <2>2
    <2>4. PICK type \in {"put", "commit"}, k \in Key \cup {None} :
             type = "commit" /\ k = None
        OBVIOUS
    <2>5. /\ RecordOf(s, type, k, n) \in Rec
          /\ engine[s].file \in 1 .. Len(logs)
          /\ Appended(s, type, k, n) =
               [logs EXCEPT ![engine[s].file] = Append(@, RecordOf(s, type, k, n))]
        BY <2>1, RecordFacts, SMTT(60)
    <2> QED
        BY <2>3, <2>4, <2>5, <1>2
<1>4. AppendedTo(logs', f, r)
    <2>1. EngineTypes
        BY DEF Basics
    <2> QED
        BY <1>3, <2>1, AppendedFacts
<1>5. EngineTypes'
    BY <1>0, <1>1, <1>4 DEF EngineTypes, AppendedTo, Stages
<1>6. RunTypes'
    BY DEF Basics, RunTypes, runVars
<1>7. Others(s)
    BY <1>0, <1>1 DEF Others, runVars
<1>8. stage'[s] = "sync"
    BY <1>0, <1>1
<1> QED
    BY <1>1, <1>2, <1>4, <1>5, <1>6, <1>7, <1>8 DEF AfterAppendCommit, Typed

LEMMA AckEffect ==
    ASSUME Basics, NEW s \in Session, FinishCommit(s)
    PROVE  AfterAck(s)
<1>0. /\ logs \in Seq(Seq(Rec)) /\ live \in 0 .. Len(logs)
      /\ stage \in [Session -> Stages] /\ engine \in [Session -> Engines]
      /\ txn_of \in [Session -> Txns] /\ engine[s] \in Engines /\ txn_of[s] \in Txns
      /\ NoTxn \in Txns /\ pending \in [Session -> SUBSET Key]
    BY NothingIsTyped DEF Basics, EngineTypes, RunTypes
<1>1. PICK t : t = txn_of[s]
    OBVIOUS
<1>2. /\ stage[s] = "sync"
      /\ engine' = [engine EXCEPT ![s].catalog =
            [k \in Key |-> WithVersion(engine[s].catalog[k], t, k)]]
      /\ txn_of' = [txn_of EXCEPT ![s] = NoTxn]
      /\ stage' = [stage EXCEPT ![s] = "idle"]
      /\ UNCHANGED <<logs, live>>
    BY <1>1, Zenon DEF FinishCommit, Ack, EndTxn
<1>3. PICK cat : cat = [k \in Key |-> WithVersion(engine[s].catalog[k], t, k)]
    OBVIOUS
<1>4. ASSUME NEW k \in Key
      PROVE  WithVersion(engine[s].catalog[k], t, k) \in Seq(Version)
    <2>1. PICK v : v = NewVersion(t.commit_ts, t.writer, t.write_set[k] = "del")
        OBVIOUS
    <2>2. v \in Version
        BY <1>0, <1>1, <2>1 DEF NewVersion, Version, VersionBy, Txns
    <2>3. engine[s].catalog[k] \in Seq(Version)
        BY <1>0 DEF Engines
    <2>4. InstallVersion(engine[s].catalog[k], v) \in Seq(Version)
        <3>1. Grown(InstallVersion(engine[s].catalog[k], v), engine[s].catalog[k], v, Name)
            BY <2>2, <2>3, InstallFacts DEF Version
        <3> QED
            BY <3>1 DEF Grown, Version
    <2> QED
        BY <2>1, <2>3, <2>4 DEF WithVersion
<1>5. cat \in [Key -> Seq(Version)]
    BY <1>3, <1>4
<1>6. PICK e : e = [engine[s] EXCEPT !.catalog = cat]
    OBVIOUS
<1>7. /\ e \in Engines /\ e.catalog = cat /\ e.file = engine[s].file
      /\ e.next_ts = engine[s].next_ts /\ e.next_txn_id = engine[s].next_txn_id
    BY <1>5, <1>6, <1>0 DEF Engines
<1>8. engine' = [engine EXCEPT ![s] = e]
    BY <1>2, <1>3, <1>6, <1>0
<1>9. /\ pending' = [pending EXCEPT ![s] = @ \ Written(t)]
      /\ UNCHANGED <<kind, baseline, value, phase, fault, verdict, met>>
    BY <1>1 DEF FinishCommit
<1>10. EngineTypes'
    <2>1. stage' = [stage EXCEPT ![s] = "idle"] /\ logs' = logs /\ live' = live
        BY <1>2
    <2> QED
        BY <1>0, <1>2, <1>7, <1>8, <2>1 DEF EngineTypes, Stages
<1>11. pending' \in [Session -> SUBSET Key]
    BY <1>0, <1>9
<1>12. RunTypes'
    BY <1>9, <1>11 DEF Basics, RunTypes
<1>13. Others(s)
    BY <1>0, <1>2, <1>8, <1>9 DEF Others
<1>14. engine'[s] = e /\ stage'[s] = "idle" /\ pending'[s] = pending[s] \ Written(t)
    BY <1>0, <1>2, <1>8, <1>9
<1>15. \A k \in Key : e.catalog[k] = WithVersion(engine[s].catalog[k], t, k)
    BY <1>3, <1>7
<1> QED
    BY <1>1, <1>2, <1>7, <1>9, <1>10, <1>12, <1>13, <1>14, <1>15 DEF AfterAck, Typed

\* What is left of an engine that was closed.
Forgotten(s) ==
    /\ stage' \in [Session -> Stages] /\ engine' \in [Session -> Engines]
    /\ txn_of' \in [Session -> Txns]
    /\ stage'[s] = "none"
    /\ \A k \in Key : engine'[s].catalog[k] = << >>
    /\ \A r \in Session \ {s} :
          stage'[r] = stage[r] /\ engine'[r] = engine[r] /\ txn_of'[r] = txn_of[r]

LEMMA ForgetFacts ==
    ASSUME EngineTypes, NEW s \in Session, Forget(s)
    PROVE  Forgotten(s)
<1>1. /\ stage \in [Session -> Stages] /\ engine \in [Session -> Engines]
      /\ txn_of \in [Session -> Txns] /\ NoEngine \in Engines /\ NoTxn \in Txns
    BY NothingIsTyped DEF EngineTypes
<1>2. /\ txn_of' = [txn_of EXCEPT ![s] = NoTxn]
      /\ engine' = [engine EXCEPT ![s] = NoEngine]
      /\ stage' = [stage EXCEPT ![s] = "none"]
    BY DEF Forget
<1>3. \A k \in Key : NoEngine.catalog[k] = << >>
    BY DEF NoEngine
<1>4. engine'[s] = NoEngine /\ stage'[s] = "none"
    BY <1>1, <1>2
<1> QED
    BY <1>1, <1>2, <1>3, <1>4 DEF Forgotten, Stages

LEMMA HalfIsSome ==
    ASSUME NEW n \in Sizes
    PROVE  Half(n) \in Nat \ {0}
<1>1. n \in Nat \ {0}
    BY SharedDirAssumption
<1>2. PICK half : half = n \div 2
    OBVIOUS
<1>3. half \in 0 .. n
    BY <1>1, <1>2
<1>4. {1, half} \in SUBSET (0 .. n) /\ {1, half} # {}
    BY <1>1, <1>3
<1>5. Max({1, half}) \in {1, half} /\ 1 <= Max({1, half})
    BY <1>1, <1>4, MaxFacts
<1> QED
    BY <1>1, <1>2, <1>3, <1>5 DEF Half

LEMMA WorkerEffect ==
    ASSUME Basics, NEW s \in Session, WorkerEnds(s)
    PROVE  AfterWorker(s)
<1>0. /\ logs \in Seq(Seq(Rec)) /\ live \in 0 .. Len(logs) /\ EngineTypes
      /\ pending \in [Session -> SUBSET Key] /\ phase \in [Session -> Phases]
    BY DEF Basics, EngineTypes, RunTypes
<1>1. Forgotten(s)
    BY <1>0, ForgetFacts DEF WorkerEnds
<1>2. /\ phase[s] = "worker"
      /\ \/ stage[s] = "redo" /\ DiesBeforeAppend(s)
         \/ stage[s] = "sync"
         \/ stage[s] = "idle" /\ pending[s] = {}
      /\ pending' = [pending EXCEPT ![s] = {}]
      /\ phase' = [phase EXCEPT ![s] = "verify"]
      /\ UNCHANGED <<live, kind, baseline, value, fault, verdict, met>>
    BY DEF WorkerEnds
<1>3. \/ logs' = logs
      \/ \E n \in Nat \ {0} : AppendedTo(logs', engine[s].file, Damage("torn", n, None))
    <2>1. CASE stage[s] = "redo" /\ fault[s] = "during_wal_append"
        <3>1. engine[s].file \in 1 .. Len(logs)
            BY <2>1 DEF Basics, SessionsOK, EngineOK
        <3>2. PICK n \in Sizes :
                logs' = [logs EXCEPT ![engine[s].file] =
                            Append(@, Damage("torn", Half(n), None))]
            BY <2>1 DEF WorkerEnds
        <3>3. Half(n) \in Nat \ {0}
            BY <3>2, HalfIsSome
        <3>4. PICK r : r = Damage("torn", Half(n), None)
            OBVIOUS
        <3>5. r \in Rec
            BY <3>3, <3>4, DamageIsTyped
        <3>6. AppendedTo(logs', engine[s].file, r)
            BY <3>1, <3>2, <3>4, <3>5, <1>0, AppendedFacts
        <3> QED
            BY <3>3, <3>4, <3>6
    <2>2. CASE ~ (stage[s] = "redo" /\ fault[s] = "during_wal_append")
        BY <2>2 DEF WorkerEnds
    <2> QED
        BY <2>1, <2>2
<1>4. logs' \in Seq(Seq(Rec)) /\ Len(logs') = Len(logs)
    BY <1>0, <1>3 DEF AppendedTo
<1>5. EngineTypes'
    BY <1>0, <1>1, <1>2, <1>4 DEF EngineTypes, Forgotten
<1>6. pending' \in [Session -> SUBSET Key] /\ phase' \in [Session -> Phases]
    BY <1>0, <1>2 DEF Phases
<1>7. RunTypes'
    BY <1>2, <1>6 DEF Basics, RunTypes
<1>8. Others(s)
    BY <1>0, <1>1, <1>2 DEF Others, Forgotten
<1>9. pending'[s] = {} /\ phase'[s] = "verify"
    BY <1>0, <1>2
<1> QED
    BY <1>1, <1>2, <1>3, <1>5, <1>7, <1>8, <1>9 DEF AfterWorker, AfterForget, Typed, Forgotten

LEMMA BaselineEffect ==
    ASSUME Basics, NEW s \in Session, CloseBaseline(s)
    PROVE  AfterBaseline(s)
<1>0. /\ EngineTypes /\ pending \in [Session -> SUBSET Key] /\ phase \in [Session -> Phases]
      /\ fault \in [Session -> FAULT_POINTS \cup {"none"}]
    BY DEF Basics, EngineTypes, RunTypes
<1>1. Forgotten(s)
    BY <1>0, ForgetFacts DEF CloseBaseline
<1>2. PICK f \in Faults[s] : fault' = [fault EXCEPT ![s] = f]
    BY DEF CloseBaseline
<1>3. f \in FAULT_POINTS
    BY <1>2, ExperimentsAssumption
<1>4. fault'[s] = f /\ fault' \in [Session -> FAULT_POINTS \cup {"none"}]
    BY <1>0, <1>2, <1>3
<1>5. /\ phase[s] = "baseline" /\ stage[s] = "idle" /\ pending[s] = {}
      /\ pending' = [pending EXCEPT ![s] = {WorkerKey(fault'[s])}]
      /\ phase' = [phase EXCEPT ![s] = "worker"]
      /\ UNCHANGED <<logs, live, kind, baseline, value, verdict, met>>
    BY DEF CloseBaseline
<1>6. WorkerKey(fault'[s]) \in Key
    BY ExperimentsAssumption DEF WorkerKey
<1>7. EngineTypes'
    BY <1>0, <1>1, <1>5 DEF EngineTypes, Forgotten
<1>8. pending' \in [Session -> SUBSET Key] /\ phase' \in [Session -> Phases]
    BY <1>0, <1>5, <1>6 DEF Phases
<1>9. RunTypes'
    BY <1>4, <1>5, <1>8 DEF Basics, RunTypes
<1>10. Others(s)
    BY <1>0, <1>1, <1>2, <1>5 DEF Others, Forgotten
<1>11. pending'[s] = {WorkerKey(fault'[s])} /\ phase'[s] = "worker"
    BY <1>0, <1>5
<1> QED
    BY <1>1, <1>3, <1>4, <1>5, <1>7, <1>9, <1>10, <1>11
    DEF AfterBaseline, AfterForget, Typed, Forgotten

LEMMA RaiseEffect ==
    ASSUME Basics, NEW s \in Session, Raises(s)
    PROVE  AfterRaise(s)
<1>0. /\ EngineTypes /\ pending \in [Session -> SUBSET Key] /\ phase \in [Session -> Phases]
      /\ verdict \in [Session -> {"none", "PASS", "FAIL", "ERROR"}]
    BY DEF Basics, EngineTypes, RunTypes
<1>1. Forgotten(s)
    BY <1>0, ForgetFacts DEF Raises
<1>2. /\ UsesEngine(s) /\ (RecoverRaises(s) \/ Refused(s))
      /\ pending' = [pending EXCEPT ![s] = {}]
      /\ UNCHANGED <<logs, live, kind, baseline, value, fault, met>>
    BY DEF Raises
<1>3. phase' = [phase EXCEPT ![s] = IF phase[s] = "worker" THEN "verify" ELSE After]
    BY DEF Raises
<1>4. verdict' = verdict \/ verdict' = [verdict EXCEPT ![s] = "ERROR"]
    BY DEF Raises
<1>5. EngineTypes'
    BY <1>0, <1>1, <1>2 DEF EngineTypes, Forgotten
<1>6. /\ pending' \in [Session -> SUBSET Key] /\ phase' \in [Session -> Phases]
      /\ verdict' \in [Session -> {"none", "PASS", "FAIL", "ERROR"}]
    BY <1>0, <1>2, <1>3, <1>4 DEF Phases, After
<1>7. RunTypes'
    BY <1>2, <1>6 DEF Basics, RunTypes
<1>8. Others(s)
    BY <1>0, <1>1, <1>2, <1>3, <1>4 DEF Others, Forgotten
<1>9. pending'[s] = {} /\ phase'[s] = IF phase[s] = "worker" THEN "verify" ELSE After
    BY <1>0, <1>2, <1>3
<1> QED
    BY <1>1, <1>2, <1>5, <1>7, <1>8, <1>9 DEF AfterRaise, AfterForget, Typed, Forgotten

LEMMA VerifyEffect ==
    ASSUME Basics, NEW s \in Session, Verify(s)
    PROVE  AfterVerify(s)
<1>0. /\ EngineTypes /\ phase \in [Session -> Phases]
      /\ verdict \in [Session -> {"none", "PASS", "FAIL", "ERROR"}]
    BY DEF Basics, EngineTypes, RunTypes
<1>1. Forgotten(s)
    BY <1>0, ForgetFacts DEF Verify
<1>2. PICK v \in {"PASS", "FAIL"} :
        v = IF \A k \in baseline[s] : Matches(s, k) THEN "PASS" ELSE "FAIL"
    OBVIOUS
<1>3. /\ phase[s] = "verify" /\ stage[s] = "idle"
      /\ verdict' = [verdict EXCEPT ![s] = v]
      /\ phase' = [phase EXCEPT ![s] = After]
      /\ UNCHANGED <<logs, live, kind, baseline, value, pending, fault, met>>
    BY <1>2, Zenon DEF Verify
<1>4. EngineTypes'
    BY <1>0, <1>1, <1>3 DEF EngineTypes, Forgotten
<1>5. /\ phase' \in [Session -> Phases]
      /\ verdict' \in [Session -> {"none", "PASS", "FAIL", "ERROR"}]
    BY <1>0, <1>3 DEF Phases, After
<1>6. RunTypes'
    BY <1>3, <1>5 DEF Basics, RunTypes
<1>7. Others(s)
    BY <1>0, <1>1, <1>3 DEF Others, Forgotten
<1>8. verdict'[s] = v /\ phase'[s] = After
    BY <1>0, <1>3
<1> QED
    BY <1>1, <1>2, <1>3, <1>4, <1>6, <1>7, <1>8 DEF AfterVerify, AfterForget, Typed, Forgotten

LEMMA CleanupEffect ==
    ASSUME Basics, NEW s \in Session, Cleanup(s)
    PROVE  AfterCleanup(s)
<1>0. EngineTypes /\ phase \in [Session -> Phases] /\ Len(logs) \in Nat
    BY LenProperties DEF Basics, EngineTypes, RunTypes
<1>1. /\ phase[s] = "cleanup" /\ live' = 0 /\ logs' = logs
      /\ phase' = [phase EXCEPT ![s] = "done"]
      /\ UNCHANGED <<stage, engine, txn_of, kind, baseline, value, pending, fault,
                     verdict, met>>
    BY DEF Cleanup, RemoveDir
<1>2. EngineTypes'
    BY <1>0, <1>1 DEF EngineTypes
<1>3. phase' \in [Session -> Phases] /\ phase'[s] = "done"
    BY <1>0, <1>1 DEF Phases
<1>4. RunTypes'
    BY <1>1, <1>3 DEF Basics, RunTypes
<1>5. Others(s)
    BY <1>0, <1>1 DEF Others
<1> QED
    BY <1>1, <1>2, <1>3, <1>4, <1>5 DEF AfterCleanup, Typed

\* Every step of an experiment is one of these.
LEMMA NextSteps ==
    ASSUME Basics, ExperimentsNext
    PROVE  \E s \in Session : Steps(s)
<1>1. PICK s \in Session : Start(s) \/ Step(s)
    BY DEF ExperimentsNext
<1>2. CASE Start(s)
    BY <1>2, StartEffect DEF Steps
<1>3. CASE OpenEngine(s)
    <2>1. UsesEngine(s) /\ UNCHANGED runVars
        BY <1>3 DEF OpenEngine
    <2>2. CASE Open(s)
        <3>1. /\ RunTypes' /\ UNCHANGED <<kind, baseline, value, pending, fault, verdict>>
              /\ \A r \in Session \ {s} : phase'[r] = phase[r]
            BY <2>1 DEF Basics, RunTypes, runVars
        <3>2. AfterOpen(s)
            BY <2>2, <3>1, OpenEffect
        <3> QED
            BY <2>1, <3>2 DEF Steps
    <2>3. CASE Truncate(s)
        BY <2>1, <2>3, TruncateEffect DEF Steps
    <2>4. CASE Pass1(s)
        BY <2>1, <2>4, Pass1Effect DEF Steps
    <2>5. CASE Recover(s)
        BY <2>1, <2>5, RecoverEffect DEF Steps
    <2> QED
        BY <1>3, <2>2, <2>3, <2>4, <2>5 DEF OpenEngine
<1>4. CASE Commit(s)
    BY <1>4, CommitEffect DEF Steps
<1>5. CASE AppendRecords(s)
    <2>1. ~ DiesBeforeAppend(s) /\ UNCHANGED runVars
        BY <1>5 DEF AppendRecords
    <2>2. ASSUME NEW k \in Key, AppendRedo(s, k)
          PROVE  AfterRedo(s, k)
        BY <2>1, <2>2, RedoEffect
    <2>3. CASE AppendCommit(s)
        BY <2>1, <2>3, AppendCommitEffect DEF Steps
    <2> QED
        BY <1>5, <2>2, <2>3 DEF AppendRecords, Steps
<1>6. CASE FinishCommit(s)
    BY <1>6, AckEffect DEF Steps
<1>7. CASE WorkerEnds(s)
    BY <1>7, WorkerEffect DEF Steps
<1>8. CASE CloseBaseline(s)
    BY <1>8, BaselineEffect DEF Steps
<1>9. CASE Raises(s)
    BY <1>9, RaiseEffect DEF Steps
<1>10. CASE Verify(s)
    BY <1>10, VerifyEffect DEF Steps
<1>11. CASE Cleanup(s)
    BY <1>11, CleanupEffect DEF Steps
<1> QED
    BY <1>1, <1>2, <1>3, <1>4, <1>5, <1>6, <1>7, <1>8, <1>9, <1>10, <1>11 DEF Step

-----------------------------------------------------------------------------
(* The invariant: whose commits are in the logs, and what engines make of  *)
(* them, in a directory in which no two experiments ever were at once.     *)

Free == \A r \in Session : ~ met[r]

\* A worker's commit is one that the table lets survive.
Told(w, k) ==
    w # None /\ w.phase = "worker" =>
        /\ phase[w.by] \notin {"start", "baseline"}
        /\ ExpectSurvive(fault[w.by])
        /\ k = WorkerKey(fault[w.by])

IsPutOf(r, w, k) ==
    r.type \in {"put", "del"} /\ r.writer = w /\ r.key = k

RecordIsTrue(r) ==
    /\ IsTorn(r) \/ r.txn_id = r.commit_ts
    /\ \A w \in Name, k \in Key : IsPutOf(r, w, k) => Told(w, k)

LogOK(log) == \A i \in 1 .. Len(log) : RecordIsTrue(log[i])

LogsOK == \A f \in 1 .. Len(logs) : LogOK(logs[f])

\* Whatever an engine serves is of the past, and was in a log.
ListOK(list, ts, k) ==
    \A i \in 1 .. Len(list) : list[i].begin_ts < ts /\ Told(list[i].writer, k)

CatalogOK(s) == \A k \in Key : ListOK(engine[s].catalog[k], engine[s].next_ts, k)

CatalogsOK == \A s \in Session : CatalogOK(s)

\* Ids and timestamps are the same numbers, as both count the commits.
NumbersOK(s) ==
    /\ Committing(s) => txn_of[s].txn_id = txn_of[s].commit_ts
    /\ Serving(s) => engine[s].next_ts = engine[s].next_txn_id
    /\ stage[s] = "pass1" =>
          \A id \in DOMAIN engine[s].committed : engine[s].committed[id] = id

AllTrue == LogsOK /\ CatalogsOK /\ \A s \in Session : NumbersOK(s)

Records == Basics /\ (Free => AllTrue)

LEMMA OthersStay ==
    ASSUME Basics, NEW s \in Session, Others(s), NEW r \in Session \ {s},
           Len(logs') \in Nat, Len(logs) <= Len(logs')
    PROVE  PhaseOK(r)' /\ EngineOK(r)'
<1>0. /\ PhaseOK(r) /\ EngineOK(r) /\ Len(logs) \in Nat /\ engine[r] \in Engines
    BY LenProperties DEF Basics, SessionsOK, EngineTypes
<1>1. /\ stage'[r] = stage[r] /\ engine'[r] = engine[r] /\ txn_of'[r] = txn_of[r]
      /\ phase'[r] = phase[r] /\ pending'[r] = pending[r] /\ fault'[r] = fault[r]
      /\ baseline' = baseline
    BY DEF Others
<1>2. Wrote(r)' <=> Wrote(r)
    BY <1>1 DEF Wrote
<1>3. PhaseOK(r)'
    BY <1>0, <1>1, <1>2 DEF PhaseOK
<1>4. /\ Committing(r)' <=> Committing(r) 
      /\ Serving(r)' <=> Serving(r)
      /\ UsesEngine(r)' <=> UsesEngine(r)
    BY <1>1 DEF Committing, Serving, UsesEngine
<1>5. engine[r].file \in 1 .. Len(logs) => engine[r].file \in 1 .. Len(logs')
    BY <1>0
<1>6. EngineOK(r)'
    BY <1>0, <1>1, <1>4, <1>5 DEF EngineOK
<1> QED
    BY <1>3, <1>6

LEMMA SelfStaysOpen ==
    ASSUME Basics, NEW s \in Session,
           AfterStart(s) \/ (AfterOpen(s) /\ UsesEngine(s) /\ UNCHANGED runVars)
    PROVE  PhaseOK(s)' /\ EngineOK(s)'
<1>0. PhaseOK(s) /\ EngineOK(s)
    BY DEF Basics, SessionsOK
<1>1. /\ AfterOpen(s) /\ stage[s] = "none" /\ stage'[s] = "scanned"
      /\ engine'[s].file \in 1 .. Len(logs') /\ baseline' = baseline
      /\ UNCHANGED <<pending, fault>>
    BY DEF AfterStart, AfterOpen, Typed, Others
<1>2. UsesEngine(s)'
    BY DEF UsesEngine, AfterStart, runVars
<1>3. CASE AfterStart(s)
    <2>1. phase[s] = "start" /\ phase'[s] = "baseline"
        BY <1>3 DEF AfterStart
    <2>2. PhaseOK(s)'
        BY <1>0, <1>1, <2>1 DEF PhaseOK
    <2> QED
        BY <2>2, <1>1, <1>2 DEF EngineOK, Committing, Serving
<1>4. CASE UNCHANGED runVars
    <2>1. phase' = phase
        BY <1>4 DEF runVars
    <2>2. Wrote(s)' => Wrote(s)
        BY <1>1, <2>1 DEF Wrote
    <2>3. phase[s] # "start" => PhaseOK(s)'
        BY <1>0, <1>1, <2>1, <2>2 DEF PhaseOK
    <2>4. phase[s] # "start"
        BY <1>2, <2>1 DEF UsesEngine
    <2> QED
        BY <2>3, <2>4, <1>1, <1>2 DEF EngineOK, Committing, Serving
<1> QED
    BY <1>3, <1>4

LEMMA SelfStaysTruncate ==
    ASSUME Basics, NEW s \in Session, AfterTruncate(s) \/ AfterPass1(s)
    PROVE  PhaseOK(s)' /\ EngineOK(s)'
<1>0. PhaseOK(s) /\ EngineOK(s)
    BY DEF Basics, SessionsOK
<1>1. /\ \/ stage[s] = "scanned" /\ stage'[s] = "truncated"
         \/ stage[s] = "truncated" /\ stage'[s] = "pass1"
      /\ engine'[s].file = engine[s].file /\ Len(logs') = Len(logs)
      /\ UNCHANGED <<phase, pending, baseline, fault>>
    BY DEF AfterTruncate, AfterPass1, runVars
<1>2. PhaseOK(s)'
    <2>1. Wrote(s)' => Wrote(s)
        BY <1>1 DEF Wrote
    <2> QED
        BY <1>0, <1>1, <2>1 DEF PhaseOK
<1>3. UsesEngine(s)' /\ engine[s].file \in 1 .. Len(logs)
    <2>1. UsesEngine(s) /\ engine[s].file \in 1 .. Len(logs)
        BY <1>0, <1>1 DEF EngineOK
    <2> QED
        BY <2>1, <1>1 DEF UsesEngine
<1>4. ~ Committing(s)'
    BY <1>1 DEF Committing
<1> QED
    BY <1>1, <1>2, <1>3, <1>4 DEF EngineOK

LEMMA SelfStaysRecover ==
    ASSUME Basics, NEW s \in Session, AfterRecover(s)
    PROVE  PhaseOK(s)' /\ EngineOK(s)'
<1>0. PhaseOK(s) /\ EngineOK(s)
    BY DEF Basics, SessionsOK
<1>1. /\ stage[s] = "pass1" /\ stage'[s] = "idle" /\ logs' = logs
      /\ engine'[s].file = engine[s].file
      /\ UNCHANGED <<phase, pending, baseline, fault>>
    BY DEF AfterRecover, runVars
<1>2. PhaseOK(s)'
    <2>1. Wrote(s)' => Wrote(s)
        BY <1>1 DEF Wrote
    <2> QED
        BY <1>0, <1>1, <2>1 DEF PhaseOK
<1>3. UsesEngine(s)' /\ engine[s].file \in 1 .. Len(logs)
    <2>1. UsesEngine(s) /\ engine[s].file \in 1 .. Len(logs)
        BY <1>0, <1>1 DEF EngineOK
    <2> QED
        BY <2>1, <1>1 DEF UsesEngine
<1> QED
    BY <1>1, <1>2, <1>3 DEF EngineOK, Committing

LEMMA SelfStaysCommit ==
    ASSUME Basics, NEW s \in Session, NEW k \in Key, AfterCommit(s, k)
    PROVE  PhaseOK(s)' /\ EngineOK(s)'
<1>0. /\ PhaseOK(s) /\ EngineOK(s) /\ engine[s] \in Engines /\ engine[s].next_ts \in Nat
    BY DEF Basics, SessionsOK, EngineTypes, Engines
<1>1. /\ stage[s] = "idle" /\ stage'[s] = "redo" /\ UNCHANGED runVars /\ logs' = logs
      /\ engine'[s].file = engine[s].file /\ k \in pending[s] /\ UsesEngine(s)
      /\ engine'[s].todo = {k}
    BY DEF AfterCommit
<1>2. UNCHANGED <<phase, pending, baseline, fault>>
    BY <1>1 DEF runVars
<1>3. PhaseOK(s)'
    <2>1. Wrote(s)' => Wrote(s)
        BY <1>1, <1>2 DEF Wrote
    <2> QED
        BY <1>0, <1>1, <1>2, <2>1 DEF PhaseOK
<1>4. UsesEngine(s)' /\ engine[s].file \in 1 .. Len(logs)
    <2>1. UsesEngine(s) /\ engine[s].file \in 1 .. Len(logs)
        BY <1>0, <1>1 DEF EngineOK
    <2> QED
        BY <2>1, <1>2 DEF UsesEngine
<1>6. /\ txn_of'[s].commit_ts = engine[s].next_ts
      /\ txn_of'[s].writer = Own(s, phase[s])
      /\ Written(txn_of'[s]) = {k} /\ txn_of'[s].write_set[k] = "put"
      /\ engine'[s].next_ts = engine[s].next_ts + 1
    BY DEF AfterCommit
<1>7. txn_of'[s].commit_ts < engine'[s].next_ts
    BY <1>0, <1>6
<1>8. \E j \in pending'[s] : Written(txn_of'[s]) = {j} /\ txn_of'[s].write_set[j] = "put"
    BY <1>1, <1>2, <1>6
<1>9. /\ txn_of'[s].writer = Own(s, phase'[s])
      /\ engine'[s].todo \subseteq Written(txn_of'[s])
    BY <1>1, <1>2, <1>6
<1> QED
    BY <1>1, <1>3, <1>4, <1>7, <1>8, <1>9 DEF EngineOK

LEMMA SelfStaysRedo ==
    ASSUME Basics, NEW s \in Session, NEW k \in Key, AfterRedo(s, k)
    PROVE  PhaseOK(s)' /\ EngineOK(s)'
<1>0. /\ PhaseOK(s) /\ EngineOK(s) /\ engine[s] \in Engines
    BY DEF Basics, SessionsOK, EngineTypes
<1>1. /\ stage[s] = "redo" /\ stage' = stage /\ txn_of' = txn_of /\ UNCHANGED runVars
      /\ engine'[s] = [engine[s] EXCEPT !.todo = {}] /\ ~ DiesBeforeAppend(s)
    BY DEF AfterRedo
<1>2. UNCHANGED <<phase, pending, baseline, fault>>
    BY <1>1 DEF runVars
<1>3. Len(logs') = Len(logs)
    BY DEF AfterRedo, AppendedTo
<1>4. /\ engine'[s].file = engine[s].file /\ engine'[s].next_ts = engine[s].next_ts
      /\ engine'[s].next_txn_id = engine[s].next_txn_id /\ engine'[s].todo = {}
    BY <1>0, <1>1 DEF Engines
<1>5. PhaseOK(s)'
    <2>1. phase[s] = "worker" => ExpectSurvive(fault[s])
        BY <1>0, <1>1 DEF PhaseOK, DiesBeforeAppend, ExpectSurvive
    <2> QED
        BY <1>0, <1>1, <1>2, <2>1 DEF PhaseOK
<1>6. UsesEngine(s)' /\ engine[s].file \in 1 .. Len(logs)
    <2>1. UsesEngine(s) /\ engine[s].file \in 1 .. Len(logs)
        BY <1>0, <1>1 DEF EngineOK
    <2> QED
        BY <2>1, <1>2 DEF UsesEngine
<1>7. Committing(s) /\ Serving(s)
    BY <1>1 DEF Committing, Serving
<1> QED
    BY <1>0, <1>1, <1>2, <1>3, <1>4, <1>5, <1>6, <1>7 DEF EngineOK

LEMMA SelfStaysAppendCommit ==
    ASSUME Basics, NEW s \in Session, AfterAppendCommit(s)
    PROVE  PhaseOK(s)' /\ EngineOK(s)'
<1>0. /\ PhaseOK(s) /\ EngineOK(s)
    BY DEF Basics, SessionsOK
<1>1. /\ stage[s] = "redo" /\ stage'[s] = "sync" /\ txn_of' = txn_of /\ engine' = engine
      /\ UNCHANGED runVars /\ ~ DiesBeforeAppend(s)
    BY DEF AfterAppendCommit
<1>2. UNCHANGED <<phase, pending, baseline, fault>>
    BY <1>1 DEF runVars
<1>3. Len(logs') = Len(logs)
    BY DEF AfterAppendCommit, AppendedTo
<1>4. PhaseOK(s)'
    <2>1. phase[s] = "worker" => ExpectSurvive(fault[s])
        BY <1>0, <1>1 DEF PhaseOK, DiesBeforeAppend, ExpectSurvive
    <2> QED
        BY <1>0, <1>1, <1>2, <2>1 DEF PhaseOK
<1>5. UsesEngine(s)' /\ engine[s].file \in 1 .. Len(logs)
    <2>1. UsesEngine(s) /\ engine[s].file \in 1 .. Len(logs)
        BY <1>0, <1>1 DEF EngineOK
    <2> QED
        BY <2>1, <1>2 DEF UsesEngine
<1>6. Committing(s) /\ Serving(s)
    BY <1>1 DEF Committing, Serving
<1> QED
    BY <1>0, <1>1, <1>2, <1>3, <1>4, <1>5, <1>6 DEF EngineOK

LEMMA SelfStaysAck ==
    ASSUME Basics, NEW s \in Session, AfterAck(s)
    PROVE  PhaseOK(s)' /\ EngineOK(s)'
<1>0. /\ PhaseOK(s) /\ EngineOK(s)
    BY DEF Basics, SessionsOK
<1>1. /\ stage[s] = "sync" /\ stage'[s] = "idle" /\ UNCHANGED <<logs, phase, fault>>
      /\ engine'[s].file = engine[s].file /\ engine'[s].next_ts = engine[s].next_ts
      /\ engine'[s].next_txn_id = engine[s].next_txn_id
      /\ pending'[s] \subseteq pending[s] /\ baseline' = baseline
    BY DEF AfterAck, Typed, Others
<1>2. PhaseOK(s)'
    <2>1. phase[s] = "worker" => ExpectSurvive(fault[s])
        BY <1>0, <1>1 DEF PhaseOK, Wrote
    <2>2. phase[s] # "start"
        BY <1>0, <1>1 DEF PhaseOK
    <2> QED
        BY <1>0, <1>1, <2>1, <2>2 DEF PhaseOK
<1>3. UsesEngine(s)' /\ engine[s].file \in 1 .. Len(logs)
    <2>1. UsesEngine(s) /\ engine[s].file \in 1 .. Len(logs)
        BY <1>0, <1>1 DEF EngineOK
    <2> QED
        BY <2>1, <1>1 DEF UsesEngine
<1>4. Serving(s)
    BY <1>1 DEF Serving
<1> QED
    BY <1>0, <1>1, <1>2, <1>3, <1>4 DEF EngineOK, Committing

LEMMA SelfStaysClosed ==
    ASSUME Basics, NEW s \in Session,
           \/ AfterWorker(s) \/ AfterBaseline(s) \/ AfterRaise(s) \/ AfterVerify(s)
           \/ AfterCleanup(s)
    PROVE  PhaseOK(s)' /\ EngineOK(s)'
<1>0. /\ PhaseOK(s) /\ EngineOK(s)
    BY DEF Basics, SessionsOK
<1>1. stage'[s] = "none"
    <2>1. CASE AfterCleanup(s)
        <3>1. stage' = stage /\ ~ UsesEngine(s)
            BY <2>1 DEF AfterCleanup, UsesEngine
        <3> QED
            BY <3>1, <1>0 DEF EngineOK
    <2> QED
        BY <2>1 DEF AfterWorker, AfterBaseline, AfterRaise, AfterVerify, AfterForget
<1>2. EngineOK(s)'
    BY <1>1 DEF EngineOK, Committing, Serving
<1>3. CASE AfterWorker(s)
    <2>1. /\ phase[s] = "worker" /\ phase'[s] = "verify" /\ pending'[s] = {}
          /\ fault' = fault
        BY <1>3 DEF AfterWorker
    <2>2. PhaseOK(s)'
        BY <1>0, <2>1 DEF PhaseOK
    <2> QED
        BY <1>2, <2>2
<1>4. CASE AfterBaseline(s)
    <2>1. /\ phase'[s] = "worker" /\ pending'[s] = {WorkerKey(fault'[s])}
          /\ fault'[s] \in FAULT_POINTS
        BY <1>4 DEF AfterBaseline
    <2>2. ~ Wrote(s)'
        BY <1>1, <2>1 DEF Wrote
    <2>3. PhaseOK(s)'
        BY <2>1, <2>2 DEF PhaseOK
    <2> QED
        BY <1>2, <2>3
<1>5. CASE AfterRaise(s)
    <2>1. /\ phase'[s] = IF phase[s] = "worker" THEN "verify" ELSE After
          /\ pending'[s] = {} /\ fault' = fault
        BY <1>5 DEF AfterRaise
    <2>2. PhaseOK(s)'
        BY <1>0, <2>1 DEF PhaseOK, After
    <2> QED
        BY <1>2, <2>2
<1>6. CASE AfterVerify(s) \/ AfterCleanup(s)
    <2>1. phase'[s] \in {"cleanup", "done"}
        BY <1>6 DEF AfterVerify, AfterCleanup, After
    <2>2. PhaseOK(s)'
        BY <2>1 DEF PhaseOK
    <2> QED
        BY <1>2, <2>2
<1> QED
    BY <1>3, <1>4, <1>5, <1>6

\* Log files only grow in number, and only session s has moved.
LEMMA StepBounds ==
    ASSUME Basics, NEW s \in Session, Steps(s)
    PROVE  /\ Typed(s) /\ Len(logs) \in Nat /\ Len(logs') \in Nat
           /\ Len(logs) <= Len(logs')
<1>1. Typed(s)
    BY DEF Steps, AfterStart, AfterOpen, AfterTruncate, AfterPass1, AfterRecover, AfterCommit,
           AfterRedo, AfterAppendCommit, AfterAck, AfterWorker, AfterBaseline,
           AfterRaise, AfterVerify, AfterCleanup, AfterForget
<1>2. Len(logs) \in Nat /\ Len(logs') \in Nat
    <2>1. logs \in Seq(Seq(Rec)) /\ logs' \in Seq(Seq(Rec))
        BY <1>1 DEF Basics, Typed, EngineTypes
    <2> QED
        BY <2>1, LenProperties
<1>3. CASE AfterOpen(s)
    <2>1. logs' = logs \/ Len(logs') = Len(logs) + 1
        BY <1>3 DEF AfterOpen, Basics, EngineTypes
    <2> QED
        BY <1>1, <1>2, <2>1
<1>4. CASE ~ AfterOpen(s)
    <2> SUFFICES Len(logs') = Len(logs)
        BY <1>1, <1>2
    <2>1. CASE AfterStart(s) \/ AfterTruncate(s) \/ AfterAppendCommit(s)
        BY <2>1, <1>4 DEF AfterStart, AfterTruncate, AfterAppendCommit, AppendedTo
    <2>2. CASE \E k \in Key : AfterRedo(s, k) \/ AfterCommit(s, k)
        BY <2>2 DEF AfterRedo, AfterCommit, AppendedTo
    <2>3. CASE AfterPass1(s) \/ AfterRecover(s) \/ AfterAck(s) \/ AfterBaseline(s)
        BY <2>3 DEF AfterPass1, AfterRecover, AfterAck, AfterBaseline
    <2>4. CASE AfterWorker(s) \/ AfterRaise(s) \/ AfterVerify(s) \/ AfterCleanup(s)
        BY <2>4 DEF AfterWorker, AppendedTo, AfterRaise, AfterVerify, AfterCleanup
    <2> QED
        BY <1>4, <2>1, <2>2, <2>3, <2>4 DEF Steps
<1> QED
    BY <1>3, <1>4

LEMMA BasicsStay ==
    ASSUME Basics, NEW s \in Session, Steps(s)
    PROVE  Basics'
<1>1. PhaseOK(s)' /\ EngineOK(s)'
    BY SelfStaysOpen, SelfStaysTruncate, SelfStaysRecover, SelfStaysCommit, SelfStaysRedo,
       SelfStaysAppendCommit, SelfStaysAck, SelfStaysClosed DEF Steps
<1>2. Typed(s) /\ Len(logs') \in Nat /\ Len(logs) <= Len(logs')
    BY StepBounds
<1>3. \A r \in Session \ {s} : PhaseOK(r)' /\ EngineOK(r)'
    BY <1>2, OthersStay DEF Typed
<1>4. SessionsOK'
    BY <1>1, <1>3 DEF SessionsOK
<1> QED
    BY <1>2, <1>4 DEF Basics, Typed

LEMMA BasicsUnchanged ==
    ASSUME Basics, UNCHANGED allVars
    PROVE  Basics'
<1>1. EngineTypes' /\ RunTypes'
    BY DEF Basics, EngineTypes, RunTypes, allVars, vars, runVars
<1>2. SessionsOK'
    BY DEF Basics, SessionsOK, PhaseOK, EngineOK, Wrote, Committing, UsesEngine,
           allVars, vars, runVars
<1> QED
    BY <1>1, <1>2 DEF Basics

\* No step makes an experiment meet nobody again.
LEMMA FreeBefore ==
    ASSUME Basics, NEW s \in Session, Steps(s), Free'
    PROVE  Free
BY DEF Free, Steps, AfterStart, AfterOpen, AfterTruncate, AfterPass1, AfterRecover,
       AfterCommit, AfterRedo, AfterAppendCommit, AfterAck, AfterWorker, AfterBaseline,
       AfterRaise, AfterVerify, AfterCleanup, AfterForget, runVars

-----------------------------------------------------------------------------
\* Logs and catalogs

\* A phase that is behind an experiment stays behind it.
LEMMA PhasesGoOn ==
    ASSUME Basics, NEW s \in Session, Steps(s), NEW r \in Session,
           phase[r] \notin {"start", "baseline"}
    PROVE  phase'[r] \notin {"start", "baseline"} /\ fault'[r] = fault[r]
<1>1. Typed(s)
    BY StepBounds
<1>2. CASE r # s
    <2>1. phase'[r] = phase[r] /\ fault'[r] = fault[r]
        BY <1>1, <1>2 DEF Typed, Others
    <2> QED
        BY <2>1
<1>3. CASE r = s
    <2>1. fault' = fault
        BY <1>3 DEF Steps, AfterStart, AfterOpen, AfterTruncate, AfterPass1, AfterRecover, AfterCommit,
           AfterRedo, AfterAppendCommit, AfterAck, AfterWorker, AfterBaseline,
           AfterRaise, AfterVerify, AfterCleanup, runVars
    <2>2. phase'[s] = phase[s] \/ phase'[s] \in {"verify", "cleanup", "done"}
        BY <1>3 DEF Steps, AfterStart, AfterOpen, AfterTruncate, AfterPass1, AfterRecover, AfterCommit,
           AfterRedo, AfterAppendCommit, AfterAck, AfterWorker, AfterBaseline,
           AfterRaise, AfterVerify, AfterCleanup, runVars, After
    <2> QED
        BY <1>3, <2>1, <2>2
<1> QED
    BY <1>2, <1>3

LEMMA ToldStays ==
    ASSUME Basics, NEW s \in Session, Steps(s), NEW w \in Name, NEW k, Told(w, k)
    PROVE  Told(w, k)'
<1> SUFFICES ASSUME w # None, w.phase = "worker"
             PROVE  /\ phase'[w.by] \notin {"start", "baseline"}
                    /\ ExpectSurvive(fault'[w.by]) /\ k = WorkerKey(fault'[w.by])
    BY DEF Told
<1>1. PICK r \in Session : r = w.by
    BY DEF Name
<1>2. /\ phase[r] \notin {"start", "baseline"}
      /\ ExpectSurvive(fault[r]) /\ k = WorkerKey(fault[r])
    BY <1>1 DEF Told
<1>3. phase'[r] \notin {"start", "baseline"} /\ fault'[r] = fault[r]
    BY <1>2, PhasesGoOn
<1> QED
    BY <1>1, <1>2, <1>3

\* All records of new were in log, or say the truth.
Follows(new, log) ==
    \A i \in 1 .. Len(new) :
        (i \in 1 .. Len(log) /\ new[i] = log[i]) \/ RecordIsTrue(new[i])

LEMMA LogStaysOK ==
    ASSUME Basics, NEW s \in Session, Steps(s), NEW log, LogOK(log), NEW new,
           Follows(new, log)
    PROVE  LogOK(new)'
<1>1. \A i \in 1 .. Len(new) : RecordIsTrue(new[i])
    BY DEF Follows, LogOK
<1>2. ASSUME NEW i \in 1 .. Len(new), NEW w \in Name, NEW k \in Key, IsPutOf(new[i], w, k)
      PROVE  Told(w, k)'
    BY <1>1, <1>2, ToldStays DEF RecordIsTrue
<1>3. \A i \in 1 .. Len(new) : IsTorn(new[i]) \/ new[i].txn_id = new[i].commit_ts
    BY <1>1 DEF RecordIsTrue
<1> QED
    BY <1>2, <1>3 DEF LogOK, RecordIsTrue

LEMMA TornIsTrue ==
    ASSUME NEW r, IsTorn(r)
    PROVE  RecordIsTrue(r)
BY DEF IsTorn, RecordIsTrue, IsPutOf

\* What a commit appends says the truth.
LEMMA AppendedIsTrue ==
    ASSUME Basics, NEW s \in Session, NumbersOK(s), stage[s] = "redo",
           ~ DiesBeforeAppend(s), NEW n,
           NEW r, \/ \E k \in Key : Written(txn_of[s]) = {k} /\ r = RecordOf(s, "put", k, n)
                  \/ r = RecordOf(s, "commit", None, n)
    PROVE  RecordIsTrue(r)
<1>0. PhaseOK(s) /\ EngineOK(s)
    BY DEF Basics, SessionsOK
<1>1. /\ txn_of[s].txn_id = txn_of[s].commit_ts /\ txn_of[s].writer = Own(s, phase[s])
      /\ UsesEngine(s)
      /\ \E k \in pending[s] : Written(txn_of[s]) = {k}
    BY <1>0 DEF EngineOK, NumbersOK, Committing
<1> DEFINE Fields(x, type, j) ==
              /\ x.type = type /\ x.key = j /\ x.txn_id = x.commit_ts
              /\ x.writer = Own(s, phase[s])
<1>2. \A type, j : Fields(RecordOf(s, type, j, n), type, j)
    BY <1>1 DEF RecordOf, Record
<1>2a. \/ Fields(r, "commit", None)
      \/ \E k \in Key : Written(txn_of[s]) = {k} /\ Fields(r, "put", k)
    <2>1. CASE r = RecordOf(s, "commit", None, n)
        BY <1>2, <2>1, Zenon
    <2>2. CASE \E k \in Key : Written(txn_of[s]) = {k} /\ r = RecordOf(s, "put", k, n)
        <3>1. PICK k \in Key : Written(txn_of[s]) = {k} /\ r = RecordOf(s, "put", k, n)
            BY <2>2
        <3>2. Fields(r, "put", k)
            BY <1>2, <3>1, Zenon
        <3> QED
            BY <3>1, <3>2
    <2> QED
        BY <2>1, <2>2
<1>3. ASSUME NEW w \in Name, NEW k \in Key, IsPutOf(r, w, k), w.phase = "worker"
      PROVE  Told(w, k)
    <2>1. w = Own(s, phase[s])
        BY <1>2a, <1>3 DEF IsPutOf
    <2>2. w.by = s /\ phase[s] = "worker"
        BY <2>1, <1>3 DEF Own
    <2>3. ExpectSurvive(fault[s])
        BY <1>0, <2>2 DEF PhaseOK, DiesBeforeAppend, ExpectSurvive
    <2>4. PICK j \in Key : Written(txn_of[s]) = {j} /\ Fields(r, "put", j)
        BY <1>2a, <1>3 DEF IsPutOf
    <2>5. k = j
        BY <2>4, <1>3 DEF IsPutOf
    <2>6. j = WorkerKey(fault[s])
        BY <2>2, <2>4, <1>0, <1>1 DEF PhaseOK
    <2> QED
        BY <2>2, <2>3, <2>5, <2>6 DEF Told
<1>4. ASSUME NEW w \in Name, NEW k \in Key, IsPutOf(r, w, k)
      PROVE  Told(w, k)
    BY <1>3, <1>4 DEF Told
<1>5. r.txn_id = r.commit_ts
    BY <1>2a
<1> QED
    BY <1>4, <1>5 DEF RecordIsTrue

LEMMA AppendedFollows ==
    ASSUME NEW f \in 1 .. Len(logs), NEW new, NEW r, AppendedTo(new, f, r), RecordIsTrue(r)
    PROVE  \A g \in 1 .. Len(logs) : Follows(new[g], logs[g])
<1>1. ASSUME NEW g \in 1 .. Len(logs), g # f
      PROVE  Follows(new[g], logs[g])
    BY <1>1 DEF AppendedTo, Follows
<1>2. Follows(new[f], logs[f])
    <2>1. ASSUME NEW i \in 1 .. Len(new[f])
          PROVE  (i \in 1 .. Len(logs[f]) /\ new[f][i] = logs[f][i]) \/ new[f][i] = r
        BY DEF AppendedTo
    <2> QED
        BY <2>1 DEF Follows
<1> QED
    BY <1>1, <1>2

LEMMA LogsFollow ==
    ASSUME Basics, NEW s \in Session, NumbersOK(s), Steps(s),
           NEW f \in 1 .. Len(logs')
    PROVE  \/ logs'[f] = << >>
           \/ f \in 1 .. Len(logs) /\ Follows(logs'[f], logs[f])
<1>0. logs \in Seq(Seq(Rec)) /\ Len(logs) \in Nat /\ engine[s] \in Engines
    BY LenProperties DEF Basics, EngineTypes
<1>1. stage[s] # "none" => engine[s].file \in 1 .. Len(logs)
    BY DEF Basics, SessionsOK, EngineOK
<1>2. CASE AfterStart(s) \/ AfterOpen(s)
    <2>1. AfterOpen(s)
        BY <1>2 DEF AfterStart
    <2>2. CASE live = 0
        <3>1. /\ Len(logs') = Len(logs) + 1 /\ logs'[Len(logs) + 1] = << >>
              /\ \A g \in 1 .. Len(logs) : logs'[g] = logs[g]
            BY <2>1, <2>2 DEF AfterOpen
        <3>2. f = Len(logs) + 1 \/ f \in 1 .. Len(logs)
            <4>1. PICK n \in Nat : n = Len(logs)
                BY <1>0
            <4>2. f \in 1 .. (n + 1)
                BY <3>1, <4>1
            <4> QED
                BY <4>1, <4>2
        <3> QED
            BY <3>1, <3>2 DEF Follows
    <2>3. CASE live # 0
        BY <2>1, <2>3 DEF AfterOpen, Follows
    <2> QED
        BY <2>2, <2>3
<1>3. CASE AfterTruncate(s)
    <2>1. PICK file, n : file = engine[s].file /\ n = engine[s].valid_lsn
        OBVIOUS
    <2>2. /\ file \in 1 .. Len(logs) /\ n \in Nat /\ Len(logs') = Len(logs)
          /\ logs'[file] = CutAt(logs[file], n, None)
          /\ \A g \in 1 .. Len(logs) : g # file => logs'[g] = logs[g]
        BY <1>0, <1>1, <1>3, <2>1 DEF AfterTruncate, Engines
    <2>3. CASE f # file
        BY <2>2, <2>3 DEF Follows
    <2>4. CASE f = file
        <3>1. PICK log \in Seq(Rec) : log = logs[f]
            BY <2>2, <2>4, <1>0, ElementOfSeq
        <3>2. PICK new : new = CutAt(log, n, None)
            OBVIOUS
        <3>3. /\ new \in Seq(Rec)
              /\ \A i \in 1 .. Len(new) : (i <= Len(log) /\ new[i] = log[i]) \/ IsTorn(new[i])
            <4>1. None \in Key \cup {None} /\ None \in Name
                BY DEF Name
            <4> QED
                BY <4>1, <3>2, <2>2, CutFacts DEF Rec
        <3>4. Len(log) \in Nat /\ Len(new) \in Nat
            BY <3>3, LenProperties
        <3>5. Follows(new, log)
            BY <3>3, <3>4, TornIsTrue DEF Follows
        <3> QED
            BY <2>2, <2>4, <3>1, <3>2, <3>5
    <2> QED
        BY <2>3, <2>4
<1>4. ASSUME NEW r, AppendedTo(logs', engine[s].file, r), RecordIsTrue(r), stage[s] # "none"
      PROVE  f \in 1 .. Len(logs) /\ Follows(logs'[f], logs[f])
    <2>1. f \in 1 .. Len(logs)
        BY <1>4 DEF AppendedTo
    <2>2. \A g \in 1 .. Len(logs) : Follows(logs'[g], logs[g])
        BY <1>1, <1>4, AppendedFollows
    <2> QED
        BY <2>1, <2>2
<1>5. ASSUME NEW k \in Key, AfterRedo(s, k)
      PROVE  f \in 1 .. Len(logs) /\ Follows(logs'[f], logs[f])
    <2>1. PICK n, r : r = RecordOf(s, "put", k, n) /\ AppendedTo(logs', engine[s].file, r)
        BY <1>5 DEF AfterRedo
    <2>2. RecordIsTrue(r)
        BY <2>1, <1>5, AppendedIsTrue DEF AfterRedo
    <2> QED
        BY <2>1, <2>2, <1>4, <1>5 DEF AfterRedo
<1>6. CASE AfterAppendCommit(s)
    <2>1. PICK r : r = RecordOf(s, "commit", None, CommitSize)
        OBVIOUS
    <2>2. RecordIsTrue(r)
        BY <2>1, <1>6, AppendedIsTrue DEF AfterAppendCommit
    <2> QED
        BY <2>1, <2>2, <1>4, <1>6 DEF AfterAppendCommit
<1>7. ASSUME logs' = logs
      PROVE  f \in 1 .. Len(logs) /\ Follows(logs'[f], logs[f])
    BY <1>7 DEF Follows
<1>8. CASE AfterWorker(s)
    <2>1. CASE logs' = logs
        BY <2>1, <1>7
    <2>2. CASE logs' # logs
        <3>1. PICK n \in Nat \ {0} : AppendedTo(logs', engine[s].file, Damage("torn", n, None))
            BY <1>8, <2>2 DEF AfterWorker
        <3>2. PICK r : r = Damage("torn", n, None)
            OBVIOUS
        <3>3. RecordIsTrue(r)
            <4>1. IsTorn(r)
                BY <3>2, DamageIsTyped DEF IsTorn
            <4> QED
                BY <4>1, TornIsTrue
        <3>4. stage[s] # "none"
            BY <1>8 DEF AfterWorker
        <3> QED
            BY <3>1, <3>2, <3>3, <3>4, <1>4
    <2> QED
        BY <2>1, <2>2
<1> QED
    BY <1>2, <1>3, <1>5, <1>6, <1>7, <1>8
    DEF Steps, AfterPass1, AfterRecover, AfterCommit, AfterAck, AfterBaseline, AfterRaise, AfterVerify,
        AfterCleanup

LEMMA LogsStay ==
    ASSUME Basics, LogsOK, NEW s \in Session, NumbersOK(s), Steps(s)
    PROVE  LogsOK'
<1>1. ASSUME NEW f \in 1 .. Len(logs'), NEW new, new = logs'[f]
      PROVE  LogOK(new)'
    <2>1. CASE new = << >>
        <3>1. 1 .. Len(new) = {}
            BY <2>1, EmptySeq
        <3> QED
            BY <3>1 DEF LogOK
    <2>2. CASE new # << >>
        <3>1. f \in 1 .. Len(logs) /\ Follows(new, logs[f])
            BY <1>1, <2>2, LogsFollow
        <3>2. PICK log : log = logs[f]
            OBVIOUS
        <3>3. LogOK(log) /\ Follows(new, log)
            BY <3>1, <3>2 DEF LogsOK
        <3> QED
            BY <3>3, LogStaysOK
    <2> QED
        BY <2>1, <2>2
<1> QED
    BY <1>1 DEF LogsOK, LogOK, RecordIsTrue

\* The passes read the file of session s as it is.
ReadAsItIs(s) == stage[s] \in {"truncated", "pass1"} => ReadingsOf(s) = {Log(s)}

LEMMA NumbersStay ==
    ASSUME Basics, LogsOK, NEW s \in Session, Steps(s), ReadAsItIs(s),
           \A r \in Session : NumbersOK(r)
    PROVE  \A r \in Session : NumbersOK(r)'
<1>0. /\ Typed(s) /\ NumbersOK(s) /\ EngineOK(s) /\ engine[s] \in Engines
    BY StepBounds DEF Basics, SessionsOK, EngineTypes
<1>1. ASSUME NEW r \in Session, r # s
      PROVE  NumbersOK(r)'
    <2>1. stage'[r] = stage[r] /\ engine'[r] = engine[r] /\ txn_of'[r] = txn_of[r]
        BY <1>0, <1>1 DEF Typed, Others
    <2>2. NumbersOK(r)
        OBVIOUS
    <2> QED
        BY <2>1, <2>2 DEF NumbersOK, Committing, Serving
<1>2. ASSUME stage'[s] \in {"none", "scanned", "truncated"}
      PROVE  NumbersOK(s)'
    BY <1>2 DEF NumbersOK, Committing, Serving
<1>3. ASSUME AfterPass1(s)
      PROVE  NumbersOK(s)'
    <2>1. /\ stage[s] = "truncated" /\ stage'[s] = "pass1"
          /\ engine'[s].committed = CommittedTxns(Log(s))
        BY <1>3 DEF AfterPass1, ReadAsItIs
    <2>2. PICK log : log = Log(s)
        OBVIOUS
    <2>3. log \in Seq(Rec) /\ LogOK(log)
        <3>1. engine[s].file \in 1 .. Len(logs)
            BY <1>0, <2>1 DEF EngineOK
        <3> QED
            BY <3>1, <2>2, ElementOfSeq DEF Log, LogsOK, Basics, EngineTypes
    <2>4. PICK found : found = CommittedTxns(log)
        OBVIOUS
    <2>5. FoundIn(found, log)
        BY <2>3, <2>4, CommittedFacts DEF Rec
    <2>6. \A id \in DOMAIN found : found[id] = id
        BY <2>3, <2>5 DEF FoundIn, LogOK, RecordIsTrue, IsTorn
    <2>7. engine'[s].committed = found
        BY <2>1, <2>2, <2>4
    <2>8. \A id \in DOMAIN engine'[s].committed : engine'[s].committed[id] = id
        BY <2>6, <2>7
    <2>9. ~ Committing(s)' /\ ~ Serving(s)'
        BY <2>1 DEF Committing, Serving
    <2> QED
        BY <2>8, <2>9, Zenon DEF NumbersOK
<1>4. ASSUME AfterRecover(s)
      PROVE  NumbersOK(s)'
    <2>1. PICK found : found = engine[s].committed
        OBVIOUS
    <2>2. \A id \in DOMAIN found : found[id] = id
        BY <1>0, <1>4, <2>1 DEF AfterRecover, NumbersOK
    <2>3. {found[id] : id \in DOMAIN found} = DOMAIN found
        BY <2>2
    <2>4. engine'[s].next_ts = engine'[s].next_txn_id /\ stage'[s] = "idle"
        BY <1>4, <2>1, <2>3 DEF AfterRecover
    <2>5. ~ Committing(s)' /\ stage'[s] # "pass1"
        BY <2>4 DEF Committing
    <2> QED
        BY <2>4, <2>5, Zenon DEF NumbersOK
<1>5. ASSUME NEW k \in Key, AfterCommit(s, k)
      PROVE  NumbersOK(s)'
    <2>1. engine[s].next_ts = engine[s].next_txn_id
        BY <1>0, <1>5 DEF AfterCommit, NumbersOK, Serving
    <2> QED
        BY <2>1, <1>5 DEF AfterCommit, NumbersOK
<1>6. ASSUME AfterAppendCommit(s) \/ AfterAck(s) \/ \E k \in Key : AfterRedo(s, k)
      PROVE  NumbersOK(s)'
    <2>1. /\ stage[s] \in {"redo", "sync"} /\ stage'[s] \in {"redo", "sync", "idle"}
          /\ engine'[s].next_ts = engine[s].next_ts
          /\ engine'[s].next_txn_id = engine[s].next_txn_id
          /\ stage'[s] \in {"redo", "sync"} => txn_of' = txn_of
        BY <1>0, <1>6 DEF AfterAppendCommit, AfterAck, AfterRedo, Engines
    <2>2. Serving(s) /\ Committing(s) /\ stage'[s] # "pass1"
        BY <2>1 DEF Serving, Committing
    <2>3. Committing(s)' => txn_of' = txn_of
        BY <2>1 DEF Committing
    <2> QED
        BY <2>1, <2>2, <2>3, <1>0, Zenon DEF NumbersOK
<1>7. ASSUME AfterCleanup(s)
      PROVE  NumbersOK(s)'
    <2>1. stage' = stage /\ ~ UsesEngine(s)
        BY <1>7 DEF AfterCleanup, UsesEngine
    <2>2. stage'[s] = "none"
        BY <2>1, <1>0 DEF EngineOK
    <2> QED
        BY <2>2, <1>2
<1>8. NumbersOK(s)'
    BY <1>2, <1>3, <1>4, <1>5, <1>6, <1>7
    DEF Steps, AfterStart, AfterOpen, AfterTruncate, AfterWorker, AfterBaseline, AfterRaise,
        AfterVerify, AfterForget
<1> QED
    BY <1>1, <1>8

\* What pass 2 makes of a log that says the truth.
LEMMA ReplayedIsOK ==
    ASSUME NEW log \in Seq(Rec), LogOK(log), NEW found \in Maps, NEW k \in Key,
           \A id \in DOMAIN found : found[id] = id
    PROVE  ListOK(Replayed(log, found, k), PastAll({found[id] : id \in DOMAIN found}), k)
<1>1. PICK list, ts : /\ list = Replayed(log, found, k)
                      /\ ts = PastAll({found[id] : id \in DOMAIN found})
    OBVIOUS
<1>2. Rebuilt(list, log, Len(log), found, k, Name)
    BY <1>1, ReplayedFacts DEF Rec
<1>3. \A id \in DOMAIN found : id < ts
    <2>1. PICK b \in Nat : \A id \in DOMAIN found : id <= b /\ found[id] <= b
        BY DEF Maps
    <2>2. {found[id] : id \in DOMAIN found} = DOMAIN found
        OBVIOUS
    <2>3. DOMAIN found \in SUBSET (0 .. b)
        <3>1. PICK D \in SUBSET Nat : found \in [D -> Nat]
            BY DEF Maps
        <3> QED
            BY <3>1, <2>1
    <2> QED
        BY <2>1, <2>2, <2>3, <1>1, PastAllFacts
<1>4. ASSUME NEW i \in 1 .. Len(list)
      PROVE  list[i].begin_ts < ts /\ Told(list[i].writer, k)
    <2>1. PICK m \in 1 .. Len(log) :
            /\ IsReplayed(log[m], found, k)
            /\ list[i].begin_ts = log[m].commit_ts /\ list[i].writer = log[m].writer
        BY <1>2 DEF Rebuilt
    <2>2. RecordIsTrue(log[m]) /\ log[m].writer \in Name
        <3>1. log[m] \in Rec
            BY ElementOfSeq
        <3> QED
            BY <3>1 DEF LogOK, Rec, LogRecord
    <2>3. IsPutOf(log[m], log[m].writer, k) /\ log[m].txn_id \in DOMAIN found
        BY <2>1 DEF IsReplayed, IsPutOf
    <2>4. Told(log[m].writer, k)
        BY <2>2, <2>3 DEF RecordIsTrue
    <2>5. log[m].commit_ts < ts
        BY <2>2, <2>3, <1>3 DEF RecordIsTrue, IsPutOf, IsTorn
    <2> QED
        BY <2>1, <2>4, <2>5
<1> QED
    BY <1>1, <1>4 DEF ListOK

\* What a worker, or the baseline, has committed is told.
LEMMA CommittingIsTold ==
    ASSUME Basics, NEW s \in Session, stage[s] = "sync", NEW k \in Written(txn_of[s])
    PROVE  Told(Own(s, phase[s]), k)
<1>1. PhaseOK(s) /\ EngineOK(s)
    BY DEF Basics, SessionsOK
<1>2. PICK j \in pending[s] : Written(txn_of[s]) = {j}
    BY <1>1 DEF EngineOK, Committing
<1>3. phase[s] = "worker" => ExpectSurvive(fault[s]) /\ k = WorkerKey(fault[s])
    BY <1>1, <1>2 DEF PhaseOK, Wrote
<1> QED
    BY <1>3 DEF Told, Own

LEMMA NextListIsOK ==
    ASSUME Basics, LogsOK, CatalogsOK, NEW s \in Session, NumbersOK(s), Steps(s),
           ReadAsItIs(s), NEW k \in Key
    PROVE  ListOK(engine'[s].catalog[k], engine'[s].next_ts, k)
<1>0. /\ EngineOK(s) /\ CatalogOK(s) /\ logs \in Seq(Seq(Rec))
      /\ engine[s] \in Engines /\ txn_of[s] \in Txns
    BY DEF Basics, SessionsOK, CatalogsOK, EngineTypes
<1>1. PICK list, ts : list = engine[s].catalog[k] /\ ts = engine[s].next_ts
    OBVIOUS
<1>2. ListOK(list, ts, k)
    BY <1>0, <1>1 DEF CatalogOK
<1>3. list \in Seq(Version) /\ ts \in Nat
    BY <1>0, <1>1 DEF Engines
<1>4. CASE engine'[s].catalog[k] = << >>
    BY <1>4, EmptySeq DEF ListOK
<1>5. CASE engine'[s].catalog[k] = list /\ engine'[s].next_ts = ts
    BY <1>2, <1>5
<1>6. CASE AfterTruncate(s) \/ AfterPass1(s)
    BY <1>1, <1>5, <1>6 DEF AfterTruncate, AfterPass1
<1>7. CASE AfterRecover(s)
    <2>1. PICK log, found : log = logs[engine[s].file] /\ found = engine[s].committed
        OBVIOUS
    <2>2. /\ log \in Seq(Rec) /\ found \in Maps /\ LogOK(log)
          /\ \A id \in DOMAIN found : found[id] = id
        <3>1. engine[s].file \in 1 .. Len(logs)
            BY <1>0, <1>7 DEF AfterRecover, EngineOK
        <3>2. LogOK(log)
            BY <3>1, <2>1 DEF LogsOK
        <3>3. log \in Seq(Rec)
            BY <3>1, <2>1, <1>0, ElementOfSeq
        <3> QED
            BY <3>2, <3>3, <2>1, <1>0, <1>7 DEF AfterRecover, NumbersOK, Engines
    <2>3. /\ engine'[s].catalog[k] = Replayed(log, found, k)
          /\ engine'[s].next_ts = PastAll({found[id] : id \in DOMAIN found})
        BY <2>1, <1>7 DEF AfterRecover, ReadAsItIs, Log
    <2>4. ListOK(Replayed(log, found, k), PastAll({found[id] : id \in DOMAIN found}), k)
        BY <2>2, ReplayedIsOK
    <2> QED
        BY <2>3, <2>4
<1>8. ASSUME NEW j \in Key, AfterCommit(s, j)
      PROVE  ListOK(engine'[s].catalog[k], engine'[s].next_ts, k)
    <2>1. engine'[s].catalog[k] = list /\ engine'[s].next_ts = ts + 1
        BY <1>1, <1>8 DEF AfterCommit
    <2>2. ListOK(list, ts + 1, k)
        <3>1. \A i \in 1 .. Len(list) : list[i] \in Version
            BY <1>3, ElementOfSeq
        <3> QED
            BY <3>1, <1>2, <1>3 DEF ListOK, Version, VersionBy
    <2> QED
        BY <2>1, <2>2
<1>9. ASSUME NEW j \in Key, AfterRedo(s, j)
      PROVE  engine'[s].catalog[k] = list /\ engine'[s].next_ts = ts
    BY <1>0, <1>1, <1>9 DEF AfterRedo, Engines
<1>10. CASE AfterAppendCommit(s) \/ AfterCleanup(s)
    BY <1>1, <1>5, <1>10 DEF AfterAppendCommit, AfterCleanup
<1>11. CASE AfterAck(s)
    <2>1. PICK t : t = txn_of[s]
        OBVIOUS
    <2>2. engine'[s].catalog[k] = WithVersion(list, t, k) /\ engine'[s].next_ts = ts
        BY <1>1, <1>11, <2>1 DEF AfterAck
    <2>3. stage[s] = "sync"
        BY <1>11 DEF AfterAck
    <2>4. t.commit_ts < ts /\ t.writer = Own(s, phase[s])
        BY <1>0, <1>1, <2>1, <2>3 DEF EngineOK, Committing
    <2>5. CASE k \in Written(t)
        <3>1. PICK v : v = NewVersion(t.commit_ts, t.writer, t.write_set[k] = "del")
            OBVIOUS
        <3>2. v \in Version /\ v.begin_ts = t.commit_ts /\ v.writer = t.writer
            BY <3>1, <2>1, <1>0 DEF NewVersion, Version, VersionBy, Txns
        <3>3. PICK new : new = InstallVersion(list, v)
            OBVIOUS
        <3>4. Grown(new, list, v, Name)
            BY <3>2, <3>3, <1>3, InstallFacts DEF Version
        <3>5. Told(v.writer, k)
            BY <2>1, <2>3, <2>4, <2>5, <3>2, CommittingIsTold
        <3>6. Len(list) \in Nat /\ Len(new) = Len(list) + 1 /\ new[Len(list) + 1] = v
            BY <3>4, <1>3, LenProperties DEF Grown
        <3>7. ASSUME NEW i \in 1 .. Len(new)
              PROVE  new[i].begin_ts < ts /\ Told(new[i].writer, k)
            <4>1. CASE i = Len(list) + 1
                BY <4>1, <3>2, <3>5, <3>6, <2>4
            <4>2. CASE i # Len(list) + 1
                <5>1. i \in 1 .. Len(list)
                    BY <4>2, <3>6
                <5> QED
                    BY <5>1, <3>4, <1>2 DEF Grown, ListOK
            <4> QED
                BY <4>1, <4>2
        <3>8. WithVersion(list, t, k) = new
            BY <2>5, <3>1, <3>3 DEF WithVersion
        <3> QED
            BY <3>7, <3>8, <2>2 DEF ListOK
    <2>6. CASE k \notin Written(t)
        BY <2>2, <2>6, <1>5 DEF WithVersion
    <2> QED
        BY <2>5, <2>6
<1> QED
    BY <1>4, <1>5, <1>6, <1>7, <1>8, <1>9, <1>10, <1>11
    DEF Steps, AfterStart, AfterOpen, AfterWorker, AfterBaseline, AfterRaise, AfterVerify,
        AfterForget

LEMMA CatalogsStay ==
    ASSUME Basics, LogsOK, CatalogsOK, NEW s \in Session, NumbersOK(s), Steps(s),
           ReadAsItIs(s)
    PROVE  CatalogsOK'
<1>1. Typed(s)
    BY StepBounds
<1>2. ASSUME NEW r \in Session, NEW k \in Key
      PROVE  ListOK(engine'[r].catalog[k], engine'[r].next_ts, k)
    <2>1. CASE r = s
        BY <2>1, NextListIsOK
    <2>2. CASE r # s
        <3>1. engine'[r] = engine[r]
            BY <1>1, <2>2 DEF Typed, Others
        <3>2. ListOK(engine[r].catalog[k], engine[r].next_ts, k)
            BY DEF CatalogsOK, CatalogOK
        <3> QED
            BY <3>1, <3>2
    <2> QED
        BY <2>1, <2>2
<1>3. ASSUME NEW r \in Session, NEW k \in Key, NEW list, NEW ts,
             list = engine'[r].catalog[k], ts = engine'[r].next_ts
      PROVE  ListOK(list, ts, k)'
    <2>1. ListOK(list, ts, k)
        BY <1>2, <1>3
    <2>2. list \in Seq(Version)
        BY <1>1, <1>3 DEF Typed, EngineTypes, Engines
    <2>3. ASSUME NEW i \in 1 .. Len(list)
          PROVE  list[i].begin_ts < ts /\ Told(list[i].writer, k)'
        <3>1. list[i].writer \in Name
            <4>1. list[i] \in Version
                BY <2>2, ElementOfSeq
            <4> QED
                BY <4>1 DEF Version, VersionBy
        <3>2. list[i].begin_ts < ts /\ Told(list[i].writer, k)
            BY <2>1 DEF ListOK
        <3>3. Told(list[i].writer, k)'
            BY <3>1, <3>2, ToldStays
        <3> QED
            BY <3>2, <3>3
    <2> QED
        BY <2>3 DEF ListOK
<1> QED
    BY <1>3 DEF CatalogsOK, CatalogOK

-----------------------------------------------------------------------------
\* The initial states

LEMMA RecordsInit ==
    ASSUME ExperimentsInit
    PROVE  Records
<1>1. /\ logs = << >> /\ live = 0
      /\ stage = [s \in Session |-> "none"]
      /\ engine = [s \in Session |-> NoEngine]
      /\ txn_of = [s \in Session |-> NoTxn]
    BY DEF ExperimentsInit, Init
<1>2. EngineTypes
    <2>1. logs \in Seq(Seq(Rec)) /\ Len(logs) = 0
        BY <1>1, EmptySeq
    <2> QED
        BY <1>1, <2>1, NothingIsTyped DEF EngineTypes, Stages
<1>3. /\ kind \in {"crash", "chaos"}
      /\ pending = baseline
      /\ phase = [s \in Session |-> "start"]
      /\ fault = [s \in Session |-> "none"]
      /\ verdict = [s \in Session |-> "none"]
      /\ met = [s \in Session |-> FALSE]
    BY DEF ExperimentsInit
<1>4. /\ baseline \in [Session -> SUBSET Key]
      /\ value \in [Session -> {"", "val"}]
      /\ \A s \in Session : baseline[s] = {} => value[s] = "val"
    <2>1. CASE kind = "chaos"
        <3>1. /\ baseline = [s \in Session |-> ChaosKeys]
              /\ value = [s \in Session |-> "val"]
            BY <2>1 DEF ExperimentsInit
        <3>2. ChaosKeys \subseteq Key
            BY ExperimentsAssumption
        <3> QED
            BY <3>1, <3>2
    <2>2. CASE kind # "chaos"
        <3>1. PICK input \in Inputs :
                /\ baseline = [s \in Session |-> {input[s][1]}]
                /\ value = [s \in Session |-> input[s][2]]
            BY <2>2 DEF ExperimentsInit
        <3>2. input \in [Session -> Key \X {"", "val"}]
            BY <3>1, ExperimentsAssumption
        <3>3. \A s \in Session : input[s][1] \in Key /\ input[s][2] \in {"", "val"}
            BY <3>2
        <3> QED
            BY <3>1, <3>3
    <2> QED
        BY <2>1, <2>2
<1>5. RunTypes
    BY <1>3, <1>4 DEF RunTypes, Phases
<1>6. SessionsOK
    BY <1>1, <1>3 DEF SessionsOK, PhaseOK, EngineOK, Committing
<1>7. LogsOK
    <2>1. Len(logs) = 0
        BY <1>1, EmptySeq
    <2> QED
        BY <2>1 DEF LogsOK
<1>8. CatalogsOK
    <2>1. \A s \in Session, k \in Key : engine[s].catalog[k] = << >>
        BY <1>1 DEF NoEngine
    <2> QED
        BY <2>1, EmptySeq DEF CatalogsOK, CatalogOK, ListOK
<1>9. \A s \in Session : NumbersOK(s)
    BY <1>1 DEF NumbersOK, Committing, Serving
<1> QED
    BY <1>2, <1>5, <1>6, <1>7, <1>8, <1>9 DEF Records, AllTrue, Basics

\* Nobody reads what another experiment left in the file of a free directory.
LEMMA RecordsStay ==
    ASSUME Records, NEW s \in Session, Steps(s), Free => ReadAsItIs(s)
    PROVE  Records'
<1>1. Basics /\ Basics'
    BY BasicsStay DEF Records
<1>2. ASSUME Free'
      PROVE  AllTrue'
    <2>1. Free
        BY <1>1, <1>2, FreeBefore
    <2>2. LogsOK /\ CatalogsOK /\ ReadAsItIs(s) /\ \A r \in Session : NumbersOK(r)
        BY <2>1 DEF Records, AllTrue
    <2>3. NumbersOK(s)
        BY <2>2
    <2>4. LogsOK'
        BY <1>1, <2>2, <2>3, LogsStay
    <2>5. CatalogsOK'
        BY <1>1, <2>2, <2>3, CatalogsStay
    <2>6. \A r \in Session : NumbersOK(r)'
        BY <1>1, <2>2, NumbersStay
    <2> QED
        BY <2>4, <2>5, <2>6 DEF AllTrue
<1> QED
    BY <1>1, <1>2 DEF Records

LEMMA RecordsUnchanged ==
    ASSUME Records, UNCHANGED allVars
    PROVE  Records'
<1>1. Basics'
    BY BasicsUnchanged DEF Records
<1>2. ASSUME AllTrue
      PROVE  AllTrue'
    <2>1. LogsOK'
        BY <1>2 DEF AllTrue, LogsOK, LogOK, RecordIsTrue, Told, allVars, vars, runVars
    <2>2. CatalogsOK'
        <3>1. UNCHANGED <<phase, fault, engine>>
            BY DEF allVars, vars, runVars
        <3>2. \A w, k : Told(w, k) => Told(w, k)'
            BY <3>1 DEF Told
        <3>3. \A r \in Session : CatalogOK(r)
            BY <1>2 DEF AllTrue, CatalogsOK
        <3> QED
            BY <3>1, <3>2, <3>3 DEF CatalogsOK, CatalogOK, ListOK
    <2>3. \A r \in Session : NumbersOK(r)'
        BY <1>2 DEF AllTrue, NumbersOK, Committing, Serving, allVars, vars, runVars
    <2> QED
        BY <2>1, <2>2, <2>3 DEF AllTrue
<1>3. Free' => Free
    BY DEF Free, allVars, runVars
<1> QED
    BY <1>1, <1>2, <1>3 DEF Records

\* What a read finds is the value of a version, if it finds one.
LEMMA ReadIsAVersion ==
    ASSUME NEW n \in Nat, NEW list, NEW ts, NEW NotFound,
           ReadResult(list, n, ts, NotFound) # NotFound
    PROVE  \E i \in 1 .. n : ReadResult(list, n, ts, NotFound) = list[i].writer
<1>1. PICK places : places = VisibleAt(list, n, ts)
    OBVIOUS
<1>2. places # {} /\ ReadResult(list, n, ts, NotFound) = list[NewestOf(places)].writer
    BY <1>1 DEF ReadResult
<1>3. places \in SUBSET (0 .. n)
    BY <1>1 DEF VisibleAt
<1>4. PICK x \in places : \A y \in places : x >= y
    BY <1>2, <1>3, LargestNumber
<1>5. NewestOf(places) \in places
    BY <1>3, <1>4 DEF NewestOf
<1> QED
    BY <1>1, <1>2, <1>5 DEF VisibleAt

LEMMA FoundIsTold ==
    ASSUME Records, Free, NEW s \in Session, NEW k \in Key, Found(s, k) # None
    PROVE  Told(Found(s, k), k)
<1>1. PICK list : list = engine[s].catalog[k]
    OBVIOUS
<1>2. list \in Seq(Version)
    BY <1>1 DEF Records, Basics, EngineTypes, Engines
<1>3. Found(s, k) = ReadResult(list, Len(list), Snapshot(s), None)
    BY <1>1 DEF Found, Read
<1>4. PICK i \in 1 .. Len(list) : Found(s, k) = list[i].writer
    BY <1>2, <1>3, ReadIsAVersion, LenProperties
<1>5. Told(list[i].writer, k)
    BY <1>1 DEF Records, AllTrue, CatalogsOK, CatalogOK, ListOK
<1> QED
    BY <1>4, <1>5

-----------------------------------------------------------------------------
\* The chaos loop and its directory

\* Who is in a directory is still there.
SomebodyIsThere == kind = "chaos" /\ live # 0 => \E s \in Session : AtWork(s)

LEMMA SomebodyStays ==
    ASSUME Basics, SomebodyIsThere, NEW s \in Session, Steps(s)
    PROVE  SomebodyIsThere'
<1> SUFFICES ASSUME kind' = "chaos", live' # 0
             PROVE  AtWork(s)'
    BY DEF SomebodyIsThere
<1>1. EngineOK(s) /\ Typed(s)
    BY StepBounds DEF Basics, SessionsOK
<1>2. After = "cleanup"
    <2>1. kind' = kind
        BY <1>1 DEF Typed, Others
    <2> QED
        BY <2>1 DEF After
<1>3. CASE stage[s] # "none" /\ phase' = phase
    BY <1>1, <1>3 DEF EngineOK, AtWork, UsesEngine
<1>4. CASE AfterOpen(s) /\ UsesEngine(s) /\ UNCHANGED runVars
    BY <1>4 DEF AtWork, UsesEngine, runVars
<1>5. CASE AfterStart(s) \/ AfterWorker(s) \/ AfterBaseline(s)
    BY <1>5 DEF AtWork, AfterStart, AfterWorker, AfterBaseline
<1>6. CASE AfterRaise(s)
    <2>1. phase'[s] \in {"verify", "cleanup"}
        BY <1>2, <1>6 DEF AfterRaise
    <2> QED
        BY <2>1 DEF AtWork
<1>7. CASE AfterVerify(s)
    BY <1>2, <1>7 DEF AfterVerify, AtWork
<1>8. ~ AfterCleanup(s)
    BY DEF AfterCleanup
<1>9. CASE \/ AfterTruncate(s) \/ AfterPass1(s) \/ AfterRecover(s)
           \/ AfterAppendCommit(s) \/ AfterAck(s)
           \/ \E k \in Key : AfterCommit(s, k) \/ AfterRedo(s, k)
    <2>1. stage[s] # "none" /\ phase' = phase
        BY <1>9 DEF AfterTruncate, AfterPass1, AfterRecover, AfterAppendCommit, AfterAck,
           AfterCommit, AfterRedo, runVars
    <2> QED
        BY <2>1, <1>3
<1> QED
    BY <1>4, <1>5, <1>6, <1>7, <1>8, <1>9 DEF Steps

(***************************************************************************)
(* The chaos loop leaves no directory behind, for any number of loops at   *)
(* work in it: whoever comes first to remove it, the last one does, too.   *)
(***************************************************************************)
THEOREM ChaosAlwaysCleansUp == ExperimentsSpec => []ChaosCleansUp
<1>1. ExperimentsInit => Basics /\ SomebodyIsThere
    BY RecordsInit DEF ExperimentsInit, Init, SomebodyIsThere, Records
<1>2. Basics /\ SomebodyIsThere /\ [ExperimentsNext]_allVars => Basics' /\ SomebodyIsThere'
    <2> SUFFICES ASSUME Basics, SomebodyIsThere, [ExperimentsNext]_allVars
                 PROVE  Basics' /\ SomebodyIsThere'
        OBVIOUS
    <2>1. CASE ExperimentsNext
        <3>1. PICK s \in Session : Steps(s)
            BY <2>1, NextSteps
        <3> QED
            BY <3>1, BasicsStay, SomebodyStays
    <2>2. CASE UNCHANGED allVars
        <3>1. SomebodyIsThere'
            BY <2>2 DEF SomebodyIsThere, AtWork, allVars, vars, runVars
        <3> QED
            BY <3>1, <2>2, BasicsUnchanged
    <2> QED
        BY <2>1, <2>2
<1>3. SomebodyIsThere => ChaosCleansUp
    BY DEF SomebodyIsThere, ChaosCleansUp, AtWork
<1> QED
    BY <1>1, <1>2, <1>3, PTL DEF ExperimentsSpec

-----------------------------------------------------------------------------
(* An experiment that nobody has met in its directory: what its log keeps  *)
(* of its commits.                                                         *)

IsRedoOf(r, k) == r.type \in {"put", "del"} /\ r.key = k

\* The last record of key k is w's put, and its COMMIT is in the log.
Keeps(log, k, w) ==
    \E i \in 1 .. Len(log) :
        /\ log[i].type = "put" /\ log[i].key = k /\ log[i].writer = w
        /\ \A j \in 1 .. Len(log) : IsRedoOf(log[j], k) => j <= i
        /\ \E j \in 1 .. Len(log) :
              log[j].type = "commit" /\ log[j].txn_id = log[i].txn_id

\* The last record of all is w's put of key k.
EndsWith(log, k, w, id) ==
    /\ Len(log) # 0
    /\ log[Len(log)].type = "put" /\ log[Len(log)].key = k
    /\ log[Len(log)].writer = w /\ log[Len(log)].txn_id = id

OnlyLastTorn(log) == \A i \in 1 .. Len(log) : IsTorn(log[i]) => i = Len(log)

\* new is log with r at its end.
Longer(new, log, r) ==
    /\ new \in Seq(Rec) /\ log \in Seq(Rec)
    /\ Len(log) \in Nat /\ Len(new) = Len(log) + 1
    /\ new[Len(log) + 1] = r
    /\ \A i \in 1 .. Len(log) : new[i] = log[i]

LEMMA LongerFacts ==
    ASSUME NEW new, NEW log, NEW r, Longer(new, log, r)
    PROVE  /\ 1 .. Len(log) \subseteq 1 .. Len(new)
           /\ Len(log) + 1 \in 1 .. Len(new)
           /\ \A i \in 1 .. Len(new) : i \in 1 .. Len(log) \/ i = Len(log) + 1
BY DEF Longer

LEMMA KeptWhenLonger ==
    ASSUME NEW new, NEW log, NEW r, Longer(new, log, r), NEW k, NEW w,
           Keeps(log, k, w), ~ IsRedoOf(r, k)
    PROVE  Keeps(new, k, w)
<1>0. /\ 1 .. Len(log) \subseteq 1 .. Len(new)
      /\ \A i \in 1 .. Len(new) : i \in 1 .. Len(log) \/ i = Len(log) + 1
    BY LongerFacts
<1>1. PICK i \in 1 .. Len(log) :
        /\ log[i].type = "put" /\ log[i].key = k /\ log[i].writer = w
        /\ \A j \in 1 .. Len(log) : IsRedoOf(log[j], k) => j <= i
        /\ \E j \in 1 .. Len(log) :
              log[j].type = "commit" /\ log[j].txn_id = log[i].txn_id
    BY DEF Keeps
<1>2. i \in 1 .. Len(new) /\ new[i] = log[i]
    BY <1>0 DEF Longer
<1>3. ASSUME NEW j \in 1 .. Len(new), IsRedoOf(new[j], k)
      PROVE  j <= i
    <2>1. new[Len(log) + 1] = r
        BY DEF Longer
    <2>2. j \in 1 .. Len(log)
        BY <1>0, <1>3, <2>1
    <2>3. new[j] = log[j]
        BY <2>2 DEF Longer
    <2> QED
        BY <1>1, <1>3, <2>2, <2>3
<1>4. PICK j \in 1 .. Len(log) : log[j].type = "commit" /\ log[j].txn_id = log[i].txn_id
    BY <1>1
<1>5. j \in 1 .. Len(new) /\ new[j] = log[j]
    BY <1>0 DEF Longer
<1> QED
    BY <1>1, <1>2, <1>3, <1>4, <1>5 DEF Keeps

LEMMA KeptByCommit ==
    ASSUME NEW new, NEW log, NEW r, Longer(new, log, r), NEW k, NEW w, NEW id,
           EndsWith(log, k, w, id), r.type = "commit", r.txn_id = id
    PROVE  Keeps(new, k, w)
<1>0. /\ 1 .. Len(log) \subseteq 1 .. Len(new) /\ Len(log) + 1 \in 1 .. Len(new)
      /\ \A i \in 1 .. Len(new) : i \in 1 .. Len(log) \/ i = Len(log) + 1
    BY LongerFacts
<1>1. PICK n : n = Len(log)
    OBVIOUS
<1>2. /\ n \in 1 .. Len(log) /\ n \in Nat /\ new[n] = log[n] /\ new[n + 1] = r
      /\ n \in 1 .. Len(new) /\ n + 1 \in 1 .. Len(new)
    BY <1>0, <1>1 DEF Longer, EndsWith
<1>3. log[n].type = "put" /\ log[n].key = k /\ log[n].writer = w /\ log[n].txn_id = id
    BY <1>1 DEF EndsWith
<1>4. ASSUME NEW j \in 1 .. Len(new), IsRedoOf(new[j], k)
      PROVE  j <= n
    <2>1. j # n + 1
        BY <1>2, <1>4 DEF IsRedoOf
    <2>2. j \in 1 .. n
        BY <1>0, <1>1, <2>1
    <2> QED
        BY <2>2, <1>2
<1> QED
    BY <1>2, <1>3, <1>4 DEF Keeps

LEMMA SoundWhenLonger ==
    ASSUME NEW new, NEW log, NEW r, Longer(new, log, r), IsUntorn(log)
    PROVE  /\ ~ IsTorn(r) => IsUntorn(new)
           /\ OnlyLastTorn(new)
<1>0. \A i \in 1 .. Len(new) : i \in 1 .. Len(log) \/ i = Len(log) + 1
    BY LongerFacts
<1>1. \A i \in 1 .. Len(log) : ~ IsTorn(new[i])
    BY DEF Longer, IsUntorn
<1>2. new[Len(log) + 1] = r /\ Len(new) = Len(log) + 1
    BY DEF Longer
<1> QED
    BY <1>0, <1>1, <1>2 DEF IsUntorn, OnlyLastTorn

\* What the truncation of an opening leaves.
LEMMA TruncatedFacts ==
    ASSUME NEW log \in Seq(Rec), NEW new,
           new = CutAt(log, Total(log)[WholePrefix(log)], None)
    PROVE  /\ IsUntorn(new)
           /\ OnlyLastTorn(log) => \A k, w : Keeps(log, k, w) => Keeps(new, k, w)
<1>0. Len(log) \in Nat
    BY LenProperties
<1>1. PICK n : n = WholePrefix(log)
    OBVIOUS
<1>2. /\ n \in 0 .. Len(log)
      /\ \A i \in 1 .. n : ~ IsTorn(log[i])
      /\ n < Len(log) => IsTorn(log[n + 1])
    BY <1>1, WholePrefixFacts DEF Rec
<1>3. new = SubSeq(log, 1, n)
    BY <1>1, <1>2, CutBehind DEF Rec
<1>4. Len(new) = n /\ \A i \in 1 .. n : new[i] = log[i]
    BY <1>0, <1>2, <1>3
<1>5. IsUntorn(new)
    BY <1>2, <1>4 DEF IsUntorn
<1>6. ASSUME OnlyLastTorn(log), NEW i \in 1 .. Len(log), ~ IsTorn(log[i])
      PROVE  i \in 1 .. n
    <2>1. n < Len(log) => n + 1 = Len(log)
        BY <1>0, <1>2, <1>6 DEF OnlyLastTorn
    <2>2. i = n + 1 => n >= Len(log)
        BY <1>0, <1>2, <1>6
    <2> QED
        BY <2>1, <2>2, <1>0, <1>2
<1>7. ASSUME OnlyLastTorn(log), NEW k, NEW w, Keeps(log, k, w)
      PROVE  Keeps(new, k, w)
    <2>1. PICK i \in 1 .. Len(log) :
            /\ log[i].type = "put" /\ log[i].key = k /\ log[i].writer = w
            /\ \A j \in 1 .. Len(log) : IsRedoOf(log[j], k) => j <= i
            /\ \E j \in 1 .. Len(log) :
                  log[j].type = "commit" /\ log[j].txn_id = log[i].txn_id
        BY <1>7 DEF Keeps
    <2>2. PICK j \in 1 .. Len(log) : log[j].type = "commit" /\ log[j].txn_id = log[i].txn_id
        BY <2>1
    <2>3. i \in 1 .. n /\ j \in 1 .. n
        BY <2>1, <2>2, <1>6, <1>7 DEF IsTorn
    <2>4. \A m \in 1 .. n : m \in 1 .. Len(log) /\ new[m] = log[m]
        BY <1>0, <1>2, <1>4
    <2>5. \A m \in 1 .. n : IsRedoOf(new[m], k) => m <= i
        BY <2>1, <2>4
    <2> QED
        BY <2>1, <2>2, <2>3, <2>4, <2>5, <1>4 DEF Keeps
<1> QED
    BY <1>5, <1>7

\* The last version of a list is w's value, and current.
ServedBy(list, w) ==
    /\ list # << >> /\ list[Len(list)].end_ts = 0
    /\ ~ list[Len(list)].is_tombstone /\ list[Len(list)].writer = w

LEMMA KeptIsServed ==
    ASSUME NEW log \in Seq(Rec), NEW found, FoundIn(found, log), NEW k, NEW w,
           Keeps(log, k, w)
    PROVE  ServedBy(Replayed(log, found, k), w)
<1>1. PICK i \in 1 .. Len(log) :
        /\ log[i].type = "put" /\ log[i].key = k /\ log[i].writer = w
        /\ \A j \in 1 .. Len(log) : IsRedoOf(log[j], k) => j <= i
        /\ \E j \in 1 .. Len(log) :
              log[j].type = "commit" /\ log[j].txn_id = log[i].txn_id
    BY DEF Keeps
<1>2. IsReplayed(log[i], found, k)
    BY <1>1 DEF FoundIn, IsReplayed
<1>3. PICK list : list = Replayed(log, found, k)
    OBVIOUS
<1>4. Rebuilt(list, log, Len(log), found, k, Name)
    BY <1>3, ReplayedFacts DEF Rec
<1>5. PICK m \in 1 .. Len(log) :
        /\ IsReplayed(log[m], found, k)
        /\ \A j \in 1 .. Len(log) : j > m => ~ IsReplayed(log[j], found, k)
        /\ list # << >> /\ list[Len(list)] = VersionOf(log[m])
    BY <1>2, <1>4 DEF Rebuilt
<1>6. m = i
    <2>1. IsRedoOf(log[m], k)
        BY <1>5 DEF IsReplayed, IsRedoOf
    <2>2. m <= i /\ ~ (i > m)
        BY <2>1, <1>1, <1>2, <1>5
    <2> QED
        BY <2>2
<1>7. /\ list[Len(list)].end_ts = 0 /\ ~ list[Len(list)].is_tombstone
      /\ list[Len(list)].writer = w
    <2>1. PICK v : v = VersionOf(log[i])
        OBVIOUS
    <2>2. v.end_ts = 0 /\ v.is_tombstone = FALSE /\ v.writer = w
        BY <2>1, <1>1 DEF VersionOf, NewVersion
    <2>3. list[Len(list)] = v
        BY <2>1, <1>5, <1>6
    <2> QED
        BY <2>2, <2>3
<1> QED
    BY <1>3, <1>5, <1>7 DEF ServedBy

LEMMA ServedIsFound ==
    ASSUME Records, Free, NEW s \in Session, NEW k \in Key, NEW w,
           ServedBy(engine[s].catalog[k], w)
    PROVE  Found(s, k) = w
<1>1. PICK list, ts : list = engine[s].catalog[k] /\ ts = Snapshot(s)
    OBVIOUS
<1>2. engine[s] \in Engines
    BY DEF Records, Basics, EngineTypes
<1>3. list \in Seq(Version) /\ ts \in Nat /\ ts = engine[s].next_ts - 1
    BY <1>1, <1>2 DEF Engines, Snapshot
<1>4. Len(list) \in 1 .. Len(list)
    BY <1>1, <1>3, EmptySeq, LenProperties DEF ServedBy
<1>5. list[Len(list)] \in Version
    BY <1>3, <1>4, ElementOfSeq
<1>6. list[Len(list)].begin_ts <= ts
    <2>1. list[Len(list)].begin_ts < engine[s].next_ts
        BY <1>1, <1>4 DEF Records, AllTrue, CatalogsOK, CatalogOK, ListOK
    <2>2. list[Len(list)].begin_ts \in Nat /\ engine[s].next_ts \in Nat
        BY <1>2, <1>5 DEF Version, VersionBy, Engines
    <2> QED
        BY <2>1, <2>2, <1>3
<1>7. ReadResult(list, Len(list), ts, None) = w
    <2>1. /\ list # << >> /\ list[Len(list)].end_ts = 0
          /\ ~ list[Len(list)].is_tombstone /\ list[Len(list)].writer = w
        BY <1>1 DEF ServedBy
    <2>2. ReadResult(list, Len(list), ts, None)
             = IF list[Len(list)].is_tombstone THEN None ELSE list[Len(list)].writer
        BY <1>3, <1>6, <2>1, ReadIsLast DEF Version
    <2> QED
        BY <2>1, <2>2
<1> QED
    BY <1>1, <1>7 DEF Found, Read

-----------------------------------------------------------------------------
(* The invariant of an experiment that nobody has met.                     *)

Alone(s) == UsesEngine(s) /\ ~ met[s]

\* The worker's commit, if it had one, is behind it.
Left(s) ==
    \/ phase[s] = "worker" /\ pending[s] = {}
    \/ phase[s] = "verify" /\ ExpectSurvive(fault[s])

\* The next engine has to serve the commit named w as the value of k: the
\* baseline's, unless the worker has written the key, or the worker's.
Owed(s, k, w) ==
    \/ stage[s] = "sync" /\ k \in Written(txn_of[s]) /\ w = Own(s, phase[s])
    \/ /\ w = Own(s, "baseline") /\ k \in baseline[s]
       /\ ~ (phase[s] = "baseline" /\ k \in pending[s])
       /\ ~ (Wrote(s) /\ k = WorkerKey(fault[s]))
    \/ w = Own(s, "worker") /\ k = WorkerKey(fault[s]) /\ Left(s)

InPlace(s) ==
    /\ live # 0 /\ Free
    /\ \A r \in Session \ {s} : ~ AtWork(r)
    /\ stage[s] # "none" => engine[s].file = live

ScannedIn(s, log) ==
    /\ stage[s] = "scanned" => engine[s].valid_lsn = Total(log)[WholePrefix(log)]
    /\ stage[s] = "pass1" => FoundIn(engine[s].committed, log)

SoundIn(s, log) ==
    /\ phase[s] = "worker" \/ stage[s] \notin {"none", "scanned"} => IsUntorn(log)
    /\ phase[s] = "verify" => OnlyLastTorn(log)

EndsIn(s, log) ==
    stage[s] = "redo" /\ engine[s].todo = {} =>
        \A k \in Written(txn_of[s]) :
            EndsWith(log, k, Own(s, phase[s]), txn_of[s].txn_id)

KeptIn(s, log) ==
    \A k \in Key, w \in Name : Owed(s, k, w) => Keeps(log, k, w)

ServedOK(s) ==
    phase[s] = "verify" /\ stage[s] = "idle" =>
        \A k \in Key, w \in Name : Owed(s, k, w) => ServedBy(engine[s].catalog[k], w)

SoloIn(s, log) ==
    /\ InPlace(s) /\ ScannedIn(s, log) /\ SoundIn(s, log) /\ EndsIn(s, log)
    /\ KeptIn(s, log) /\ ServedOK(s)

Solo == \A s \in Session : Alone(s) => \A log \in {logs[live]} : SoloIn(s, log)

-----------------------------------------------------------------------------
\* Its own steps

LEMMA SoloFacts ==
    ASSUME Records, NEW s \in Session, Alone(s), Solo
    PROVE  /\ live \in 1 .. Len(logs) /\ logs[live] \in Seq(Rec)
           /\ SoloIn(s, logs[live]) /\ Free
<1>1. SoloIn(s, logs[live])
    BY DEF Solo
<1>2. live \in 1 .. Len(logs) /\ Free
    BY <1>1, LenProperties DEF SoloIn, InPlace, Records, Basics, EngineTypes
<1>3. logs[live] \in Seq(Rec)
    BY <1>2, ElementOfSeq DEF Records, Basics, EngineTypes
<1> QED
    BY <1>1, <1>2, <1>3

\* An experiment that is alone finds whole records where it looks.
LEMMA SoloReads ==
    ASSUME Records, NEW s \in Session, Alone(s), Solo, stage[s] \in {"truncated", "pass1"}
    PROVE  ReadingsOf(s) = {logs[live]} /\ Log(s) = logs[live] /\ OnlyZeros(Rest(Log(s)))
<1>1. PICK log : log = logs[live]
    OBVIOUS
<1>2. log \in Seq(Rec) /\ SoloIn(s, log)
    BY <1>1, SoloFacts
<1>3. Log(s) = log /\ IsUntorn(log)
    BY <1>1, <1>2 DEF SoloIn, InPlace, SoundIn, Log
<1>4. Readings(log, Garbage, MaxMisread) = {log} /\ OnlyZeros(Rest(log))
    BY <1>2, <1>3, UntornIsReadAsItIs DEF Rec
<1> QED
    BY <1>1, <1>3, <1>4 DEF ReadingsOf

LEMMA FreeIsReadAsItIs ==
    ASSUME Records, Solo, NEW s \in Session, Free
    PROVE  ReadAsItIs(s)
<1> SUFFICES ASSUME stage[s] \in {"truncated", "pass1"}
             PROVE  ReadingsOf(s) = {Log(s)}
    BY DEF ReadAsItIs
<1>1. Alone(s)
    BY DEF Records, Basics, SessionsOK, EngineOK, Alone, Free
<1> QED
    BY <1>1, SoloReads

LEMMA InPlaceStays ==
    ASSUME NEW s \in Session, Typed(s), InPlace(s), live' = live, met' = met,
           stage'[s] # "none" => engine'[s].file = live
    PROVE  InPlace(s)'
<1>1. \A r \in Session \ {s} : phase'[r] = phase[r]
    BY DEF Typed, Others
<1> QED
    BY <1>1 DEF InPlace, Free, AtWork

LEMMA OwedBefore ==
    ASSUME NEW s \in Session, NEW k, NEW w, Owed(s, k, w)',
           stage[s] \notin {"redo", "sync"}, stage'[s] # "sync",
           UNCHANGED <<phase, pending, fault, baseline>>
    PROVE  Owed(s, k, w)
<1>1. Wrote(s) => Wrote(s)'
    BY DEF Wrote
<1>2. Left(s)' => Left(s)
    BY DEF Left
<1> QED
    BY <1>1, <1>2 DEF Owed

LEMMA SoloStart ==
    ASSUME Records, NEW s \in Session, AfterStart(s), ~ met'[s],
           NEW new, new = logs'[live']
    PROVE  SoloIn(s, new)'
<1>1. /\ stage'[s] = "scanned" /\ live' \in 1 .. Len(logs')
      /\ engine'[s].file = live' /\ engine'[s].valid_lsn = Total(new)[WholePrefix(new)]
      /\ phase'[s] = "baseline" /\ pending' = pending /\ baseline' = baseline
    BY DEF AfterStart, AfterOpen, Typed, Others
<1>2. pending[s] = baseline[s]
    BY DEF AfterStart, Records, Basics, SessionsOK, PhaseOK
<1>3. InPlace(s)'
    <2>1. \A r \in Session \ {s} : ~ AtWork(r) /\ phase'[r] = phase[r]
        BY DEF AfterStart, AfterOpen, Typed, Others
    <2>2. \A r \in Session \ {s} : ~ AtWork(r)'
        BY <2>1 DEF AtWork
    <2>3. live' # 0
        BY <1>1
    <2>4. Free'
        BY DEF AfterStart, Free
    <2> QED
        BY <2>2, <2>3, <2>4, <1>1 DEF InPlace
<1>4. ScannedIn(s, new)' /\ SoundIn(s, new)' /\ EndsIn(s, new)' /\ ServedOK(s)'
    BY <1>1 DEF ScannedIn, SoundIn, EndsIn, ServedOK
<1>5. KeptIn(s, new)'
    <2>1. \A k, w : ~ Owed(s, k, w)'
        BY <1>1, <1>2 DEF Owed, Left
    <2> QED
        BY <2>1 DEF KeptIn
<1> QED
    BY <1>3, <1>4, <1>5 DEF SoloIn

LEMMA SoloOpen ==
    ASSUME Records, Solo, NEW s \in Session, Alone(s), AfterOpen(s), UNCHANGED runVars,
           NEW new, new = logs'[live']
    PROVE  SoloIn(s, new)'
<1>1. SoloIn(s, logs[live])
    BY SoloFacts
<1>2. live # 0 /\ live' = live /\ logs' = logs
    BY <1>1 DEF SoloIn, InPlace, AfterOpen
<1>3. SoloIn(s, new)
    BY <1>1, <1>2
<1>4. /\ stage[s] = "none" /\ stage'[s] = "scanned" /\ engine'[s].file = live
      /\ engine'[s].valid_lsn = Total(new)[WholePrefix(new)]
      /\ UNCHANGED <<phase, pending, fault, baseline>>
    BY <1>2 DEF AfterOpen, runVars
<1>5. InPlace(s)'
    BY <1>2, <1>3, <1>4, InPlaceStays DEF SoloIn, AfterOpen, runVars
<1>6. ScannedIn(s, new)' /\ SoundIn(s, new)' /\ EndsIn(s, new)' /\ ServedOK(s)'
    BY <1>3, <1>4 DEF SoloIn, ScannedIn, SoundIn, EndsIn, ServedOK
<1>7. KeptIn(s, new)'
    <2>1. ASSUME NEW k \in Key, NEW w \in Name, Owed(s, k, w)'
          PROVE  Keeps(new, k, w)
        <3>1. Owed(s, k, w)
            BY <1>4, <2>1, OwedBefore
        <3> QED
            BY <3>1, <1>3 DEF SoloIn, KeptIn
    <2> QED
        BY <2>1 DEF KeptIn
<1> QED
    BY <1>5, <1>6, <1>7 DEF SoloIn

LEMMA SoloTruncate ==
    ASSUME Records, Solo, NEW s \in Session, Alone(s), AfterTruncate(s),
           NEW new, new = logs'[live']
    PROVE  SoloIn(s, new)'
<1>1. /\ SoloIn(s, logs[live]) /\ logs[live] \in Seq(Rec) /\ PhaseOK(s)
      /\ live \in 1 .. Len(logs)
    BY SoloFacts DEF Records, Basics, SessionsOK
<1>2. PICK log : log = logs[live]
    OBVIOUS
<1>3. /\ stage[s] = "scanned" /\ stage'[s] = "truncated" /\ live' = live
      /\ UNCHANGED <<phase, pending, fault, baseline, met>>
      /\ engine' = engine
    BY DEF AfterTruncate, runVars
<1>4. engine[s].file = live /\ engine[s].valid_lsn = Total(log)[WholePrefix(log)]
    BY <1>1, <1>2, <1>3 DEF SoloIn, InPlace, ScannedIn
<1>5. new = CutAt(log, Total(log)[WholePrefix(log)], None)
    BY <1>2, <1>3, <1>4 DEF AfterTruncate
<1>6. /\ IsUntorn(new) /\ log \in Seq(Rec)
      /\ OnlyLastTorn(log) => \A k, w : Keeps(log, k, w) => Keeps(new, k, w)
    BY <1>1, <1>2, <1>5, TruncatedFacts
<1>8. InPlace(s)'
    BY <1>1, <1>3, <1>4, InPlaceStays DEF SoloIn, AfterTruncate
<1>9. ScannedIn(s, new)'
    BY <1>3 DEF ScannedIn
<1>10. OnlyLastTorn(new)
    BY <1>6 DEF IsUntorn, OnlyLastTorn
<1>11. SoundIn(s, new)' /\ EndsIn(s, new)' /\ ServedOK(s)'
    BY <1>3, <1>6, <1>10 DEF SoundIn, EndsIn, ServedOK
<1>12. KeptIn(s, new)'
    <2>1. ASSUME NEW k \in Key, NEW w \in Name, Owed(s, k, w)'
          PROVE  Keeps(new, k, w)
        <3>1. Owed(s, k, w)
            BY <1>3, <2>1, OwedBefore
        <3>2. Keeps(log, k, w)
            BY <3>1, <1>1, <1>2 DEF SoloIn, KeptIn
        <3>3. phase[s] \in {"worker", "verify"}
            <4>1. UsesEngine(s)
                BY DEF Alone
            <4>2. phase[s] # "baseline"
                BY <3>1, <1>1, <1>3 DEF Owed, Left, PhaseOK
            <4> QED
                BY <4>1, <4>2 DEF UsesEngine
        <3>4. OnlyLastTorn(log)
            BY <3>3, <1>1, <1>2 DEF SoloIn, SoundIn, IsUntorn, OnlyLastTorn
        <3> QED
            BY <3>2, <3>4, <1>6
    <2> QED
        BY <2>1 DEF KeptIn
<1> QED
    BY <1>8, <1>9, <1>11, <1>12 DEF SoloIn

LEMMA SoloPass1 ==
    ASSUME Records, Solo, NEW s \in Session, Alone(s), AfterPass1(s),
           NEW new, new = logs'[live']
    PROVE  SoloIn(s, new)'
<1>1. /\ stage[s] = "truncated" /\ stage'[s] = "pass1" /\ live' = live /\ logs' = logs
      /\ UNCHANGED <<phase, pending, fault, baseline, met>>
      /\ engine'[s].file = engine[s].file
    BY DEF AfterPass1, runVars
<1>2. SoloIn(s, new) /\ new \in Seq(Rec)
    BY <1>1, SoloFacts
<1>3. engine[s].file = live /\ IsUntorn(new)
    BY <1>1, <1>2 DEF SoloIn, InPlace, SoundIn
<1>4. InPlace(s)'
    BY <1>1, <1>2, <1>3, InPlaceStays DEF SoloIn, AfterPass1
<1>5. ScannedIn(s, new)'
    <2>1. engine'[s].committed = CommittedTxns(logs[live])
        BY <1>1, SoloReads DEF AfterPass1
    <2>2. engine'[s].committed = CommittedTxns(new)
        BY <2>1, <1>1
    <2>3. FoundIn(CommittedTxns(new), new)
        BY <1>2, CommittedFacts DEF Rec
    <2> QED
        BY <2>2, <2>3, <1>1 DEF ScannedIn
<1>6. SoundIn(s, new)' /\ EndsIn(s, new)' /\ ServedOK(s)'
    BY <1>1, <1>2, <1>3 DEF SoloIn, SoundIn, EndsIn, ServedOK
<1>7. KeptIn(s, new)'
    <2>1. ASSUME NEW k \in Key, NEW w \in Name, Owed(s, k, w)'
          PROVE  Keeps(new, k, w)
        <3>1. Owed(s, k, w)
            BY <1>1, <2>1, OwedBefore
        <3> QED
            BY <3>1, <1>2 DEF SoloIn, KeptIn
    <2> QED
        BY <2>1 DEF KeptIn
<1> QED
    BY <1>4, <1>5, <1>6, <1>7 DEF SoloIn

LEMMA SoloRecover ==
    ASSUME Records, Solo, NEW s \in Session, Alone(s), AfterRecover(s),
           NEW new, new = logs'[live']
    PROVE  SoloIn(s, new)'
<1>1. /\ stage[s] = "pass1" /\ stage'[s] = "idle" /\ live' = live /\ logs' = logs
      /\ UNCHANGED <<phase, pending, fault, baseline, met>>
      /\ engine'[s].file = engine[s].file
    BY DEF AfterRecover, runVars
<1>2. SoloIn(s, new) /\ new \in Seq(Rec)
    BY <1>1, SoloFacts
<1>3. PICK found : found = engine[s].committed
    OBVIOUS
<1>4. engine[s].file = live /\ FoundIn(found, new) /\ IsUntorn(new)
    BY <1>1, <1>2, <1>3 DEF SoloIn, InPlace, ScannedIn, SoundIn
<1>5. InPlace(s)'
    BY <1>1, <1>2, <1>4, InPlaceStays DEF SoloIn, AfterRecover
<1>6. ScannedIn(s, new)' /\ EndsIn(s, new)'
    BY <1>1 DEF ScannedIn, EndsIn
<1>7. SoundIn(s, new)'
    BY <1>1, <1>2, <1>4 DEF SoloIn, SoundIn
<1>8. ASSUME NEW k \in Key, NEW w \in Name, Owed(s, k, w)'
      PROVE  Keeps(new, k, w)
    <2>1. Owed(s, k, w)
        BY <1>1, <1>8, OwedBefore
    <2> QED
        BY <2>1, <1>2 DEF SoloIn, KeptIn
<1>9. KeptIn(s, new)'
    BY <1>8 DEF KeptIn
<1>10. ServedOK(s)'
    <2>1. ASSUME NEW k \in Key, NEW w \in Name, Owed(s, k, w)'
          PROVE  ServedBy(engine'[s].catalog[k], w)
        <3>1. ServedBy(Replayed(new, found, k), w)
            BY <2>1, <1>2, <1>4, <1>8, KeptIsServed
        <3>2. engine'[s].catalog[k] = Replayed(logs[live], found, k)
            BY <1>1, <1>3, SoloReads DEF AfterRecover
        <3>3. new = logs[live]
            BY <1>1
        <3> QED
            BY <3>1, <3>2, <3>3
    <2> QED
        BY <2>1 DEF ServedOK
<1> QED
    BY <1>5, <1>6, <1>7, <1>9, <1>10 DEF SoloIn

LEMMA SoloCommit ==
    ASSUME Records, Solo, NEW s \in Session, Alone(s), NEW j \in Key, AfterCommit(s, j),
           NEW new, new = logs'[live']
    PROVE  SoloIn(s, new)'
<1>1. /\ stage[s] = "idle" /\ stage'[s] = "redo" /\ live' = live /\ logs' = logs
      /\ UNCHANGED <<phase, pending, fault, baseline>>
      /\ engine'[s].file = engine[s].file /\ engine'[s].todo = {j}
    BY DEF AfterCommit, runVars
<1>2. SoloIn(s, new)
    BY <1>1, SoloFacts
<1>3. InPlace(s)'
    BY <1>1, <1>2, InPlaceStays DEF SoloIn, InPlace, AfterCommit, runVars
<1>4. ScannedIn(s, new)' /\ EndsIn(s, new)' /\ ServedOK(s)'
    BY <1>1 DEF ScannedIn, EndsIn, ServedOK
<1>5. SoundIn(s, new)'
    BY <1>1, <1>2 DEF SoloIn, SoundIn
<1>6. KeptIn(s, new)'
    <2>1. ASSUME NEW k \in Key, NEW w \in Name, Owed(s, k, w)'
          PROVE  Keeps(new, k, w)
        <3>1. Owed(s, k, w)
            BY <1>1, <2>1, OwedBefore
        <3> QED
            BY <3>1, <1>2 DEF SoloIn, KeptIn
    <2> QED
        BY <2>1 DEF KeptIn
<1> QED
    BY <1>3, <1>4, <1>5, <1>6 DEF SoloIn

LEMMA AppendedIsLonger ==
    ASSUME Records, NEW f \in 1 .. Len(logs), NEW r, AppendedTo(logs', f, r)
    PROVE  Longer(logs'[f], logs[f], r)
<1>1. logs[f] \in Seq(Rec)
    BY ElementOfSeq DEF Records, Basics, EngineTypes
<1>2. logs'[f] \in Seq(Rec)
    BY ElementOfSeq DEF AppendedTo
<1> QED
    BY <1>1, <1>2 DEF AppendedTo, Longer

LEMMA SoloRedo ==
    ASSUME Records, Solo, NEW s \in Session, Alone(s), NEW j \in Key, AfterRedo(s, j),
           NEW new, new = logs'[live']
    PROVE  SoloIn(s, new)'
<1>1. /\ stage[s] = "redo" /\ stage' = stage /\ live' = live /\ txn_of' = txn_of
      /\ UNCHANGED <<phase, pending, fault, baseline>>
      /\ Written(txn_of[s]) = {j} /\ j \in engine[s].todo
      /\ engine'[s] = [engine[s] EXCEPT !.todo = {}]
    BY DEF AfterRedo, runVars
<1>2. PICK log : log = logs[live]
    OBVIOUS
<1>3. SoloIn(s, log) /\ live \in 1 .. Len(logs)
    BY <1>2, SoloFacts
<1>4. engine[s].file = live /\ engine'[s].file = live
    <2>1. engine[s] \in Engines
        BY DEF Records, Basics, EngineTypes
    <2> QED
        BY <2>1, <1>1, <1>3 DEF SoloIn, InPlace, Engines
<1>5. PICK n, r : r = RecordOf(s, "put", j, n) /\ AppendedTo(logs', engine[s].file, r)
    BY DEF AfterRedo
<1>6. PhaseOK(s) /\ EngineOK(s)
    BY DEF Records, Basics, SessionsOK
<1>7. /\ r.type = "put" /\ r.key = j /\ r.writer = Own(s, phase[s])
      /\ r.txn_id = txn_of[s].txn_id
    BY <1>1, <1>5, <1>6 DEF RecordOf, Record, EngineOK, Committing
<1>8. Longer(new, log, r)
    <2>1. AppendedTo(logs', live, r)
        BY <1>4, <1>5
    <2> QED
        BY <2>1, <1>1, <1>2, <1>3, AppendedIsLonger
<1>9. InPlace(s)'
    BY <1>1, <1>3, <1>4, InPlaceStays DEF SoloIn, AfterRedo, runVars
<1>10. ScannedIn(s, new)' /\ ServedOK(s)'
    BY <1>1 DEF ScannedIn, ServedOK
<1>11. SoundIn(s, new)'
    <2>1. IsUntorn(log) /\ ~ IsTorn(r)
        BY <1>1, <1>3, <1>7 DEF SoloIn, SoundIn, IsTorn
    <2> QED
        BY <2>1, <1>8, SoundWhenLonger DEF SoundIn
<1>12. EndsIn(s, new)'
    <2>1. Len(new) # 0 /\ new[Len(new)] = r
        BY <1>8 DEF Longer
    <2>2. EndsWith(new, j, Own(s, phase[s]), txn_of[s].txn_id)
        BY <2>1, <1>7 DEF EndsWith
    <2>3. \A k \in Written(txn_of'[s]) : k = j
        BY <1>1
    <2> QED
        BY <2>2, <2>3, <1>1 DEF EndsIn
<1>13. KeptIn(s, new)'
    <2>1. ASSUME NEW k \in Key, NEW w \in Name, Owed(s, k, w)'
          PROVE  Keeps(new, k, w)
        <3>1. engine'[s].todo = {}
            <4>1. engine[s] \in Engines
                BY DEF Records, Basics, EngineTypes
            <4> QED
                BY <4>1, <1>1 DEF Engines
        <3>2. j \in pending[s]
            BY <1>1, <1>6 DEF EngineOK, Committing
        <3>3. phase[s] \in {"baseline", "worker"}
            BY <3>2, <1>6 DEF PhaseOK, Alone, UsesEngine
        <3>4. k # j /\ Owed(s, k, w)
            <4>1. CASE phase[s] = "baseline"
                <5>1. ~ Wrote(s) /\ ~ Left(s)'
                    BY <4>1, <1>1 DEF Wrote, Left
                <5>2. /\ w = Own(s, "baseline") /\ k \in baseline[s]
                      /\ k \notin pending[s]
                    BY <5>1, <4>1, <2>1, <1>1 DEF Owed
                <5> QED
                    BY <5>1, <5>2, <3>2 DEF Owed
            <4>2. CASE phase[s] = "worker"
                <5>1. Wrote(s)' /\ j = WorkerKey(fault[s]) /\ ~ Left(s)'
                    BY <4>2, <3>1, <3>2, <1>1, <1>6 DEF Wrote, PhaseOK, Left
                <5>2. /\ w = Own(s, "baseline") /\ k \in baseline[s]
                      /\ k # WorkerKey(fault[s])
                    BY <5>1, <4>2, <2>1, <1>1 DEF Owed
                <5> QED
                    BY <5>1, <5>2, <4>2 DEF Owed
            <4> QED
                BY <4>1, <4>2, <3>3
        <3>5. Keeps(log, k, w)
            BY <3>4, <1>3 DEF SoloIn, KeptIn
        <3>6. ~ IsRedoOf(r, k)
            BY <3>4, <1>7 DEF IsRedoOf
        <3> QED
            BY <3>5, <3>6, <1>8, KeptWhenLonger
    <2> QED
        BY <2>1 DEF KeptIn
<1> QED
    BY <1>9, <1>10, <1>11, <1>12, <1>13 DEF SoloIn

LEMMA SoloAppendCommit ==
    ASSUME Records, Solo, NEW s \in Session, Alone(s), AfterAppendCommit(s),
           NEW new, new = logs'[live']
    PROVE  SoloIn(s, new)'
<1>1. /\ stage[s] = "redo" /\ stage'[s] = "sync" /\ live' = live
      /\ UNCHANGED <<phase, pending, fault, baseline, engine, txn_of>>
      /\ engine[s].todo = {}
    BY DEF AfterAppendCommit, runVars
<1>2. PICK log : log = logs[live]
    OBVIOUS
<1>3. SoloIn(s, log) /\ live \in 1 .. Len(logs)
    BY <1>2, SoloFacts
<1>4. engine[s].file = live
    BY <1>1, <1>3 DEF SoloIn, InPlace
<1>5. PICK r : r = RecordOf(s, "commit", None, CommitSize)
    OBVIOUS
<1>6. r.type = "commit" /\ r.txn_id = txn_of[s].txn_id
    BY <1>5 DEF RecordOf, Record
<1>7. Longer(new, log, r)
    <2>1. AppendedTo(logs', live, r)
        BY <1>4, <1>5 DEF AfterAppendCommit
    <2> QED
        BY <2>1, <1>1, <1>2, <1>3, AppendedIsLonger
<1>8. InPlace(s)'
    BY <1>1, <1>3, <1>4, InPlaceStays DEF SoloIn, AfterAppendCommit, runVars
<1>9. ScannedIn(s, new)' /\ ServedOK(s)' /\ EndsIn(s, new)'
    BY <1>1 DEF ScannedIn, ServedOK, EndsIn
<1>10. SoundIn(s, new)'
    <2>1. IsUntorn(log) /\ ~ IsTorn(r)
        BY <1>1, <1>3, <1>6 DEF SoloIn, SoundIn, IsTorn
    <2> QED
        BY <2>1, <1>7, SoundWhenLonger DEF SoundIn
<1>11. KeptIn(s, new)'
    <2>1. ASSUME NEW k \in Key, NEW w \in Name, Owed(s, k, w)'
          PROVE  Keeps(new, k, w)
        <3>1. CASE k \in Written(txn_of[s]) /\ w = Own(s, phase[s])
            <4>1. EndsWith(log, k, w, txn_of[s].txn_id)
                BY <3>1, <1>1, <1>3 DEF SoloIn, EndsIn
            <4> QED
                BY <4>1, <1>6, <1>7, KeptByCommit
        <3>2. CASE ~ (k \in Written(txn_of[s]) /\ w = Own(s, phase[s]))
            <4>1. Wrote(s) => Wrote(s)'
                BY <1>1 DEF Wrote
            <4>2. Left(s)' => Left(s)
                BY <1>1 DEF Left
            <4>3. Owed(s, k, w)
                BY <2>1, <3>2, <4>1, <4>2, <1>1 DEF Owed
            <4>4. Keeps(log, k, w)
                BY <4>3, <1>3 DEF SoloIn, KeptIn
            <4> QED
                BY <4>4, <1>6, <1>7, KeptWhenLonger DEF IsRedoOf
        <3> QED
            BY <3>1, <3>2
    <2> QED
        BY <2>1 DEF KeptIn
<1> QED
    BY <1>8, <1>9, <1>10, <1>11 DEF SoloIn

LEMMA SoloAck ==
    ASSUME Records, Solo, NEW s \in Session, Alone(s), AfterAck(s),
           NEW new, new = logs'[live']
    PROVE  SoloIn(s, new)'
<1>1. /\ stage[s] = "sync" /\ stage'[s] = "idle" /\ live' = live /\ logs' = logs
      /\ UNCHANGED <<phase, fault>> /\ baseline' = baseline
      /\ engine'[s].file = engine[s].file
      /\ pending'[s] = pending[s] \ Written(txn_of[s])
    BY DEF AfterAck, Typed, Others
<1>2. SoloIn(s, new)
    BY <1>1, SoloFacts
<1>3. PhaseOK(s) /\ EngineOK(s)
    BY DEF Records, Basics, SessionsOK
<1>4. PICK j \in pending[s] : Written(txn_of[s]) = {j}
    BY <1>1, <1>3 DEF EngineOK, Committing
<1>5. phase[s] \in {"baseline", "worker"}
    BY <1>3, <1>4 DEF PhaseOK, Alone, UsesEngine
<1>6. InPlace(s)'
    BY <1>1, <1>2, InPlaceStays DEF SoloIn, InPlace, AfterAck
<1>7. ScannedIn(s, new)' /\ ServedOK(s)' /\ EndsIn(s, new)'
    BY <1>1, <1>5 DEF ScannedIn, ServedOK, EndsIn
<1>8. SoundIn(s, new)'
    BY <1>1, <1>2 DEF SoloIn, SoundIn
<1>9. KeptIn(s, new)'
    <2>1. ASSUME NEW k \in Key, NEW w \in Name, Owed(s, k, w)'
          PROVE  Owed(s, k, w)
        <3>1. CASE phase[s] = "baseline"
            <4>1. ~ Wrote(s) /\ ~ Left(s)'
                BY <3>1, <1>1 DEF Wrote, Left
            <4>2. /\ w = Own(s, "baseline") /\ k \in baseline[s]
                  /\ k \notin pending'[s]
                BY <4>1, <3>1, <2>1, <1>1 DEF Owed
            <4>3. k \in Written(txn_of[s]) \/ k \notin pending[s]
                BY <4>2, <1>1
            <4> QED
                BY <4>1, <4>2, <4>3, <3>1, <1>1 DEF Owed
        <3>2. CASE phase[s] = "worker"
            <4>1. j = WorkerKey(fault[s]) /\ pending'[s] = {}
                BY <3>2, <1>1, <1>3, <1>4 DEF PhaseOK
            <4>2. Wrote(s)'
                BY <4>1, <3>2, <1>1 DEF Wrote
            <4>3. \/ w = Own(s, "baseline") /\ k \in baseline[s] /\ k # WorkerKey(fault[s])
                  \/ w = Own(s, "worker") /\ k = WorkerKey(fault[s])
                BY <4>2, <2>1, <1>1 DEF Owed
            <4> QED
                BY <4>1, <4>3, <3>2, <1>1, <1>4 DEF Owed
        <3> QED
            BY <3>1, <3>2, <1>5
    <2> QED
        BY <2>1, <1>2 DEF SoloIn, KeptIn
<1> QED
    BY <1>6, <1>7, <1>8, <1>9 DEF SoloIn

LEMMA SoloWorker ==
    ASSUME Records, Solo, NEW s \in Session, Alone(s), AfterWorker(s),
           NEW new, new = logs'[live']
    PROVE  SoloIn(s, new)'
<1>1. /\ phase[s] = "worker" /\ phase'[s] = "verify" /\ pending'[s] = {}
      /\ stage'[s] = "none" /\ live' = live /\ fault' = fault /\ baseline' = baseline
      /\ stage[s] \in {"redo", "sync", "idle"}
    BY DEF AfterWorker, AfterForget, Typed, Others
<1>2. PICK log : log = logs[live]
    OBVIOUS
<1>3. SoloIn(s, log) /\ live \in 1 .. Len(logs) /\ log \in Seq(Rec)
    BY <1>2, SoloFacts
<1>4. PhaseOK(s) /\ EngineOK(s)
    BY DEF Records, Basics, SessionsOK
<1>5. engine[s].file = live /\ IsUntorn(log)
    BY <1>1, <1>3 DEF SoloIn, InPlace, SoundIn
<1>6. PICK r : r.type = "torn" /\ (new = log \/ Longer(new, log, r))
    <2>1. CASE logs' = logs
        <3>1. new = log
            BY <2>1, <1>1, <1>2
        <3>2. Damage("torn", 1, None).type = "torn"
            BY DamageIsTyped
        <3> QED
            BY <3>1, <3>2
    <2>2. ASSUME NEW n \in Nat \ {0}, AppendedTo(logs', live, Damage("torn", n, None))
          PROVE  \E r : r.type = "torn" /\ Longer(new, log, r)
        <3>1. PICK r : r = Damage("torn", n, None)
            OBVIOUS
        <3>2. Longer(new, log, r)
            BY <3>1, <2>2, <1>1, <1>2, <1>3, AppendedIsLonger
        <3>3. r.type = "torn"
            BY <3>1, DamageIsTyped
        <3> QED
            BY <3>2, <3>3
    <2> QED
        BY <2>1, <2>2, <1>5 DEF AfterWorker
<1>7. InPlace(s)'
    BY <1>1, <1>3, InPlaceStays DEF SoloIn, AfterWorker, AfterForget
<1>8. ScannedIn(s, new)' /\ ServedOK(s)' /\ EndsIn(s, new)'
    BY <1>1 DEF ScannedIn, ServedOK, EndsIn
<1>9. SoundIn(s, new)'
    <2>1. OnlyLastTorn(new)
        <3>1. CASE new = log
            BY <3>1, <1>5 DEF IsUntorn, OnlyLastTorn
        <3>2. CASE Longer(new, log, r)
            BY <3>2, <1>5, SoundWhenLonger
        <3> QED
            BY <3>1, <3>2, <1>6
    <2> QED
        BY <2>1, <1>1 DEF SoundIn
<1>10. KeptIn(s, new)'
    <2>1. ASSUME NEW k \in Key, NEW w \in Name, Owed(s, k, w)'
          PROVE  Keeps(new, k, w)
        <3>1. Wrote(s)' <=> ExpectSurvive(fault[s])
            BY <1>1 DEF Wrote
        <3>2. Left(s)' <=> ExpectSurvive(fault[s])
            BY <1>1 DEF Left
        <3>3. Wrote(s) => ExpectSurvive(fault[s])
            BY <1>1, <1>4 DEF PhaseOK
        <3>4. ExpectSurvive(fault[s]) => stage[s] = "sync" \/ pending[s] = {}
            BY DEF AfterWorker, DiesBeforeAppend, ExpectSurvive
        <3>5. stage[s] = "sync" => WorkerKey(fault[s]) \in Written(txn_of[s])
            <4>1. ASSUME stage[s] = "sync"
                  PROVE  \E j \in pending[s] : Written(txn_of[s]) = {j}
                BY <4>1, <1>4 DEF EngineOK, Committing
            <4> QED
                BY <4>1, <1>1, <1>4 DEF PhaseOK
        <3>6. Owed(s, k, w)
            <4>1. CASE w = Own(s, "worker") /\ k = WorkerKey(fault[s]) /\ Left(s)'
                BY <4>1, <3>2, <3>4, <3>5, <1>1 DEF Owed, Left
            <4>2. CASE ~ (w = Own(s, "worker") /\ k = WorkerKey(fault[s]) /\ Left(s)')
                <5>1. /\ w = Own(s, "baseline") /\ k \in baseline[s]
                      /\ ~ (Wrote(s)' /\ k = WorkerKey(fault[s]))
                    BY <4>2, <2>1, <1>1 DEF Owed
                <5> QED
                    BY <5>1, <3>1, <3>3, <1>1 DEF Owed
            <4> QED
                BY <4>1, <4>2
        <3>7. Keeps(log, k, w)
            BY <3>6, <1>3 DEF SoloIn, KeptIn
        <3>8. ~ IsRedoOf(r, k)
            BY <1>6 DEF IsRedoOf
        <3> QED
            BY <3>7, <3>8, <1>6, KeptWhenLonger
    <2> QED
        BY <2>1 DEF KeptIn
<1> QED
    BY <1>7, <1>8, <1>9, <1>10 DEF SoloIn

LEMMA SoloBaseline ==
    ASSUME Records, Solo, NEW s \in Session, Alone(s), AfterBaseline(s),
           NEW new, new = logs'[live']
    PROVE  SoloIn(s, new)'
<1>1. /\ phase[s] = "baseline" /\ phase'[s] = "worker" /\ stage[s] = "idle"
      /\ stage'[s] = "none" /\ live' = live /\ logs' = logs /\ baseline' = baseline
      /\ pending[s] = {} /\ pending'[s] # {}
    BY DEF AfterBaseline, AfterForget, Typed, Others
<1>2. SoloIn(s, new)
    BY <1>1, SoloFacts
<1>3. InPlace(s)'
    BY <1>1, <1>2, InPlaceStays DEF SoloIn, AfterBaseline, AfterForget
<1>4. ScannedIn(s, new)' /\ ServedOK(s)' /\ EndsIn(s, new)'
    BY <1>1 DEF ScannedIn, ServedOK, EndsIn
<1>5. SoundIn(s, new)'
    BY <1>1, <1>2 DEF SoloIn, SoundIn
<1>6. KeptIn(s, new)'
    <2>1. ASSUME NEW k \in Key, NEW w \in Name, Owed(s, k, w)'
          PROVE  Owed(s, k, w)
        <3>1. ~ Wrote(s) /\ ~ Left(s)'
            BY <1>1 DEF Wrote, Left
        <3>2. w = Own(s, "baseline") /\ k \in baseline[s]
            BY <2>1, <3>1, <1>1 DEF Owed
        <3> QED
            BY <3>1, <3>2, <1>1 DEF Owed
    <2> QED
        BY <2>1, <1>2 DEF SoloIn, KeptIn
<1> QED
    BY <1>3, <1>4, <1>5, <1>6 DEF SoloIn

\* Neither its Engine() nor its commit raises.
LEMMA SoloNeverRaises ==
    ASSUME Records, Solo, NEW s \in Session, Alone(s)
    PROVE  ~ AfterRaise(s)
<1>1. ~ RecoverRaises(s)
    BY SoloReads DEF RecoverRaises
<1>2. ~ Refused(s)
    <2> SUFFICES ASSUME NEW k \in pending[s]
                 PROVE  ~ Conflicts(s, TxnWith(s, k))
        BY DEF Refused
    <2>1. Basics /\ k \in Key /\ engine[s] \in Engines
        BY DEF Records, Basics, RunTypes, EngineTypes
    <2>2. PICK t : t = TxnWith(s, k)
        OBVIOUS
    <2>3. Written(t) = {k} /\ t.start_ts = engine[s].next_ts - 1
        BY <2>1, <2>2, TxnWithFacts
    <2>4. PICK list : list = engine[s].catalog[k]
        OBVIOUS
    <2>5. list \in Seq(Version) /\ engine[s].next_ts \in Nat \ {0}
        BY <2>1, <2>4 DEF Engines
    <2>6. ListOK(list, engine[s].next_ts, k)
        BY <2>1, <2>4, SoloFacts DEF Records, AllTrue, CatalogsOK, CatalogOK
    <2>7. GetLatestCommitTs(list) \in Nat /\ GetLatestCommitTs(list) < engine[s].next_ts
        <3>1. CASE list = << >>
            BY <3>1, <2>5 DEF GetLatestCommitTs
        <3>2. CASE list # << >>
            <4>1. Len(list) \in 1 .. Len(list)
                BY <3>2, <2>5, EmptySeq, LenProperties
            <4>2. list[Len(list)] \in Version
                BY <4>1, <2>5, ElementOfSeq
            <4> QED
                BY <3>2, <4>1, <4>2, <2>6 DEF GetLatestCommitTs, ListOK, Version, VersionBy
        <3> QED
            BY <3>1, <3>2
    <2>8. ~ (GetLatestCommitTs(list) > t.start_ts)
        BY <2>3, <2>5, <2>7
    <2> QED
        BY <2>2, <2>3, <2>4, <2>8 DEF Conflicts
<1> QED
    BY <1>1, <1>2 DEF AfterRaise

\* What comes before is alone, too.
LEMMA AloneBefore ==
    ASSUME Records, NEW s \in Session, Steps(s), ~ AfterStart(s), Alone(s)'
    PROVE  Alone(s) /\ ~ AfterCleanup(s) /\ ~ AfterVerify(s)
<1>1. EngineOK(s)
    BY DEF Records, Basics, SessionsOK
<1>2. met' = met
    BY DEF Steps, AfterOpen, AfterTruncate, AfterPass1, AfterRecover, AfterCommit,
           AfterRedo, AfterAppendCommit, AfterAck, AfterWorker, AfterBaseline,
           AfterRaise, AfterVerify, AfterCleanup, AfterForget, runVars
<1>3. ~ AfterCleanup(s) /\ ~ AfterVerify(s)
    <2>1. phase'[s] \notin {"cleanup", "done"}
        BY DEF Alone, UsesEngine
    <2> QED
        BY <2>1 DEF AfterCleanup, AfterVerify, After
<1>4. UsesEngine(s)
    <2>1. CASE stage[s] # "none"
        BY <2>1, <1>1 DEF EngineOK
    <2>2. CASE stage[s] = "none"
        BY <2>2, <1>3 DEF Steps, AfterTruncate, AfterPass1, AfterRecover, AfterCommit, AfterRedo,
           AfterAppendCommit, AfterAck, AfterWorker, AfterBaseline, AfterRaise, UsesEngine
    <2> QED
        BY <2>1, <2>2
<1> QED
    BY <1>2, <1>3, <1>4 DEF Alone

\* Whoever moves is at work, or comes to work.
LEMMA MoversWork ==
    ASSUME Records, NEW s \in Session, Steps(s), ~ AfterStart(s)
    PROVE  AtWork(s) /\ met' = met
<1>1. EngineOK(s)
    BY DEF Records, Basics, SessionsOK
<1>2. met' = met
    BY DEF Steps, AfterOpen, AfterTruncate, AfterPass1, AfterRecover, AfterCommit,
           AfterRedo, AfterAppendCommit, AfterAck, AfterWorker, AfterBaseline,
           AfterRaise, AfterVerify, AfterCleanup, AfterForget, runVars
<1>3. CASE stage[s] # "none"
    BY <1>1, <1>2, <1>3 DEF EngineOK, UsesEngine, AtWork
<1>4. CASE stage[s] = "none"
    BY <1>2, <1>4 DEF Steps, AfterTruncate, AfterPass1, AfterRecover, AfterCommit, AfterRedo,
       AfterAppendCommit, AfterAck, AfterWorker, AfterBaseline, AfterRaise, AfterVerify,
       AfterCleanup, UsesEngine, AtWork
<1> QED
    BY <1>3, <1>4

LEMMA SoloStays ==
    ASSUME Records, Solo, NEW s \in Session, Steps(s), NEW r \in Session, Alone(r)',
           NEW new, new = logs'[live']
    PROVE  SoloIn(r, new)'
<1>1. CASE r # s
    <2>1. phase'[r] = phase[r]
        BY <1>1, StepBounds DEF Records, Typed, Others
    <2>2. AtWork(r)
        BY <2>1 DEF Alone, UsesEngine, AtWork
    <2>3. CASE AfterStart(s)
        <3>1. met'[r]
            BY <2>2, <2>3, <1>1 DEF AfterStart
        <3> QED
            BY <3>1 DEF Alone
    <2>4. CASE ~ AfterStart(s)
        <3>1. AtWork(s) /\ met' = met
            BY <2>4, MoversWork
        <3>2. Alone(r)
            BY <2>1, <3>1 DEF Alone, UsesEngine
        <3>3. SoloIn(r, logs[live])
            BY <3>2, SoloFacts
        <3> QED
            BY <3>1, <3>3, <1>1 DEF SoloIn, InPlace
    <2> QED
        BY <2>3, <2>4
<1>2. CASE r = s
    <2>1. CASE AfterStart(s)
        BY <2>1, <1>2, SoloStart DEF Alone
    <2>2. CASE ~ AfterStart(s)
        <3>1. Alone(s) /\ ~ AfterCleanup(s) /\ ~ AfterVerify(s)
            BY <2>2, <1>2, AloneBefore
        <3>2. ~ AfterRaise(s)
            BY <3>1, SoloNeverRaises
        <3> QED
            BY <1>2, <2>2, <3>1, <3>2, SoloOpen, SoloTruncate, SoloPass1, SoloRecover, SoloCommit,
               SoloRedo, SoloAppendCommit, SoloAck, SoloWorker, SoloBaseline DEF Steps
    <2> QED
        BY <2>1, <2>2
<1> QED
    BY <1>1, <1>2

\* What the transaction that verifies finds.
LEMMA SoloFinds ==
    ASSUME Records, Solo, NEW s \in Session, ~ met[s], phase[s] = "verify",
           stage[s] = "idle"
    PROVE  /\ ExpectSurvive(fault[s]) => Found(s, WorkerKey(fault[s])) = Own(s, "worker")
           /\ \A k \in baseline[s] :
                 ~ (ExpectSurvive(fault[s]) /\ k = WorkerKey(fault[s]))
                    => Found(s, k) = Own(s, "baseline")
<1>1. Alone(s)
    BY DEF Alone, UsesEngine
<1>2. \A k \in Key, w \in Name : Owed(s, k, w) => ServedBy(engine[s].catalog[k], w)
    BY <1>1, SoloFacts DEF SoloIn, ServedOK
<1>3. \A k \in Key, w \in Name : Owed(s, k, w) => Found(s, k) = w
    BY <1>1, <1>2, SoloFacts, ServedIsFound
<1>4. Own(s, "worker") \in Name /\ Own(s, "baseline") \in Name
    BY DEF Own, Name
<1>5. WorkerKey(fault[s]) \in Key
    BY ExperimentsAssumption DEF WorkerKey
<1>6. ASSUME ExpectSurvive(fault[s])
      PROVE  Found(s, WorkerKey(fault[s])) = Own(s, "worker")
    <2>1. Owed(s, WorkerKey(fault[s]), Own(s, "worker"))
        BY <1>6 DEF Owed, Left
    <2> QED
        BY <2>1, <1>3, <1>4, <1>5
<1>7. ASSUME NEW k \in baseline[s], ~ (ExpectSurvive(fault[s]) /\ k = WorkerKey(fault[s]))
      PROVE  Found(s, k) = Own(s, "baseline")
    <2>1. Owed(s, k, Own(s, "baseline"))
        BY <1>7 DEF Owed, Wrote
    <2>2. k \in Key
        BY DEF Records, Basics, RunTypes
    <2> QED
        BY <2>1, <2>2, <1>3, <1>4
<1> QED
    BY <1>6, <1>7

-----------------------------------------------------------------------------
\* What the tab shows

Deserved(s) ==
    (verdict[s] = "PASS") <=>
        /\ value[s] # ""
        /\ WorkerKey(fault[s]) \in baseline[s] => ~ ExpectSurvive(fault[s])

VerdictsOK ==
    \A s \in Session : phase[s] \in {"cleanup", "done"} /\ ~ met[s] => Deserved(s)

LEMMA VerdictIsRight ==
    ASSUME Records, Solo, NEW s \in Session, AfterVerify(s), ~ met[s]
    PROVE  Deserved(s)'
<1>1. /\ phase[s] = "verify" /\ stage[s] = "idle" /\ fault' = fault
      /\ value' = value /\ baseline' = baseline
      /\ verdict'[s] = IF \A k \in baseline[s] : Matches(s, k) THEN "PASS" ELSE "FAIL"
    BY DEF AfterVerify, AfterForget, Typed, Others
<1>2. /\ value[s] \in {"", "val"}
      /\ baseline[s] = {} => value[s] = "val"
    BY DEF Records, Basics, RunTypes
<1>3. Own(s, "worker") # None /\ Own(s, "baseline") # None
    <2>1. /\ Own(s, "worker") \in [by : Session, phase : {"baseline", "worker"}]
          /\ Own(s, "baseline") \in [by : Session, phase : {"baseline", "worker"}]
        BY DEF Own
    <2> QED
        BY <2>1, ExperimentsAssumption
<1>4. ValueOf(Own(s, "worker")) = "worker's" /\ ValueOf(Own(s, "baseline")) = value[s]
    BY DEF ValueOf, Own
<1>5. ASSUME NEW k \in baseline[s]
      PROVE  Matches(s, k) <=> /\ value[s] # ""
                               /\ ~ (ExpectSurvive(fault[s]) /\ k = WorkerKey(fault[s]))
    <2>1. CASE ExpectSurvive(fault[s]) /\ k = WorkerKey(fault[s])
        <3>1. Found(s, k) = Own(s, "worker")
            BY <2>1, <1>1, SoloFinds
        <3>2. ValueOf(Found(s, k)) # value[s]
            BY <3>1, <1>2, <1>4
        <3> QED
            BY <2>1, <3>2 DEF Matches
    <2>2. CASE ~ (ExpectSurvive(fault[s]) /\ k = WorkerKey(fault[s]))
        <3>1. Found(s, k) = Own(s, "baseline")
            BY <2>2, <1>1, SoloFinds
        <3> QED
            BY <2>2, <3>1, <1>3, <1>4 DEF Matches
    <2> QED
        BY <2>1, <2>2
<1>6. (\A k \in baseline[s] : Matches(s, k)) <=>
        /\ value[s] # ""
        /\ WorkerKey(fault[s]) \in baseline[s] => ~ ExpectSurvive(fault[s])
    BY <1>2, <1>5
<1>7. verdict'[s] = "PASS" <=> \A k \in baseline[s] : Matches(s, k)
    BY <1>1
<1> QED
    BY <1>1, <1>6, <1>7 DEF Deserved

LEMMA VerdictsStay ==
    ASSUME Records, Solo, VerdictsOK, NEW s \in Session, Steps(s)
    PROVE  VerdictsOK'
<1> SUFFICES ASSUME NEW r \in Session, phase'[r] \in {"cleanup", "done"}, ~ met'[r]
             PROVE  Deserved(r)'
    BY DEF VerdictsOK
<1>1. Typed(s)
    BY StepBounds DEF Records
<1>2. ~ met[r]
    <2>1. met[r] => met'[r]
        BY DEF Steps, AfterStart, AfterOpen, AfterTruncate, AfterPass1, AfterRecover, AfterCommit,
           AfterRedo, AfterAppendCommit, AfterAck, AfterWorker, AfterBaseline,
           AfterRaise, AfterVerify, AfterCleanup, AfterForget, runVars
    <2> QED
        BY <2>1
<1>3. ASSUME phase[r] \in {"cleanup", "done"},
             UNCHANGED <<verdict[r], value, fault[r], baseline>>
      PROVE  Deserved(r)'
    <2>1. Deserved(r)
        BY <1>2, <1>3 DEF VerdictsOK
    <2> QED
        BY <2>1, <1>3 DEF Deserved
<1>4. CASE r # s
    BY <1>1, <1>3, <1>4 DEF Typed, Others
<1>5. CASE r = s
    <2>1. CASE AfterVerify(s)
        BY <2>1, <1>2, <1>5, VerdictIsRight
    <2>2. CASE AfterRaise(s)
        <3>1. Alone(s)
            BY <2>2, <1>2, <1>5 DEF AfterRaise, Alone
        <3> QED
            BY <2>2, <3>1, SoloNeverRaises
    <2>3. CASE AfterCleanup(s)
        BY <2>3, <1>1, <1>3, <1>5 DEF AfterCleanup, Typed, Others
    <2>4. ~ (AfterStart(s) \/ AfterWorker(s) \/ AfterBaseline(s))
        BY <1>5 DEF AfterStart, AfterWorker, AfterBaseline
    <2>5. ASSUME phase' = phase, stage[s] # "none" \/ UsesEngine(s)
          PROVE  FALSE
        <3>1. UsesEngine(s)
            BY <2>5 DEF Records, Basics, SessionsOK, EngineOK
        <3> QED
            BY <3>1, <2>5, <1>5 DEF UsesEngine
    <2>6. CASE AfterOpen(s) /\ UsesEngine(s) /\ UNCHANGED runVars
        BY <2>5, <2>6 DEF runVars
    <2>7. CASE \/ AfterTruncate(s) \/ AfterPass1(s) \/ AfterRecover(s)
               \/ AfterAppendCommit(s) \/ AfterAck(s)
               \/ \E k \in Key : AfterCommit(s, k) \/ AfterRedo(s, k)
        <3>1. stage[s] # "none" /\ phase' = phase
            BY <2>7 DEF AfterTruncate, AfterPass1, AfterRecover, AfterAppendCommit, AfterAck,
               AfterCommit, AfterRedo, runVars
        <3> QED
            BY <3>1, <2>5
    <2> QED
        BY <2>1, <2>2, <2>3, <2>4, <2>6, <2>7 DEF Steps
<1> QED
    BY <1>4, <1>5

Private == Records /\ Solo /\ VerdictsOK

LEMMA PrivateInit ==
    ASSUME ExperimentsInit
    PROVE  Private
<1>1. phase = [s \in Session |-> "start"]
    BY DEF ExperimentsInit
<1>2. Solo /\ VerdictsOK
    BY <1>1 DEF Solo, VerdictsOK, Alone, UsesEngine
<1> QED
    BY <1>2, RecordsInit DEF Private

LEMMA PrivateStays ==
    ASSUME Private, [ExperimentsNext]_allVars
    PROVE  Private'
<1>1. CASE ExperimentsNext
    <2>1. PICK s \in Session : Steps(s)
        BY <1>1, NextSteps DEF Private, Records
    <2>2. Records'
        BY <2>1, RecordsStay, FreeIsReadAsItIs DEF Private
    <2>3. Solo'
        BY <2>1, SoloStays DEF Private, Solo
    <2>4. VerdictsOK'
        BY <2>1, VerdictsStay DEF Private
    <2> QED
        BY <2>2, <2>3, <2>4 DEF Private
<1>2. CASE UNCHANGED allVars
    <2>1. Records'
        BY <1>2, RecordsUnchanged DEF Private
    <2>2. Solo'
        BY <1>2 DEF Private, Solo, SoloIn, InPlace, Free, ScannedIn, SoundIn, EndsIn,
           KeptIn, ServedOK, Owed, Left, Wrote, Alone, UsesEngine, AtWork, allVars, vars,
           runVars
    <2>3. VerdictsOK'
        BY <1>2 DEF Private, VerdictsOK, Deserved, allVars, vars, runVars
    <2> QED
        BY <2>1, <2>2, <2>3 DEF Private
<1> QED
    BY <1>1, <1>2

(***************************************************************************)
(* As long as an experiment is alone in its directory, the log there keeps *)
(* all that its verdict will ask for, whole and in place, and each verdict *)
(* that was given says what happened.                                      *)
(***************************************************************************)
THEOREM PrivateExperiments == ExperimentsSpec => []Private
<1>1. ExperimentsInit => Private
    BY PrivateInit
<1>2. Private /\ [ExperimentsNext]_allVars => Private'
    BY PrivateStays
<1> QED
    BY <1>1, <1>2, PTL DEF ExperimentsSpec

(***************************************************************************)
(* The table of app.py is right: the engine that opens the log a worker    *)
(* left serves what the worker was committing exactly at the fault points  *)
(* for which "expect_survive" says so, as long as no other experiment has  *)
(* been in the directory.                                                  *)
(***************************************************************************)
THEOREM AlwaysSurvivesAsTold == ExperimentsSpec => []SurvivesAsTold
<1>1. Private => SurvivesAsTold
    <2> SUFFICES ASSUME Private, NEW s \in Session, phase[s] = "verify",
                        stage[s] = "idle", ~ met[s]
                 PROVE  WorkerServed(s) <=> ExpectSurvive(fault[s])
        BY DEF SurvivesAsTold
    <2>1. Records /\ Solo
        BY DEF Private
    <2>2. ASSUME ExpectSurvive(fault[s])
          PROVE  WorkerServed(s)
        <3>1. Found(s, WorkerKey(fault[s])) = Own(s, "worker")
            BY <2>1, <2>2, SoloFinds
        <3> QED
            BY <3>1 DEF WorkerServed, Own
    <2>3. ASSUME WorkerServed(s)
          PROVE  ExpectSurvive(fault[s])
        <3>1. PICK k, w : k = WorkerKey(fault[s]) /\ w = Found(s, k)
            OBVIOUS
        <3>2. w = [by |-> s, phase |-> "worker"]
            BY <2>3, <3>1 DEF WorkerServed
        <3>3. w \in [by : Session, phase : {"baseline", "worker"}]
            BY <3>2
        <3>4. w # None /\ k \in Key
            BY <3>1, <3>3, ExperimentsAssumption DEF WorkerKey
        <3>5. Told(w, k)
            <4>1. Free
                BY <2>1, SoloFacts DEF Alone, UsesEngine
            <4> QED
                BY <4>1, <2>1, <3>1, <3>4, FoundIsTold
        <3>6. w.by = s /\ w.phase = "worker"
            BY <3>2
        <3> QED
            BY <3>4, <3>5, <3>6 DEF Told
    <2> QED
        BY <2>2, <2>3
<1> QED
    BY <1>1, PrivateExperiments, PTL

(***************************************************************************)
(* An experiment alone in its directory never shows an error, and FAIL     *)
(* only if the user entered no value, or the worker's key with a fault     *)
(* point behind which the worker's commit survives.                        *)
(***************************************************************************)
THEOREM VerdictIsAlwaysDeserved == ExperimentsSpec => []VerdictIsDeserved
<1>1. Private => VerdictIsDeserved
    BY DEF Private, VerdictsOK, Deserved, VerdictIsDeserved
<1> QED
    BY <1>1, PrivateExperiments, PTL
=============================================================================
