---------------------------- MODULE EngineProofs ----------------------------
(***************************************************************************)
(* Theorems about Engine, for any sets of transactions and keys, in five   *)
(* parts, each of which rests on those before it:                          *)
(*   lemmas about a key's versions (Catalog) and about sequences;          *)
(*   what holds whatever fails: every field has its type, and timestamps   *)
(*   and ids put the commits of all the processes in one order;            *)
(*   what survives if every os.write writes all it is given;               *)
(*   what a crash leaves visible, and what a snapshot sees across crashes; *)
(*   Engine implements SnapshotStore.                                      *)
(***************************************************************************)
EXTENDS EngineProperties, EngineRefinement, Integers, SequenceTheorems,
        WellFoundedInduction, TLAPS

-----------------------------------------------------------------------------
\* What the operators of Catalog, and the operations on sequences that the
\* log needs, do to their arguments

\* Versions by the writers W, and the lists of them.
VersionBy(W) == [begin_ts : Nat, end_ts : Nat, writer : W,
                 is_tombstone : BOOLEAN]

Versions(W) == Seq(VersionBy(W))

LEMMA NewVersionFacts ==
    ASSUME NEW W, NEW ts \in Nat, NEW w \in W, NEW dead \in BOOLEAN
    PROVE  /\ NewVersion(ts, w, dead) \in VersionBy(W)
           /\ NewVersion(ts, w, dead).begin_ts = ts
           /\ NewVersion(ts, w, dead).end_ts = 0
           /\ NewVersion(ts, w, dead).writer = w
           /\ NewVersion(ts, w, dead).is_tombstone = dead
    BY DEF NewVersion, VersionBy

\* Appending keeps a sequence and adds its argument at the end.
LEMMA AppendFacts ==
    ASSUME NEW S, NEW s \in Seq(S), NEW e \in S
    PROVE  /\ Append(s, e) \in Seq(S)
           /\ Len(Append(s, e)) = Len(s) + 1
           /\ \A i \in 1 .. Len(s) : Append(s, e)[i] = s[i]
           /\ Append(s, e)[Len(s) + 1] = e
    BY SMT

\* A prefix is a sequence and agrees with the whole.
LEMMA PrefixFacts ==
    ASSUME NEW S, NEW s \in Seq(S), NEW n \in 0 .. Len(s)
    PROVE  /\ SubSeq(s, 1, n) \in Seq(S)
           /\ Len(SubSeq(s, 1, n)) = n
           /\ \A i \in 1 .. n : SubSeq(s, 1, n)[i] = s[i]
<1>1. Len(s) \in Nat /\ \A i \in 1 .. n : s[i] \in S
    BY LenProperties, ElementOfSeq
<1>2. 1 \in Int /\ n \in Int
    OBVIOUS
<1>3. /\ SubSeq(s, 1, n) \in Seq(S)
      /\ Len(SubSeq(s, 1, n)) = IF 1 <= n THEN n - 1 + 1 ELSE 0
      /\ \A i \in 1 .. n - 1 + 1 : SubSeq(s, 1, n)[i] = s[1 + i - 1]
    BY <1>1, <1>2, SubSeqProperties
<1> QED
    BY <1>1, <1>3

\* Two sequences that agree on the first n places have the same prefix.
LEMMA PrefixesEqual ==
    ASSUME NEW S, NEW s \in Seq(S), NEW u \in Seq(S), NEW n \in Nat,
           n <= Len(s), n <= Len(u), \A i \in 1 .. n : s[i] = u[i]
    PROVE  SubSeq(s, 1, n) = SubSeq(u, 1, n)
<1>1. n \in 0 .. Len(s) /\ n \in 0 .. Len(u)
    BY LenProperties
<1>2. /\ SubSeq(s, 1, n) \in Seq(S) /\ SubSeq(u, 1, n) \in Seq(S)
      /\ Len(SubSeq(s, 1, n)) = n /\ Len(SubSeq(u, 1, n)) = n
      /\ \A i \in 1 .. n : SubSeq(s, 1, n)[i] = SubSeq(u, 1, n)[i]
    BY <1>1, PrefixFacts
<1> QED
    BY <1>2, SeqEqual

(***************************************************************************)
(* install_version adds the new version at the end, and of the versions    *)
(* that were there it changes nothing but end_ts.                          *)
(***************************************************************************)
LEMMA InstallFacts ==
    ASSUME NEW W, NEW list \in Versions(W), NEW version \in VersionBy(W)
    PROVE  LET new == InstallVersion(list, version)
           IN  /\ new \in Versions(W)
               /\ Len(new) = Len(list) + 1
               /\ new[Len(list) + 1] = version
               /\ \A i \in 1 .. Len(list) :
                    /\ new[i].begin_ts = list[i].begin_ts
                    /\ new[i].writer = list[i].writer
                    /\ new[i].is_tombstone = list[i].is_tombstone
<1> DEFINE ts == version.begin_ts
           closed == CloseOut(list, ts)
<1>1. list \in Seq(VersionBy(W)) /\ Len(list) \in Nat /\ ts \in Nat
    BY LenProperties DEF Versions, VersionBy
<1>2. /\ closed \in Seq(VersionBy(W))
      /\ Len(closed) = Len(list)
      /\ \A i \in 1 .. Len(list) :
            /\ closed[i].begin_ts = list[i].begin_ts
            /\ closed[i].writer = list[i].writer
            /\ closed[i].is_tombstone = list[i].is_tombstone
    <2>1. CASE list # << >> /\ list[Len(list)].end_ts = 0
        <3> DEFINE n == Len(list)
                   last == [list[n] EXCEPT !.end_ts = ts]
        <3>1. n \in 1 .. Len(list)
            BY <1>1, <2>1, EmptySeq
        <3>2. list[n] \in VersionBy(W)
            BY <1>1, <3>1, ElementOfSeq
        <3>3. /\ last \in VersionBy(W)
              /\ last.begin_ts = list[n].begin_ts
              /\ last.writer = list[n].writer
              /\ last.is_tombstone = list[n].is_tombstone
            <4> HIDE DEF ts, n
            <4> QED
                BY <1>1, <3>2 DEF VersionBy
        <3>4. closed = [list EXCEPT ![n] = last]
            BY <2>1 DEF CloseOut
        <3> HIDE DEF last, n
        <3>5. /\ closed \in Seq(VersionBy(W))
              /\ Len(closed) = Len(list)
              /\ \A j \in 1 .. Len(list) :
                    closed[j] = IF j = n THEN last ELSE list[j]
            BY <1>1, <3>1, <3>3, <3>4, ExceptSeq
        <3> QED
            BY <3>3, <3>5
    <2>2. CASE ~ (list # << >> /\ list[Len(list)].end_ts = 0)
        BY <1>1, <2>2 DEF CloseOut
    <2> QED
        BY <2>1, <2>2
<1>3. InstallVersion(list, version) = Append(closed, version)
    BY DEF InstallVersion
<1> HIDE DEF closed
<1>4. /\ Append(closed, version) \in Seq(VersionBy(W))
      /\ Len(Append(closed, version)) = Len(list) + 1
      /\ Append(closed, version)[Len(list) + 1] = version
      /\ \A i \in 1 .. Len(list) : Append(closed, version)[i] = closed[i]
    BY <1>2, AppendFacts
<1> QED
    BY <1>2, <1>3, <1>4 DEF Versions

\* A list whose intervals meet, in commit order, and of which only the last is
\* open.
InOrder(list) ==
    /\ \A i \in 1 .. Len(list) :
          list[i].end_ts = IF i = Len(list) THEN 0 ELSE list[i + 1].begin_ts
    /\ \A i, j \in 1 .. Len(list) :
          i <= j => list[i].begin_ts <= list[j].begin_ts

\* install_version keeps such a list in order, given a version that is not
\* older than those it has.
LEMMA InstallInOrder ==
    ASSUME NEW W, NEW list \in Versions(W), NEW version \in VersionBy(W),
           version.end_ts = 0, InOrder(list),
           \A i \in 1 .. Len(list) : list[i].begin_ts <= version.begin_ts
    PROVE  InOrder(InstallVersion(list, version))
<1> DEFINE ts == version.begin_ts
           n == Len(list)
           closed == CloseOut(list, ts)
<1>1. list \in Seq(VersionBy(W)) /\ n \in Nat /\ ts \in Nat
    BY LenProperties DEF Versions, VersionBy
<1>2. /\ closed \in Seq(VersionBy(W)) /\ Len(closed) = n
      /\ \A i \in 1 .. n : closed[i].begin_ts = list[i].begin_ts
      /\ \A i \in 1 .. n : closed[i].end_ts = IF i = n THEN ts
                                                       ELSE list[i].end_ts
    <2>1. CASE list = << >>
        <3>1. n = 0 /\ closed = list
            BY <2>1 DEF CloseOut
        <3> QED
            BY <1>1, <3>1
    <2>2. CASE list # << >>
        <3> DEFINE last == [list[n] EXCEPT !.end_ts = ts]
        <3>1. n \in 1 .. Len(list) /\ list[n] \in VersionBy(W)
            BY <1>1, <2>2, EmptySeq, ElementOfSeq
        <3>2. /\ last \in VersionBy(W)
              /\ last.begin_ts = list[n].begin_ts
              /\ last.end_ts = ts
            <4> HIDE DEF ts, n
            <4> QED
                BY <1>1, <3>1 DEF VersionBy
        <3>3. list[n].end_ts = 0
            BY <3>1 DEF InOrder
        <3>4. closed = [list EXCEPT ![n] = last]
            BY <2>2, <3>3 DEF CloseOut
        <3> HIDE DEF last, n
        <3>5. /\ closed \in Seq(VersionBy(W))
              /\ Len(closed) = Len(list)
              /\ \A j \in 1 .. Len(list) :
                    closed[j] = IF j = n THEN last ELSE list[j]
            BY <1>1, <3>1, <3>2, <3>4, ExceptSeq
        <3> QED
            BY <3>2, <3>5 DEF n
    <2> QED
        BY <2>1, <2>2
<1> DEFINE new == Append(closed, version)
<1>3. InstallVersion(list, version) = new
    BY DEF InstallVersion
<1> HIDE DEF closed
<1>4. /\ Len(new) = n + 1 /\ new[n + 1] = version
      /\ \A i \in 1 .. n : new[i] = closed[i]
    BY <1>2, AppendFacts
<1> HIDE DEF new, n
<1>5. ASSUME NEW i \in 1 .. n + 1
      PROVE  new[i].end_ts = IF i = n + 1 THEN 0 ELSE new[i + 1].begin_ts
    <2>1. CASE i = n + 1
        BY <1>4, <2>1
    <2>2. CASE i = n
        BY <1>1, <1>2, <1>4, <2>2 DEF n
    <2>3. CASE i < n
        <3>1. i \in 1 .. n /\ i + 1 \in 1 .. n /\ i # n
            BY <1>1, <2>3
        <3>2. list[i].end_ts = list[i + 1].begin_ts
            BY <3>1 DEF InOrder, n
        <3> QED
            BY <1>1, <1>2, <1>4, <3>1, <3>2
    <2> QED
        BY <1>1, <2>1, <2>2, <2>3
<1>6. ASSUME NEW i \in 1 .. n + 1, NEW j \in 1 .. n + 1, i <= j
      PROVE  new[i].begin_ts <= new[j].begin_ts
    <2>1. CASE j = n + 1
        <3>1. CASE i = n + 1
            BY <1>1, <1>4, <2>1, <3>1
        <3>2. CASE i # n + 1
            <4>1. i \in 1 .. n
                BY <1>1, <3>2
            <4> QED
                BY <1>2, <1>4, <2>1, <4>1 DEF n
        <3> QED
            BY <3>1, <3>2
    <2>2. CASE j # n + 1
        <3>1. i \in 1 .. n /\ j \in 1 .. n
            BY <1>1, <1>6, <2>2
        <3> QED
            BY <1>2, <1>4, <1>6, <3>1 DEF InOrder, n
    <2> QED
        BY <2>1, <2>2
<1> QED
    BY <1>3, <1>4, <1>5, <1>6 DEF InOrder

\* A non-empty set of places has a last one, which the walk from the newest
\* version meets first.
LEMMA NewestFacts ==
    ASSUME NEW n \in Nat, NEW places \in SUBSET (1 .. n), places # {}
    PROVE  /\ NewestOf(places) \in places
           /\ \A j \in places : j <= NewestOf(places)
<1> DEFINE back == {n - i : i \in places}
           less == OpToRel(<, Nat)
<1> HIDE DEF less
<1>1. back \subseteq Nat /\ back # {}
    <2>1. back \subseteq Nat
        <3> SUFFICES ASSUME NEW i \in places PROVE n - i \in Nat
            OBVIOUS
        <3>1. i \in 1 .. n
            OBVIOUS
        <3> QED
            BY <3>1
    <2>2. PICK i \in places : TRUE
        OBVIOUS
    <2>3. n - i \in back
        BY <2>2
    <2> QED
        BY <2>1, <2>3
<1>2. PICK x \in back : \A y \in back : <<y, x>> \notin less
    <2> HIDE DEF back
    <2>1. IsWellFoundedOn(less, Nat)
        BY NatLessThanWellFounded DEF less
    <2> QED
        BY <1>1, <2>1, WFMin
<1>3. \A y \in back : ~ (y < x)
    BY <1>1, <1>2 DEF OpToRel, less
<1>4. PICK i \in places : x = n - i
    OBVIOUS
<1>5. \A j \in places : j <= i
    BY <1>3, <1>4
<1> QED
    BY <1>5 DEF NewestOf

(***************************************************************************)
(* A read returns "not found" or the writer of one of the versions it      *)
(* looked at: one that its snapshot sees, that is not a tombstone, and     *)
(* that no newer version the snapshot sees hides.                          *)
(***************************************************************************)
LEMMA ReadFacts ==
    ASSUME NEW W, NEW list \in Versions(W), NEW n \in 0 .. Len(list),
           NEW ts \in Nat, NEW NotFound,
           ReadResult(list, n, ts, NotFound) # NotFound
    PROVE  \E i \in 1 .. n :
              /\ Visible(list[i], ts)
              /\ ~ list[i].is_tombstone
              /\ list[i].writer \in W
              /\ ReadResult(list, n, ts, NotFound) = list[i].writer
              /\ \A j \in 1 .. n : Visible(list[j], ts) => j <= i
<1> DEFINE places == VisibleAt(list, n, ts)
           i == NewestOf(places)
<1>1. places # {} /\ ~ list[i].is_tombstone
    BY DEF ReadResult
<1>2. ReadResult(list, n, ts, NotFound) = list[i].writer
    BY <1>1 DEF ReadResult
<1>3. n \in Nat /\ places \in SUBSET (1 .. n) /\ n <= Len(list)
    BY LenProperties DEF VisibleAt, Versions
<1>4. i \in places /\ \A j \in places : j <= i
    BY <1>1, <1>3, NewestFacts
<1>5. i \in 1 .. Len(list)
    BY <1>3, <1>4, LenProperties DEF Versions
<1>6. list[i].writer \in W
    <2>1. list[i] \in VersionBy(W)
        <3> HIDE DEF i
        <3> QED
            BY <1>5, ElementOfSeq DEF Versions
    <2> QED
        BY <2>1 DEF VersionBy
<1> QED
    BY <1>1, <1>2, <1>3, <1>4, <1>6 DEF VisibleAt

-----------------------------------------------------------------------------
\* Lemmas

LEMMA VersionsAreVersionRecords == Seq(VersionRecord) = Versions(Txn)
    BY DEF VersionRecord, Versions, VersionBy

\* A record that commit() appends, or what is left of it, is a record.
LEMMA RecordTypesOK ==
    ASSUME TypeOK, NEW t \in Txn
    PROVE  /\ Torn \in Record
           /\ CommitRecord(t) \in Record
           /\ \A k \in Key : RedoRecord(t, k) \in Record
    BY DEF TypeOK, Torn, CommitRecord, RedoRecord, Record

\* WAL.append adds one record, the one it was given unless it was cut short.
LEMMA WalAppendFacts ==
    ASSUME TypeOK, NEW rec \in Record, WalAppend(rec)
    PROVE  /\ wal' \in Seq(Record)
           /\ Len(wal') = Len(wal) + 1
           /\ \A i \in 1 .. Len(wal) : wal'[i] = wal[i]
           /\ wal'[Len(wal) + 1] \in {rec, Torn}
           /\ incidents' = incidents => wal'[Len(wal) + 1] = rec
           /\ incidents' \in 0 .. MaxIncidents
<1>1. Torn \in Record
    BY DEF Torn, Record
<1>2. wal \in Seq(Record)
    BY DEF TypeOK
<1>3. CASE wal' = Append(wal, rec) /\ UNCHANGED incidents
    BY <1>2, <1>3, AppendFacts DEF TypeOK
<1>4. CASE wal' = Append(wal, Torn) /\ Incident("short")
    BY <1>1, <1>2, <1>4, AppendFacts, EngineAssumption DEF TypeOK, Incident
<1> QED
    BY <1>3, <1>4 DEF WalAppend

\* Installing a version in the catalog keeps its type, and its lists grow.
LEMMA InstallInCatalog ==
    ASSUME TypeOK, NEW k \in Key, NEW version \in VersionBy(Txn),
           catalog' = [catalog EXCEPT ![k] = InstallVersion(@, version)]
    PROVE  /\ catalog' \in [Key -> Seq(VersionRecord)]
           /\ \A j \in Key : j # k => catalog'[j] = catalog[j]
           /\ Len(catalog'[k]) = Len(catalog[k]) + 1
           /\ catalog'[k][Len(catalog[k]) + 1] = version
           /\ \A i \in 1 .. Len(catalog[k]) :
                 /\ catalog'[k][i].begin_ts = catalog[k][i].begin_ts
                 /\ catalog'[k][i].writer = catalog[k][i].writer
                 /\ catalog'[k][i].is_tombstone = catalog[k][i].is_tombstone
<1> DEFINE list == catalog[k]
           new == InstallVersion(list, version)
<1>1. list \in Versions(Txn)
    BY VersionsAreVersionRecords DEF TypeOK
<1>2. /\ new \in Versions(Txn)
      /\ Len(new) = Len(list) + 1
      /\ new[Len(list) + 1] = version
      /\ \A i \in 1 .. Len(list) :
            /\ new[i].begin_ts = list[i].begin_ts
            /\ new[i].writer = list[i].writer
            /\ new[i].is_tombstone = list[i].is_tombstone
    BY <1>1, InstallFacts
<1>3. catalog' = [catalog EXCEPT ![k] = new]
    OBVIOUS
<1> HIDE DEF new
<1>4. catalog'[k] = new /\ \A j \in Key : j # k => catalog'[j] = catalog[j]
    BY <1>3 DEF TypeOK
<1>5. catalog' \in [Key -> Seq(VersionRecord)]
    BY <1>2, <1>3, VersionsAreVersionRecords DEF TypeOK
<1> QED
    BY <1>2, <1>4, <1>5

\* Any incident keeps the bound.
LEMMA IncidentFacts ==
    ASSUME TypeOK, NEW kind, Incident(kind)
    PROVE  incidents' \in 0 .. MaxIncidents
    BY EngineAssumption DEF TypeOK, Incident

\* What the end of a process leaves of everything but the file is well typed.
LEMMA ProcessEndsTypeOK ==
    ASSUME TypeOK, ProcessEnds, wal' \in Seq(Record), synced' \in Nat,
           synced' <= Len(wal'), incidents' \in 0 .. MaxIncidents
    PROVE  TypeOK'
<1>1. catalog' \in [Key -> Seq(VersionRecord)]
    BY EmptySeq DEF ProcessEnds
<1>2. cursor' \in [Txn -> [key : Key \cup {None}, n : Nat]]
    BY DEF ProcessEnds, Closed
<1>3. state' \in [Txn -> {"UNBORN", "ACTIVE", "COMMITTED", "ABORTED", "LOST"}]
    BY DEF ProcessEnds, TypeOK
<1> QED
    BY <1>1, <1>2, <1>3 DEF ProcessEnds, TypeOK, Stages

-----------------------------------------------------------------------------
\* Type correctness

(***************************************************************************)
(* TypeOK is not inductive: that a read returns a transaction or "not      *)
(* found" needs its walk to stay inside the list.                          *)
(***************************************************************************)
CursorOK ==
    /\ \A t \in Txn : cursor[t] # Closed =>
         /\ cursor[t].key \in Key
         /\ cursor[t].n <= Len(catalog[cursor[t].key])
    /\ ~ Serving => \A t \in Txn : cursor[t] = Closed

TypeInv == TypeOK /\ CursorOK

LEMMA InitTypeInv == Init => TypeInv
<1> SUFFICES ASSUME Init PROVE TypeInv
    OBVIOUS
<1>1. wal \in Seq(Record) /\ Len(wal) = 0
    BY EmptySeq DEF Init
<1>2. catalog \in [Key -> Seq(VersionRecord)]
    BY EmptySeq DEF Init
<1>3. TypeOK
    BY <1>1, <1>2, EngineAssumption
    DEF Init, TypeOK, Stages, NoWrites, Ops, Closed
<1>4. CursorOK
    BY DEF Init, CursorOK
<1> QED
    BY <1>3, <1>4 DEF TypeInv

LEMMA CallTypeOK ==
    ASSUME TypeInv, NEW t \in Txn, Call(t)
    PROVE  TypeOK'
<1> USE DEF TypeInv
<1>1. CASE Begin(t)
    <2>1. start_ts' \in [Txn -> Nat]
        BY <1>1 DEF Begin, TypeOK, Snapshot
    <2> QED
        BY <1>1, <2>1, SMTT(30) DEF Begin, TypeOK, fileVars, commitVars, readVars
<1>2. CASE Abort(t)
    BY <1>2 DEF Abort, TypeOK, NoWrites, Ops, fileVars, counterVars,
                commitVars, readVars
<1>3. CASE GetWalk(t)
    <2> DEFINE k == cursor[t].key
               v == ReadResult(catalog[k], cursor[t].n, start_ts[t], None)
    <2>1. k \in Key /\ catalog[k] \in Versions(Txn) /\ start_ts[t] \in Nat
        BY <1>3, VersionsAreVersionRecords DEF GetWalk, CursorOK, TypeOK
    <2>2. cursor[t].n \in 0 .. Len(catalog[k])
        BY <1>3, <2>1, LenProperties
        DEF GetWalk, CursorOK, TypeOK, Versions
    <2>3. v \in Txn \cup {None}
        BY <2>1, <2>2, ReadFacts
    <2>4. observed' = [observed EXCEPT ![t][k] = @ \cup {v}]
        BY <1>3 DEF GetWalk
    <2> HIDE DEF k, v
    <2>5. observed' \in [Txn -> [Key -> SUBSET (Txn \cup {None})]]
        BY <2>1, <2>3, <2>4 DEF TypeOK
    <2> QED
        BY <1>3, <2>5 DEF GetWalk, TypeOK, Closed, fileVars, counterVars,
                          commitVars, txnVars
<1>4. CASE CommitReadOnly(t)
    BY <1>4 DEF CommitReadOnly, TypeOK, fileVars, counterVars, commitVars,
                readVars
<1>5. CASE CommitConflict(t)
    BY <1>5 DEF CommitConflict, TypeOK, NoWrites, Ops, fileVars, counterVars,
                commitVars, readVars
<1>6. CASE CommitStart(t)
    BY <1>6, EngineAssumption
    DEF CommitStart, TypeOK, MayCommit, MayUse, MayCall, Stages, Written,
        fileVars, readVars
<1>7. ASSUME NEW k \in Key, Put(t, k) \/ Delete(t, k)
      PROVE  TypeOK'
    <2>1. /\ write_set' \in [Txn -> [Key -> Ops]]
          /\ UNCHANGED <<fileVars, catalog, counterVars, commitVars, scan,
                         state, txn_id, start_ts, commit_ts, readVars,
                         incidents>>
        <3>1. CASE Put(t, k)
            BY <3>1 DEF Put, TypeOK, Ops
        <3>2. CASE Delete(t, k)
            BY <3>2 DEF Delete, TypeOK, Ops
        <3> QED
            BY <1>7, <3>1, <3>2
    <2> QED
        BY <2>1 DEF TypeOK, fileVars, counterVars, commitVars, readVars
<1>8. ASSUME NEW k \in Key, GetOpen(t, k)
      PROVE  TypeOK'
    <2>1. Len(catalog[k]) \in Nat
        BY LenProperties DEF TypeOK
    <2> QED
        BY <1>8, <2>1 DEF GetOpen, TypeOK, fileVars, counterVars, commitVars,
                          txnVars
<1> QED
    BY <1>1, <1>2, <1>3, <1>4, <1>5, <1>6, <1>7, <1>8 DEF Call

LEMMA CommitStepTypeOK ==
    ASSUME TypeOK, CommitStep
    PROVE  TypeOK'
<1>1. Len(wal) \in Nat
    BY LenProperties DEF TypeOK
<1>2. ASSUME NEW k \in Key, AppendRedo(k)
      PROVE  TypeOK'
    <2>1. committer \in Txn
        BY <1>2, EngineAssumption DEF AppendRedo, TypeOK
    <2>2. RedoRecord(committer, k) \in Record
        BY <2>1, RecordTypesOK
    <2>3. /\ wal' \in Seq(Record) /\ Len(wal') = Len(wal) + 1
          /\ incidents' \in 0 .. MaxIncidents
        BY <1>2, <2>2, WalAppendFacts DEF AppendRedo
    <2> QED
        BY <1>1, <1>2, <2>3 DEF AppendRedo, TypeOK, counterVars, txnVars, readVars
<1>3. CASE AppendCommit
    <2>1. committer \in Txn
        BY <1>3, EngineAssumption DEF AppendCommit, TypeOK
    <2>2. CommitRecord(committer) \in Record
        BY <2>1, RecordTypesOK
    <2>3. /\ wal' \in Seq(Record) /\ Len(wal') = Len(wal) + 1
          /\ incidents' \in 0 .. MaxIncidents
        BY <1>3, <2>2, WalAppendFacts DEF AppendCommit
    <2> QED
        BY <1>1, <1>3, <2>3 DEF AppendCommit, TypeOK, Stages, counterVars,
                                txnVars, readVars
<1>4. CASE SyncWal
    BY <1>1, <1>4 DEF SyncWal, TypeOK, Stages, Written, counterVars, txnVars,
                      readVars
<1>5. ASSUME NEW k \in Key, Install(k)
      PROVE  TypeOK'
    <2>1. committer \in Txn
        BY <1>5, EngineAssumption DEF Install, TypeOK
    <2> DEFINE version == NewVersion(commit_ts[committer], committer,
                                     write_set[committer][k] = "del")
    <2>2. version \in VersionBy(Txn)
        BY <2>1, NewVersionFacts DEF TypeOK
    <2> HIDE DEF version
    <2>3. catalog' \in [Key -> Seq(VersionRecord)]
        BY <1>5, <2>2, InstallInCatalog DEF Install, version
    <2> QED
        BY <1>5, <2>3 DEF Install, TypeOK, fileVars, counterVars, txnVars,
                          readVars
<1>6. CASE Ack
    BY <1>6 DEF Ack, TypeOK, Stages, fileVars, counterVars, readVars
<1>7. CASE Return
    BY <1>7, EngineAssumption
    DEF Return, TypeOK, Stages, fileVars, counterVars, txnVars, readVars
<1> QED
    BY <1>2, <1>3, <1>4, <1>5, <1>6, <1>7 DEF CommitStep

LEMMA FailureTypeOK ==
    ASSUME TypeOK, Failure
    PROVE  TypeOK'
<1>1. /\ Len(wal) \in Nat /\ wal \in Seq(Record)
      /\ synced \in Nat /\ synced <= Len(wal) /\ Torn \in Record
    BY LenProperties DEF TypeOK, Torn, Record
<1>2. /\ Append(wal, Torn) \in Seq(Record)
      /\ Len(Append(wal, Torn)) = Len(wal) + 1
    BY <1>1, AppendFacts
<1>3. CASE CommitRaises
    BY <1>3, IncidentFacts
    DEF CommitRaises, TypeOK, Stages, fileVars, counterVars, txnVars, readVars
<1>4. CASE Close
    BY <1>1, <1>4, IncidentFacts, ProcessEndsTypeOK DEF Close, fileVars
<1>5. CASE FaultPoint
    <2>1. wal' = wal \/ wal' = Append(wal, Torn)
        BY <1>5 DEF FaultPoint
    <2> QED
        BY <1>1, <1>2, <1>5, <2>1, IncidentFacts, ProcessEndsTypeOK DEF FaultPoint
<1>6. CASE Kill
    <2>1. wal' = wal \/ wal' = Append(wal, Torn)
        BY <1>6 DEF Kill
    <2> QED
        BY <1>1, <1>2, <1>6, <2>1, IncidentFacts, ProcessEndsTypeOK DEF Kill
<1>7. CASE PowerLoss
    <2>1. PICK n \in synced .. Len(wal) :
            /\ synced' = n
            /\ wal' \in {SubSeq(wal, 1, n), Append(SubSeq(wal, 1, n), Torn)}
        BY <1>7 DEF PowerLoss
    <2>2. SubSeq(wal, 1, n) \in Seq(Record) /\ Len(SubSeq(wal, 1, n)) = n
        BY <1>1, PrefixFacts
    <2>3. /\ Append(SubSeq(wal, 1, n), Torn) \in Seq(Record)
          /\ Len(Append(SubSeq(wal, 1, n), Torn)) = n + 1
        BY <1>1, <2>2, AppendFacts
    <2>4. wal' \in Seq(Record) /\ synced' \in Nat /\ synced' <= Len(wal')
        BY <1>1, <2>1, <2>2, <2>3
    <2> QED
        BY <1>7, <2>4, IncidentFacts, ProcessEndsTypeOK DEF PowerLoss
<1> QED
    BY <1>3, <1>4, <1>5, <1>6, <1>7 DEF Failure

LEMMA RestartTypeOK ==
    ASSUME TypeOK, Restart
    PROVE  TypeOK'
<1>1. PICK n \in 0 .. Len(wal) :
        /\ IsValidPrefix(n)
        /\ wal' = SubSeq(wal, 1, n)
        /\ synced' = Smaller(synced, n)
    BY DEF Restart
<1>2. /\ wal' \in Seq(Record) /\ Len(wal') = n /\ n \in Nat
    BY <1>1, PrefixFacts, LenProperties DEF TypeOK
<1>3. synced' \in Nat /\ synced' <= n
    BY <1>1, <1>2 DEF Smaller, TypeOK
<1>4. catalog' \in [Key -> Seq(VersionRecord)]
    BY EmptySeq DEF Restart
<1> QED
    BY <1>2, <1>3, <1>4 DEF Restart, TypeOK, Stages, txnVars, readVars

LEMMA ReplayTypeOK ==
    ASSUME TypeOK, ReplayStep
    PROVE  TypeOK'
<1>1. wal \in Seq(Record) /\ Len(wal) \in Nat
    BY LenProperties DEF TypeOK
<1>2. CASE ReplayRedo
    <2> DEFINE rec == wal[scan]
    <2>1. rec \in Record
        BY <1>1, <1>2, ElementOfSeq DEF ReplayRedo, TypeOK
    <2>2. rec.key \in Key /\ rec.writer \in Txn /\ rec.commit_ts \in Nat
        BY <1>2, <2>1 DEF ReplayRedo, Record, Torn
    <2>3. catalog' = IF IsCommittedId(rec.txn_id)
                     THEN [catalog EXCEPT ![rec.key] =
                             InstallVersion(@, NewVersion(rec.commit_ts,
                                                rec.writer,
                                                rec.type = "REDO_DEL"))]
                     ELSE catalog
        BY <1>2 DEF ReplayRedo
    <2>4. catalog' \in [Key -> Seq(VersionRecord)]
        <3> HIDE DEF rec
        <3> DEFINE version == NewVersion(rec.commit_ts, rec.writer,
                                         rec.type = "REDO_DEL")
        <3>1. version \in VersionBy(Txn)
            BY <2>2, NewVersionFacts
        <3> HIDE DEF version
        <3> QED
            BY <2>2, <2>3, <3>1, InstallInCatalog DEF TypeOK, version
    <2> QED
        BY <1>2, <2>4 DEF ReplayRedo, TypeOK, fileVars, counterVars,
                          commitVars, txnVars, readVars
<1>3. CASE ReplayCommit
    <2>1. wal[scan] \in Record
        BY <1>1, <1>3, ElementOfSeq DEF ReplayCommit, TypeOK
    <2>2. wal[scan].commit_ts \in Nat /\ wal[scan].txn_id \in Nat
        BY <1>3, <2>1 DEF ReplayCommit, Record, Torn
    <2>3. next_ts' \in Nat \ {0} /\ next_txn_id' \in Nat \ {0}
        <3>1. \A c \in Nat \ {0}, u \in Nat : Past(c, u) \in Nat \ {0}
            BY DEF Past
        <3> QED
            BY <1>3, <2>2, <3>1 DEF ReplayCommit, TypeOK
    <2> QED
        BY <1>3, <2>3 DEF ReplayCommit, TypeOK, fileVars, commitVars, txnVars,
                          readVars
<1>4. CASE RecoverDone
    BY <1>4 DEF RecoverDone, TypeOK, Stages, fileVars, counterVars, txnVars,
                readVars
<1> QED
    BY <1>2, <1>3, <1>4 DEF ReplayStep

LEMMA NextTypeOK ==
    ASSUME TypeInv, [Next]_vars
    PROVE  TypeOK'
<1>1. CASE Next
    BY <1>1, CallTypeOK, CommitStepTypeOK, FailureTypeOK, RestartTypeOK,
       ReplayTypeOK DEF Next, TypeInv
<1>2. CASE UNCHANGED vars
    BY <1>2 DEF TypeInv, TypeOK, vars, fileVars, counterVars, commitVars,
                txnVars, readVars
<1> QED
    BY <1>1, <1>2

\* An open walk is only disturbed by an install, which lengthens a list, and
\* by the end of the process, which ends it.
LEMMA NextCursorOK ==
    ASSUME TypeInv, [Next]_vars
    PROVE  CursorOK'
<1> USE DEF TypeInv
<1>1. ASSUME UNCHANGED <<cursor, catalog>>, Serving => Serving'
      PROVE  CursorOK'
    BY <1>1 DEF CursorOK
<1>2. ASSUME \A t \in Txn : cursor'[t] = Closed
      PROVE  CursorOK'
    BY <1>2 DEF CursorOK
<1>3. ASSUME NEW t \in Txn, Call(t)
      PROVE  CursorOK'
    <2>1. CASE Begin(t)
        BY <1>1, <2>1 DEF Begin, commitVars, readVars, Serving
    <2>2. CASE Abort(t)
        BY <1>1, <2>2 DEF Abort, commitVars, readVars, Serving
    <2>3. CASE GetWalk(t)
        BY <2>3 DEF GetWalk, CursorOK, TypeOK, commitVars, Serving
    <2>4. CASE CommitReadOnly(t)
        BY <1>1, <2>4 DEF CommitReadOnly, commitVars, readVars, Serving
    <2>5. CASE CommitConflict(t)
        BY <1>1, <2>5 DEF CommitConflict, commitVars, readVars, Serving
    <2>6. CASE CommitStart(t)
        BY <1>1, <2>6 DEF CommitStart, readVars, Serving
    <2>7. ASSUME NEW k \in Key, Put(t, k) \/ Delete(t, k)
          PROVE  CursorOK'
        BY <1>1, <2>7 DEF Put, Delete, commitVars, readVars, Serving
    <2>8. ASSUME NEW k \in Key, GetOpen(t, k)
          PROVE  CursorOK'
        <3>1. Len(catalog[k]) \in Nat
            BY LenProperties DEF TypeOK
        <3> QED
            BY <2>8, <3>1 DEF GetOpen, MayUse, MayCall, CursorOK, TypeOK,
                              commitVars, Serving
    <2> QED
        BY <1>3, <2>1, <2>2, <2>3, <2>4, <2>5, <2>6, <2>7, <2>8 DEF Call
<1>4. CASE CommitStep
    <2>1. ASSUME NEW k \in Key, Install(k)
          PROVE  CursorOK'
        <3> DEFINE version == NewVersion(commit_ts[committer], committer,
                                         write_set[committer][k] = "del")
        <3>1. version \in VersionBy(Txn)
            BY <2>1, EngineAssumption, NewVersionFacts DEF Install, TypeOK
        <3> HIDE DEF version
        <3>2. /\ Len(catalog'[k]) = Len(catalog[k]) + 1
              /\ \A j \in Key : j # k => catalog'[j] = catalog[j]
            BY <2>1, <3>1, InstallInCatalog DEF Install, version
        <3>3. Len(catalog[k]) \in Nat
            BY LenProperties DEF TypeOK
        <3>4. \A j \in Key, n \in Nat :
                n <= Len(catalog[j]) => n <= Len(catalog'[j])
            BY <3>2, <3>3
        <3> QED
            BY <2>1, <3>4
            DEF Install, CursorOK, TypeOK, Serving, readVars
    <2>2. ASSUME NEW k \in Key, AppendRedo(k)
          PROVE  CursorOK'
        BY <1>1, <2>2 DEF AppendRedo, readVars, Serving
    <2>3. CASE AppendCommit
        BY <1>1, <2>3 DEF AppendCommit, readVars, Serving
    <2>4. CASE SyncWal
        BY <1>1, <2>4 DEF SyncWal, readVars, Serving
    <2>5. CASE Ack
        BY <1>1, <2>5 DEF Ack, readVars, Serving
    <2>6. CASE Return
        BY <1>1, <2>6 DEF Return, readVars, Serving
    <2> QED
        BY <1>4, <2>1, <2>2, <2>3, <2>4, <2>5, <2>6 DEF CommitStep
<1>5. CASE Failure
    <2>1. CASE CommitRaises
        BY <1>1, <2>1 DEF CommitRaises, readVars, Serving
    <2>2. CASE ProcessEnds
        BY <1>2, <2>2 DEF ProcessEnds
    <2> QED
        BY <1>5, <2>1, <2>2 DEF Failure, Close, FaultPoint, Kill, PowerLoss
<1>6. CASE Restart
    BY <1>2, <1>6 DEF Restart, CursorOK, Serving, readVars
<1>7. CASE ReplayStep
    BY <1>2, <1>7
    DEF ReplayStep, ReplayRedo, ReplayCommit, RecoverDone, CursorOK, Serving,
        readVars
<1>8. CASE UNCHANGED vars
    BY <1>1, <1>8 DEF vars, commitVars, readVars, Serving
<1> QED
    BY <1>3, <1>4, <1>5, <1>6, <1>7, <1>8 DEF Next

(***************************************************************************)
(* Whatever fails, every field of the engine, of its transactions and of   *)
(* the log holds a value of its type, and a get returns the identity of a  *)
(* transaction or "not found".                                             *)
(***************************************************************************)
THEOREM TypeInvariant == Spec => []TypeInv
<1>1. Init => TypeInv
    BY InitTypeInv
<1>2. TypeInv /\ [Next]_vars => TypeInv'
    BY NextTypeOK, NextCursorOK DEF TypeInv
<1> QED
    BY <1>1, <1>2, PTL DEF Spec

\* In particular the type invariant the run damaged_log checks holds.
THEOREM TypeCorrect == Spec => []TypeOK
<1>1. TypeInv => TypeOK
    BY DEF TypeInv
<1> QED
    BY <1>1, TypeInvariant, PTL

-----------------------------------------------------------------------------
\* Timestamps and transaction ids order the commits of all the processes that
\* ever appended to the log, whatever ended them and whatever was left of it

\* The invariant on the counters

(***************************************************************************)
(* CountersPastLog says nothing of a recovery, which has only counted the  *)
(* COMMIT records it has passed.                                           *)
(***************************************************************************)
CountersPast ==
    stage # "down" => \A i \in 1 .. Len(wal) :
        /\ wal[i].type = "COMMIT"
        /\ stage = "replay" => i < scan
        => wal[i].commit_ts < next_ts /\ wal[i].txn_id < next_txn_id

\* The id of an active transaction is its own, among the active ones and
\* among those the log has a COMMIT of.
IdsOwned ==
    \A t \in Txn : state[t] = "ACTIVE" =>
        /\ Serving
        /\ txn_id[t] < next_txn_id
        /\ \A u \in Txn : state[u] = "ACTIVE" /\ txn_id[u] = txn_id[t] => u = t
        /\ \A i \in 1 .. Len(wal) :
              wal[i].type = "COMMIT" /\ wal[i].txn_id = txn_id[t] =>
                  wal[i].writer = t

\* A commit that is about to append comes after every commit of the log.
CommitterLast ==
    stage = "redo" =>
        /\ state[committer] = "ACTIVE"
        /\ commit_ts[committer] < next_ts
        /\ \A i \in 1 .. Len(wal) :
              wal[i].type = "COMMIT" =>
                  wal[i].commit_ts < commit_ts[committer]

OrderInv == CommitsOrdered /\ CountersPast /\ IdsOwned /\ CommitterLast

LEMMA InvImpliesCountersPastLog == OrderInv => CountersPastLog
    BY DEF OrderInv, CountersPast, CountersPastLog, Serving

LEMMA InitOrderInv == Init => OrderInv
<1> SUFFICES ASSUME Init PROVE OrderInv
    OBVIOUS
<1>1. Len(wal) = 0
    BY DEF Init
<1> QED
    BY <1>1
    DEF Init, OrderInv, CommitsOrdered, CountersPast, IdsOwned, CommitterLast

-----------------------------------------------------------------------------
\* The invariant is inductive

\* The fields of any record of the log, a torn one included.
LEMMA LogTypes ==
    ASSUME TypeOK
    PROVE  /\ Len(wal) \in Nat
           /\ \A i \in 1 .. Len(wal) : /\ wal[i] \in Record
                                       /\ wal[i].commit_ts \in Nat
                                       /\ wal[i].txn_id \in Nat
<1>1. Len(wal) \in Nat /\ \A i \in 1 .. Len(wal) : wal[i] \in Record
    BY LenProperties, ElementOfSeq DEF TypeOK
<1>2. \A rec \in Record : rec.commit_ts \in Nat /\ rec.txn_id \in Nat
    BY DEF Record, Torn
<1> QED
    BY <1>1, <1>2

\* Every COMMIT of the log was there before the step, at the same place.
NoNewCommit ==
    \A i \in 1 .. Len(wal') : wal'[i].type = "COMMIT" =>
        i \in 1 .. Len(wal) /\ wal'[i] = wal[i]

\* Every record was, but for a torn one at the end.
NoNewRecord ==
    \A i \in 1 .. Len(wal') :
        \/ i \in 1 .. Len(wal) /\ wal'[i] = wal[i]
        \/ i = Len(wal') /\ wal'[i].type = "TORN"

LEMMA OrderStays ==
    ASSUME CommitsOrdered, NoNewCommit
    PROVE  CommitsOrdered'
    BY DEF CommitsOrdered, NoNewCommit

(***************************************************************************)
(* A step of a process that appends no COMMIT, moves no counter back and   *)
(* makes no transaction active keeps the invariant, if it lets a commit in *)
(* stage "redo" be.                                                        *)
(***************************************************************************)
LEMMA QuietOrder ==
    ASSUME TypeOK, TypeOK', OrderInv, NoNewCommit,
           stage' # "down" => stage # "down",
           stage' = "replay" <=> stage = "replay",
           stage' = "replay" => scan' = scan,
           UNCHANGED counterVars,
           \A t \in Txn : state'[t] = "ACTIVE" =>
               /\ Serving'
               /\ state[t] = "ACTIVE"
               /\ txn_id'[t] = txn_id[t],
           stage' = "redo" =>
               /\ stage = "redo" /\ committer' = committer
               /\ state'[committer] = state[committer]
               /\ commit_ts'[committer] = commit_ts[committer]
    PROVE  OrderInv'
<1>1. next_ts' = next_ts /\ next_txn_id' = next_txn_id
    BY DEF counterVars
<1>2. CommitsOrdered'
    BY OrderStays DEF OrderInv
<1>3. CountersPast'
    BY <1>1 DEF OrderInv, CountersPast, NoNewCommit
<1>4. IdsOwned'
    BY <1>1 DEF OrderInv, IdsOwned, NoNewCommit
<1>5. CommitterLast'
    BY <1>1 DEF OrderInv, CommitterLast, NoNewCommit
<1> QED
    BY <1>2, <1>3, <1>4, <1>5 DEF OrderInv

LEMMA CallOrderInv ==
    ASSUME TypeInv, TypeOK', OrderInv, NEW t \in Txn, Call(t)
    PROVE  OrderInv'
<1> USE DEF TypeInv
<1>0. /\ UNCHANGED wal /\ NoNewCommit
      /\ Serving \/ GetWalk(t)
      /\ UNCHANGED scan
    BY DEF Call, Begin, Abort, GetWalk, CommitReadOnly, CommitConflict,
           CommitStart, Put, Delete, GetOpen, MayCommit, MayUse, MayCall,
           fileVars, NoNewCommit
<1>1. CASE Begin(t)
    <2>1. /\ Serving /\ state[t] = "UNBORN" /\ t # committer
          /\ state' = [state EXCEPT ![t] = "ACTIVE"]
          /\ txn_id' = [txn_id EXCEPT ![t] = next_txn_id]
          /\ next_txn_id' = next_txn_id + 1
          /\ UNCHANGED <<next_ts, stage, committer, commit_ts>>
        BY <1>1 DEF Begin, MayCall, commitVars
    <2>2. stage # "down" /\ stage # "replay" /\ Serving'
        BY <2>1 DEF Serving
    <2>3. next_txn_id \in Nat /\ \A u \in Txn : txn_id[u] \in Nat
        BY DEF TypeOK
    <2>4. /\ \A u \in Txn \ {t} : state'[u] = state[u] /\ txn_id'[u] = txn_id[u]
          /\ state'[t] = "ACTIVE" /\ txn_id'[t] = next_txn_id
        BY <2>1 DEF TypeOK
    <2>5. \A i \in 1 .. Len(wal) : wal[i].type = "COMMIT" =>
              /\ wal[i].commit_ts < next_ts
              /\ wal[i].txn_id < next_txn_id /\ wal[i].txn_id \in Nat
        BY <2>2, LogTypes DEF OrderInv, CountersPast
    <2>6. CommitsOrdered'
        BY <1>0, OrderStays DEF OrderInv
    <2>7. CountersPast'
        BY <1>0, <2>1, <2>3, <2>5 DEF CountersPast
    <2>8. IdsOwned'
        <3> SUFFICES ASSUME NEW u \in Txn, state'[u] = "ACTIVE"
                     PROVE  /\ Serving'
                            /\ txn_id'[u] < next_txn_id'
                            /\ \A w \in Txn : state'[w] = "ACTIVE"
                                  /\ txn_id'[w] = txn_id'[u] => w = u
                            /\ \A i \in 1 .. Len(wal') :
                                  wal'[i].type = "COMMIT"
                                  /\ wal'[i].txn_id = txn_id'[u] =>
                                      wal'[i].writer = u
            BY DEF IdsOwned
        <3>1. \A w \in Txn \ {t} : state'[w] = "ACTIVE" => txn_id'[w] < next_txn_id
            BY <2>4 DEF OrderInv, IdsOwned
        <3>2. CASE u = t
            BY <1>0, <2>1, <2>2, <2>3, <2>4, <2>5, <3>1, <3>2
        <3>3. CASE u # t
            BY <1>0, <2>1, <2>2, <2>3, <2>4, <3>1, <3>3 DEF OrderInv, IdsOwned
        <3> QED
            BY <3>2, <3>3
    <2>9. CommitterLast'
        <3>1. stage = "redo" => committer \in Txn \ {t}
            BY <2>1, EngineAssumption DEF TypeOK
        <3> QED
            BY <1>0, <2>1, <2>4, <3>1 DEF OrderInv, CommitterLast
    <2> QED
        BY <2>6, <2>7, <2>8, <2>9 DEF OrderInv
<1>2. CASE CommitStart(t)
    <2>1. /\ stage = "idle" /\ stage' = "redo" /\ committer' = t
          /\ state[t] = "ACTIVE"
          /\ commit_ts' = [commit_ts EXCEPT ![t] = next_ts]
          /\ next_ts' = next_ts + 1
          /\ UNCHANGED <<next_txn_id, state, txn_id>>
        BY <1>2 DEF CommitStart, MayCommit, MayUse
    <2>2. next_ts \in Nat /\ commit_ts'[t] = next_ts
        BY <2>1 DEF TypeOK
    <2>3. \A i \in 1 .. Len(wal) : wal[i].type = "COMMIT" =>
              /\ wal[i].commit_ts < next_ts /\ wal[i].commit_ts \in Nat
              /\ wal[i].txn_id < next_txn_id
        BY <2>1, LogTypes DEF OrderInv, CountersPast
    <2>4. CommitsOrdered'
        BY <1>0, OrderStays DEF OrderInv
    <2>5. CountersPast'
        BY <1>0, <2>1, <2>2, <2>3 DEF CountersPast
    <2>6. IdsOwned'
        BY <1>0, <2>1 DEF OrderInv, IdsOwned, Serving
    <2>7. CommitterLast'
        BY <1>0, <2>1, <2>2, <2>3 DEF CommitterLast
    <2> QED
        BY <2>4, <2>5, <2>6, <2>7 DEF OrderInv
<1>3. CASE ~ Begin(t) /\ ~ CommitStart(t)
    <2>1. UNCHANGED <<counterVars, stage, committer, txn_id, commit_ts>>
        BY <1>3 DEF Call, Abort, GetWalk, CommitReadOnly, CommitConflict, Put,
                    Delete, GetOpen, commitVars, txnVars
    <2>2. \/ UNCHANGED state
          \/ /\ t # committer
             /\ \E s \in {"ABORTED", "COMMITTED"} :
                   state' = [state EXCEPT ![t] = s]
        BY <1>3 DEF Call, Abort, GetWalk, CommitReadOnly, CommitConflict, Put,
                    Delete, GetOpen, txnVars, MayCommit, MayUse, MayCall
    <2>3. \A u \in Txn : /\ state'[u] = "ACTIVE" => state[u] = "ACTIVE"
                         /\ u = committer => state'[u] = state[u]
        BY <2>2 DEF TypeOK
    <2>4. stage = "redo" => committer \in Txn
        BY EngineAssumption DEF TypeOK
    <2>5. \A u \in Txn : state[u] = "ACTIVE" => Serving'
        BY <2>1 DEF OrderInv, IdsOwned, Serving
    <2> QED
        BY <1>0, <2>1, <2>3, <2>4, <2>5, QuietOrder
<1> QED
    BY <1>1, <1>2, <1>3

\* The COMMIT record that a commit appends is the latest, and under its id.
LEMMA AppendCommitOrderInv ==
    ASSUME TypeOK, TypeOK', OrderInv, AppendCommit
    PROVE  OrderInv'
<1>1. /\ stage = "redo" /\ stage' = "sync"
      /\ Len(wal) \in Nat
      /\ UNCHANGED <<next_ts, next_txn_id, committer, state, txn_id, commit_ts>>
    BY LenProperties DEF AppendCommit, TypeOK, counterVars, txnVars
<1>2. PICK c \in Txn : c = committer
    BY <1>1, EngineAssumption DEF TypeOK
<1>3. /\ Len(wal') = Len(wal) + 1
      /\ \A i \in 1 .. Len(wal) : wal'[i] = wal[i]
      /\ wal'[Len(wal) + 1] \in {CommitRecord(c), Torn}
    BY <1>2, RecordTypesOK, WalAppendFacts DEF AppendCommit
<1>4. /\ state[c] = "ACTIVE" /\ commit_ts[c] < next_ts
      /\ txn_id[c] < next_txn_id
      /\ \A i \in 1 .. Len(wal) : wal[i].type = "COMMIT" =>
            /\ wal[i].commit_ts < commit_ts[c]
            /\ wal[i].txn_id = txn_id[c] => wal[i].writer = c
    BY <1>1, <1>2 DEF OrderInv, CommitterLast, IdsOwned
<1>5. \A i \in 1 .. Len(wal') : wal'[i].type = "COMMIT" =>
         \/ i \in 1 .. Len(wal) /\ wal'[i] = wal[i]
         \/ /\ i = Len(wal) + 1
            /\ wal'[i].commit_ts = commit_ts[c]
            /\ wal'[i].txn_id = txn_id[c]
            /\ wal'[i].writer = c
    BY <1>1, <1>3 DEF CommitRecord, Torn
<1>6. CommitsOrdered'
    <2> SUFFICES ASSUME NEW i \in 1 .. Len(wal'), NEW j \in 1 .. Len(wal'),
                        i < j, wal'[i].type = "COMMIT", wal'[j].type = "COMMIT"
                 PROVE  /\ wal'[i].commit_ts < wal'[j].commit_ts
                        /\ wal'[i].txn_id = wal'[j].txn_id =>
                              wal'[i].writer = wal'[j].writer
        BY DEF CommitsOrdered
    <2>1. i \in 1 .. Len(wal)
        BY <1>1, <1>3
    <2> QED
        BY <1>1, <1>3, <1>4, <1>5, <2>1 DEF OrderInv, CommitsOrdered
<1>7. CountersPast'
    BY <1>1, <1>4, <1>5 DEF OrderInv, CountersPast
<1>8. IdsOwned'
    <2> SUFFICES ASSUME NEW u \in Txn, state'[u] = "ACTIVE"
                 PROVE  /\ Serving'
                        /\ txn_id'[u] < next_txn_id'
                        /\ \A w \in Txn : state'[w] = "ACTIVE"
                              /\ txn_id'[w] = txn_id'[u] => w = u
                        /\ \A i \in 1 .. Len(wal') :
                              wal'[i].type = "COMMIT"
                              /\ wal'[i].txn_id = txn_id'[u] =>
                                  wal'[i].writer = u
        BY DEF IdsOwned
    <2>1. /\ Serving' /\ txn_id'[u] < next_txn_id'
          /\ \A w \in Txn : state'[w] = "ACTIVE"
                /\ txn_id'[w] = txn_id'[u] => w = u
        BY <1>1 DEF OrderInv, IdsOwned, Serving
    <2>2. txn_id[u] = txn_id[c] => u = c
        BY <1>1, <1>4 DEF OrderInv, IdsOwned
    <2> QED
        BY <1>1, <1>5, <2>1, <2>2 DEF OrderInv, IdsOwned
<1>9. CommitterLast'
    BY <1>1 DEF CommitterLast
<1> QED
    BY <1>6, <1>7, <1>8, <1>9 DEF OrderInv

LEMMA CommitStepOrderInv ==
    ASSUME TypeOK, TypeOK', OrderInv, CommitStep
    PROVE  OrderInv'
<1>1. /\ stage \in {"redo", "sync", "install", "ack"}
      /\ committer \in Txn /\ Len(wal) \in Nat
      /\ UNCHANGED <<counterVars, txn_id, commit_ts>>
    BY EngineAssumption, LenProperties
    DEF CommitStep, AppendRedo, Install, AppendCommit, SyncWal, Ack, Return,
        TypeOK, txnVars
<1>2. CASE AppendCommit
    BY <1>2, AppendCommitOrderInv
<1>3. ASSUME NEW k \in Key, AppendRedo(k)
      PROVE  OrderInv'
    <2>1. /\ stage = "redo"
          /\ UNCHANGED <<stage, committer, state>>
        BY <1>3 DEF AppendRedo, txnVars
    <2>2. /\ RedoRecord(committer, k) \in Record
          /\ RedoRecord(committer, k).type # "COMMIT"
          /\ WalAppend(RedoRecord(committer, k))
        BY <1>1, <1>3, RecordTypesOK DEF AppendRedo, RedoRecord
    <2>3. NoNewCommit
        <3>1. /\ Len(wal') = Len(wal) + 1
              /\ \A i \in 1 .. Len(wal) : wal'[i] = wal[i]
              /\ wal'[Len(wal) + 1] \in {RedoRecord(committer, k), Torn}
            BY <2>2, WalAppendFacts
        <3> QED
            BY <1>1, <2>2, <3>1 DEF NoNewCommit, Torn
    <2>4. Serving'
        BY <2>1 DEF Serving
    <2> QED
        BY <1>1, <2>1, <2>3, <2>4, QuietOrder
<1>4. CASE (\E k \in Key : Install(k)) \/ SyncWal \/ Ack \/ Return
    <2>1. /\ UNCHANGED wal /\ NoNewCommit
          /\ stage' \in {"install", "ack", "idle"} /\ Serving'
          /\ \/ UNCHANGED state
             \/ state' = [state EXCEPT ![committer] = "COMMITTED"]
        BY <1>4 DEF Install, SyncWal, Ack, Return, fileVars, txnVars,
                    NoNewCommit, Serving
    <2>2. \A u \in Txn : state'[u] = "ACTIVE" => state[u] = "ACTIVE"
        BY <2>1 DEF TypeOK
    <2> QED
        BY <1>1, <2>1, <2>2, QuietOrder
<1> QED
    BY <1>2, <1>3, <1>4 DEF CommitStep

\* However a process ends, the log loses an end of it and gains at most a
\* torn record.
LEMMA EndNoNewRecord ==
    ASSUME TypeOK, Close \/ FaultPoint \/ Kill \/ PowerLoss
    PROVE  NoNewRecord
<1>1. /\ Len(wal) \in Nat /\ wal \in Seq(Record) /\ Torn \in Record
      /\ synced \in Nat
    BY LenProperties DEF TypeOK, Torn, Record
<1>2. PICK n \in 0 .. Len(wal) :
        wal' \in {wal, SubSeq(wal, 1, n), Append(SubSeq(wal, 1, n), Torn),
                  Append(wal, Torn)}
    <2>1. CASE Close \/ FaultPoint \/ Kill
        <3>1. wal' \in {wal, Append(wal, Torn)}
            BY <2>1 DEF Close, FaultPoint, Kill, fileVars
        <3> QED
            BY <1>1, <3>1
    <2>2. CASE PowerLoss
        <3>1. PICK n \in synced .. Len(wal) :
                wal' \in {SubSeq(wal, 1, n), Append(SubSeq(wal, 1, n), Torn)}
            BY <2>2 DEF PowerLoss
        <3> QED
            BY <1>1, <3>1
    <2> QED
        BY <2>1, <2>2
<1>3. /\ SubSeq(wal, 1, n) \in Seq(Record)
      /\ Len(SubSeq(wal, 1, n)) = n
      /\ \A i \in 1 .. n : SubSeq(wal, 1, n)[i] = wal[i]
    BY <1>1, PrefixFacts
<1>4. ASSUME NEW s \in Seq(Record), Len(s) \in 0 .. Len(wal),
             \A i \in 1 .. Len(s) : s[i] = wal[i],
             wal' = s \/ wal' = Append(s, Torn)
      PROVE  NoNewRecord
    <2>1. CASE wal' = s
        BY <1>1, <1>4, <2>1 DEF NoNewRecord
    <2>2. CASE wal' = Append(s, Torn)
        <3>1. /\ Len(wal') = Len(s) + 1 /\ wal'[Len(s) + 1] = Torn
              /\ \A i \in 1 .. Len(s) : wal'[i] = s[i]
            BY <1>1, <2>2, AppendFacts
        <3> QED
            BY <1>1, <1>4, <3>1 DEF NoNewRecord, Torn
    <2> QED
        BY <1>4, <2>1, <2>2
<1>5. CASE wal' = wal \/ wal' = Append(wal, Torn)
    BY <1>1, <1>4, <1>5
<1>6. CASE wal' = SubSeq(wal, 1, n) \/ wal' = Append(SubSeq(wal, 1, n), Torn)
    <2> DEFINE s == SubSeq(wal, 1, n)
    <2>1. s \in Seq(Record) /\ Len(s) = n /\ \A i \in 1 .. Len(s) : s[i] = wal[i]
        BY <1>3
    <2>2. wal' = s \/ wal' = Append(s, Torn)
        BY <1>6
    <2> HIDE DEF s
    <2> QED
        BY <1>4, <2>1, <2>2
<1> QED
    BY <1>2, <1>5, <1>6

\* A recovery truncates the log.
LEMMA RestartNoNewRecord ==
    ASSUME TypeOK, Restart
    PROVE  NoNewRecord
<1>1. PICK n \in 0 .. Len(wal) : wal' = SubSeq(wal, 1, n)
    BY DEF Restart
<1>2. Len(wal') = n /\ \A i \in 1 .. n : wal'[i] = wal[i]
    BY <1>1, PrefixFacts DEF TypeOK
<1>3. Len(wal) \in Nat
    BY LenProperties DEF TypeOK
<1> QED
    BY <1>2, <1>3 DEF NoNewRecord

LEMMA FailureOrderInv ==
    ASSUME TypeOK, TypeOK', OrderInv, Failure
    PROVE  OrderInv'
<1>1. CASE CommitRaises
    <2>1. /\ stage \in {"redo", "sync"} /\ stage' = "idle" /\ Serving'
          /\ UNCHANGED <<wal, counterVars, state, txn_id, commit_ts>>
          /\ NoNewCommit
        BY <1>1 DEF CommitRaises, fileVars, txnVars, NoNewCommit, Serving
    <2> QED
        BY <2>1, QuietOrder
<1>2. CASE Close \/ FaultPoint \/ Kill \/ PowerLoss
    <2>1. stage' = "down" /\ \A u \in Txn : state'[u] # "ACTIVE"
        BY <1>2 DEF Close, FaultPoint, Kill, PowerLoss, ProcessEnds
    <2>2. CommitsOrdered'
        BY <1>2, EndNoNewRecord, OrderStays DEF OrderInv, NoNewRecord, NoNewCommit
    <2> QED
        BY <2>1, <2>2 DEF OrderInv, CountersPast, IdsOwned, CommitterLast
<1> QED
    BY <1>1, <1>2 DEF Failure

LEMMA RestartOrderInv ==
    ASSUME TypeOK, TypeOK', OrderInv, Restart
    PROVE  OrderInv'
<1>1. /\ stage = "down" /\ stage' = "replay" /\ scan' = 1
      /\ state' = state
    BY DEF Restart, txnVars
<1>4. NoNewCommit
    BY RestartNoNewRecord DEF NoNewRecord, NoNewCommit
<1>5. CommitsOrdered'
    BY <1>4, OrderStays DEF OrderInv
<1>6. \A u \in Txn : state'[u] # "ACTIVE"
    BY <1>1 DEF OrderInv, IdsOwned, Serving
<1>7. CountersPast'
    BY <1>1 DEF CountersPast
<1> QED
    BY <1>1, <1>5, <1>6, <1>7 DEF OrderInv, IdsOwned, CommitterLast

\* A recovery counts the COMMIT records one after the other.
LEMMA ReplayOrderInv ==
    ASSUME TypeOK, TypeOK', OrderInv, ReplayStep
    PROVE  OrderInv'
<1>1. /\ stage = "replay" /\ stage' \in {"replay", "idle"}
      /\ UNCHANGED <<wal, state>>
      /\ scan \in Nat /\ Len(wal) \in Nat /\ next_ts \in Nat
      /\ next_txn_id \in Nat
    BY LenProperties
    DEF ReplayStep, ReplayRedo, ReplayCommit, RecoverDone, TypeOK, fileVars,
        commitVars, txnVars
<1>2. CommitsOrdered' /\ IdsOwned' /\ CommitterLast'
    BY <1>1
    DEF OrderInv, CommitsOrdered, IdsOwned, CommitterLast, Serving
<1>3. CountersPast'
    <2>1. CASE ReplayRedo
        <3>1. /\ wal[scan].type # "COMMIT" /\ scan' = scan + 1
              /\ stage' = "replay" /\ UNCHANGED <<next_ts, next_txn_id>>
            BY <1>1, <2>1 DEF ReplayRedo, commitVars, counterVars
        <3>2. \A i \in 1 .. Len(wal) :
                 wal[i].type = "COMMIT" /\ i < scan + 1 => i < scan
            BY <1>1, <3>1
        <3> QED
            BY <1>1, <3>1, <3>2 DEF OrderInv, CountersPast
    <2>2. CASE ReplayCommit
        <3>1. /\ wal[scan].type = "COMMIT" /\ scan' = scan + 1
              /\ scan \in 1 .. Len(wal) /\ stage' = "replay"
              /\ next_ts' = Past(next_ts, wal[scan].commit_ts)
              /\ next_txn_id' = Past(next_txn_id, wal[scan].txn_id)
            BY <1>1, <2>2 DEF ReplayCommit, commitVars, TypeOK
        <3>2. \A i \in 1 .. Len(wal) :
                 wal[i].commit_ts \in Nat /\ wal[i].txn_id \in Nat
            BY LogTypes
        <3>3. \A c, u \in Nat : /\ Past(c, u) > u /\ Past(c, u) >= c
                                /\ Past(c, u) \in Nat
            BY DEF Past
        <3>4. /\ wal[scan].commit_ts < next_ts' /\ next_ts <= next_ts'
              /\ wal[scan].txn_id < next_txn_id' /\ next_txn_id <= next_txn_id'
              /\ next_ts' \in Nat /\ next_txn_id' \in Nat
            BY <1>1, <3>1, <3>2, <3>3
        <3> SUFFICES ASSUME NEW i \in 1 .. Len(wal), wal[i].type = "COMMIT",
                            i < scan + 1
                     PROVE  wal[i].commit_ts < next_ts'
                            /\ wal[i].txn_id < next_txn_id'
            BY <1>1, <3>1 DEF CountersPast
        <3>5. CASE i = scan
            BY <3>4, <3>5
        <3>6. CASE i # scan
            <4>1. i < scan
                BY <1>1, <3>6
            <4>2. wal[i].commit_ts < next_ts /\ wal[i].txn_id < next_txn_id
                BY <1>1, <4>1 DEF OrderInv, CountersPast
            <4> QED
                BY <1>1, <3>2, <3>4, <4>2
        <3> QED
            BY <3>5, <3>6
    <2>3. CASE RecoverDone
        BY <1>1, <2>3
        DEF RecoverDone, counterVars, OrderInv, CountersPast
    <2> QED
        BY <2>1, <2>2, <2>3 DEF ReplayStep
<1> QED
    BY <1>2, <1>3 DEF OrderInv

LEMMA NextOrderInv ==
    ASSUME TypeInv, TypeInv', OrderInv, [Next]_vars
    PROVE  OrderInv'
<1> USE DEF TypeInv
<1>1. CASE UNCHANGED vars
    <2>1. /\ UNCHANGED <<wal, stage, scan, counterVars, state, txn_id,
                         committer, commit_ts>>
          /\ NoNewCommit /\ Serving' = Serving
        BY <1>1 DEF vars, fileVars, commitVars, txnVars, NoNewCommit, Serving
    <2>2. \A t \in Txn : state[t] = "ACTIVE" => Serving'
        BY <2>1 DEF OrderInv, IdsOwned
    <2> QED
        BY <2>1, <2>2, QuietOrder
<1> QED
    BY <1>1, CallOrderInv, CommitStepOrderInv, FailureOrderInv,
       RestartOrderInv, ReplayOrderInv DEF Next

\* The counters, the ids of the active transactions and the COMMIT records go
\* together after every step, also of a recovery.
THEOREM OrderInvariant == Spec => []OrderInv
<1>1. Init => OrderInv
    BY InitOrderInv
<1>2. TypeInv /\ TypeInv' /\ OrderInv /\ [Next]_vars => OrderInv'
    BY NextOrderInv
<1> QED
    BY <1>1, <1>2, TypeInvariant, PTL DEF Spec

(***************************************************************************)
(* Whatever failed, including appends that were cut short and commits that *)
(* raised and were tried again: of two COMMIT records in the log the later *)
(* one has the greater timestamp, and two that share a transaction id are  *)
(* of the same transaction, whichever processes wrote them.                *)
(***************************************************************************)
THEOREM CommitsAreOrdered == Spec => []CommitsOrdered
<1>1. OrderInv => CommitsOrdered
    BY DEF OrderInv
<1> QED
    BY <1>1, OrderInvariant, PTL

(***************************************************************************)
(* A serving engine hands out only timestamps and ids that are past every  *)
(* COMMIT of its log, those its recovery read and those it wrote.          *)
(***************************************************************************)
THEOREM CountersArePastLog == Spec => []CountersPastLog
<1>1. OrderInv => CountersPastLog
    BY InvImpliesCountersPastLog
<1> QED
    BY <1>1, OrderInvariant, PTL

-----------------------------------------------------------------------------
\* The catalog's lists are in commit order

(***************************************************************************)
(* No append and no sync raises.  (A commit that raised has used up a      *)
(* timestamp: after a crash the counter is set back below what its redo    *)
(* records carry, and they may be replayed under the id of a later one.)   *)
(***************************************************************************)
NoErrors == "raise" \notin Incidents

\* No torn record is among the first n.
Whole(n) == \A i \in 1 .. n : wal[i].type # "TORN"

\* The timestamp of the commit that appends now, or would.
Turn == IF stage = "redo" THEN commit_ts[committer] ELSE next_ts

\* Timestamps never decrease in what a recovery will read of the log, and a
\* commit takes the one that follows the last commit.
LogOrdered ==
    \A j \in 1 .. Len(wal) : Whole(j) =>
        /\ \A i \in 1 .. j : wal[i].commit_ts <= wal[j].commit_ts
        /\ \/ wal[j].commit_ts = 1
           \/ \E i \in 1 .. j : /\ wal[i].type = "COMMIT"
                                /\ wal[i].commit_ts + 1 = wal[j].commit_ts

\* The next commit takes the timestamp after the last one the log has, or
\* the recovery has seen.
TurnFollows ==
    /\ stage = "replay" => Whole(Len(wal))
    /\ stage # "down" /\ Whole(Len(wal)) =>
         \/ Turn = 1
         \/ \E i \in 1 .. Len(wal) :
               /\ wal[i].type = "COMMIT"
               /\ wal[i].commit_ts + 1 = Turn
               /\ stage = "replay" => i < scan
    /\ Serving => \A i \in 1 .. Len(wal) : Whole(i) => wal[i].commit_ts <= Turn
    /\ stage \in {"redo", "sync", "install"} =>
         next_ts = commit_ts[committer] + 1

\* No version in the catalog is later than what is installed next.
CatalogBehind ==
    \A k \in Key : \A i \in 1 .. Len(catalog[k]) :
        /\ stage # "down"
        /\ Serving => catalog[k][i].begin_ts <= next_ts
        /\ stage \in {"redo", "sync", "install"} =>
             catalog[k][i].begin_ts <= commit_ts[committer]
        /\ stage = "replay" =>
             \E j \in 1 .. Len(wal) :
                /\ j < scan
                /\ wal[j].commit_ts = catalog[k][i].begin_ts

CatalogInOrder == \A k \in Key : InOrder(catalog[k])

CatalogInv == LogOrdered /\ TurnFollows /\ CatalogBehind /\ CatalogInOrder

-----------------------------------------------------------------------------
\* That invariant is inductive, too

LEMMA InitCatalogInv == Init => CatalogInv
<1> SUFFICES ASSUME Init PROVE CatalogInv
    OBVIOUS
<1>1. Len(wal) = 0 /\ \A k \in Key : Len(catalog[k]) = 0
    BY DEF Init
<1>2. stage = "down"
    BY DEF Init
<1> QED
    BY <1>1, <1>2
    DEF CatalogInv, LogOrdered, TurnFollows, CatalogBehind, CatalogInOrder,
        InOrder, Serving

LEMMA InvImpliesCatalogOrdered ==
    ASSUME TypeOK, CatalogInv
    PROVE  CatalogOrdered
<1> SUFFICES ASSUME NEW k \in Key, NEW i \in 1 .. Len(catalog[k])
             PROVE  IF i = Len(catalog[k])
                    THEN catalog[k][i].end_ts = 0
                    ELSE /\ catalog[k][i].end_ts = catalog[k][i + 1].begin_ts
                         /\ catalog[k][i].begin_ts <= catalog[k][i + 1].begin_ts
    BY DEF CatalogOrdered
<1>1. Len(catalog[k]) \in Nat
    BY LenProperties DEF TypeOK
<1>2. InOrder(catalog[k])
    BY DEF CatalogInv, CatalogInOrder
<1>3. i # Len(catalog[k]) => i + 1 \in 1 .. Len(catalog[k]) /\ i <= i + 1
    BY <1>1
<1> QED
    BY <1>2, <1>3 DEF InOrder

LEMMA EmptyIsInOrder == InOrder(<< >>)
    BY DEF InOrder

LEMMA LogOrderedStays ==
    ASSUME TypeOK, TypeOK', LogOrdered, NoNewRecord
    PROVE  LogOrdered'
<1> SUFFICES ASSUME NEW j \in 1 .. Len(wal'), Whole(j)'
             PROVE  /\ \A i \in 1 .. j : wal'[i].commit_ts <= wal'[j].commit_ts
                    /\ \/ wal'[j].commit_ts = 1
                       \/ \E i \in 1 .. j :
                             /\ wal'[i].type = "COMMIT"
                             /\ wal'[i].commit_ts + 1 = wal'[j].commit_ts
    BY DEF LogOrdered
<1>1. Len(wal) \in Nat /\ Len(wal') \in Nat
    BY LenProperties DEF TypeOK
<1>2. \A i \in 1 .. j : i \in 1 .. Len(wal) /\ wal'[i] = wal[i]
    BY <1>1 DEF Whole, NoNewRecord
<1>3. j \in 1 .. Len(wal) /\ Whole(j)
    BY <1>2 DEF Whole
<1> QED
    BY <1>2, <1>3 DEF LogOrdered

\* A step of a serving process that touches neither the log nor the catalog,
\* and no timestamp.
LEMMA QuietCatalog ==
    ASSUME CatalogInv, UNCHANGED <<wal, catalog, next_ts>>, Serving, Serving',
           stage' = "redo" <=> stage = "redo",
           stage' \in {"redo", "sync", "install"} =>
               /\ stage \in {"redo", "sync", "install"}
               /\ committer' = committer
               /\ commit_ts'[committer] = commit_ts[committer]
    PROVE  CatalogInv'
<1>1. Turn' = Turn
    BY DEF Turn
<1>2. LogOrdered'
    BY DEF CatalogInv, LogOrdered, Whole
<1>3. TurnFollows'
    BY <1>1 DEF CatalogInv, TurnFollows, Whole, Serving
<1>4. CatalogBehind'
    BY DEF CatalogInv, CatalogBehind, Serving
<1>5. CatalogInOrder'
    BY DEF CatalogInv, CatalogInOrder
<1> QED
    BY <1>2, <1>3, <1>4, <1>5 DEF CatalogInv

LEMMA CallCatalogInv ==
    ASSUME TypeInv, CatalogInv, NEW t \in Txn, Call(t)
    PROVE  CatalogInv'
<1> USE DEF TypeInv
<1>1. UNCHANGED <<wal, catalog>> /\ Serving
    BY DEF Call, Begin, Abort, GetWalk, CommitReadOnly, CommitConflict,
           CommitStart, Put, Delete, GetOpen, MayCommit, MayUse, MayCall,
           CursorOK, fileVars
<1>2. CASE CommitStart(t)
    <2>1. /\ stage = "idle" /\ stage' = "redo" /\ committer' = t
          /\ commit_ts'[t] = next_ts /\ next_ts' = next_ts + 1
          /\ next_ts \in Nat
        BY <1>2 DEF CommitStart, MayCommit, TypeOK
    <2>2. Turn = next_ts /\ Turn' = next_ts
        BY <2>1 DEF Turn
    <2>3. LogOrdered' /\ CatalogInOrder'
        BY <1>1 DEF CatalogInv, LogOrdered, Whole, CatalogInOrder
    <2>4. TurnFollows'
        BY <1>1, <2>1, <2>2 DEF CatalogInv, TurnFollows, Whole, Serving
    <2>5. CatalogBehind'
        <3> SUFFICES ASSUME NEW k \in Key, NEW i \in 1 .. Len(catalog[k])
                     PROVE  /\ catalog[k][i].begin_ts <= next_ts'
                            /\ catalog[k][i].begin_ts <= commit_ts'[t]
            BY <1>1, <2>1 DEF CatalogBehind
        <3>1. catalog[k][i].begin_ts \in Nat
            <4>1. catalog[k][i] \in VersionRecord
                BY DEF TypeOK
            <4> QED
                BY <4>1 DEF VersionRecord
        <3>2. catalog[k][i].begin_ts <= next_ts
            BY <1>1 DEF CatalogInv, CatalogBehind
        <3> QED
            BY <2>1, <3>1, <3>2
    <2> QED
        BY <2>3, <2>4, <2>5 DEF CatalogInv
<1>3. CASE ~ CommitStart(t)
    <2>1. UNCHANGED <<next_ts, stage, committer, commit_ts>>
        BY <1>3
        DEF Call, Begin, Abort, GetWalk, CommitReadOnly, CommitConflict, Put,
            Delete, GetOpen, counterVars, commitVars, txnVars
    <2> QED
        BY <1>1, <2>1, QuietCatalog DEF Serving
<1> QED
    BY <1>2, <1>3

\* What a commit appends carries the latest timestamp, the one after that of
\* the last COMMIT.
LEMMA AppendCatalogInv ==
    ASSUME TypeOK, TypeOK', CatalogInv,
           AppendCommit \/ \E k \in Key : AppendRedo(k)
    PROVE  CatalogInv'
<1>1. /\ stage = "redo" /\ stage' \in {"redo", "sync"}
      /\ AppendCommit => stage' = "sync"
      /\ UNCHANGED <<catalog, next_ts, committer, commit_ts>>
    BY DEF AppendCommit, AppendRedo, txnVars, counterVars
<1>2. PICK c \in Txn : c = committer
    BY <1>1, EngineAssumption DEF TypeOK
<1>3. PICK rec \in Record :
        /\ WalAppend(rec)
        /\ rec.commit_ts = commit_ts[c]
        /\ stage' = "sync" => rec.type = "COMMIT"
    <2>1. CASE AppendCommit
        BY <1>2, <2>1, RecordTypesOK DEF AppendCommit, CommitRecord
    <2>2. ASSUME NEW k \in Key, AppendRedo(k)
          PROVE  /\ WalAppend(RedoRecord(c, k))
                 /\ RedoRecord(c, k) \in Record
                 /\ RedoRecord(c, k).commit_ts = commit_ts[c]
                 /\ stage' = "redo"
        BY <1>1, <1>2, <2>2, RecordTypesOK DEF AppendRedo, RedoRecord
    <2> QED
        BY <2>1, <2>2
<1>0. PICK n \in Nat, ts \in Nat : n = Len(wal) /\ ts = commit_ts[c]
    BY LogTypes DEF TypeOK
<1>4. /\ Len(wal') = n + 1
      /\ \A i \in 1 .. n : wal'[i] = wal[i]
      /\ wal'[n + 1].type = "TORN" \/ wal'[n + 1] = rec
      /\ \A i \in 1 .. n : wal[i].commit_ts \in Nat
    <2>1. wal'[n + 1] \in {rec, Torn}
        BY <1>0, <1>3, WalAppendFacts
    <2>2. \A i \in 1 .. n : wal[i].commit_ts \in Nat
        BY <1>0, LogTypes
    <2> QED
        BY <1>0, <1>3, <2>1, <2>2, WalAppendFacts DEF Torn
<1>5. /\ Turn = ts /\ next_ts = ts + 1
      /\ Turn' = IF stage' = "redo" THEN ts ELSE next_ts
    BY <1>0, <1>1, <1>2 DEF Turn, CatalogInv, TurnFollows
<1>6. /\ \A i \in 1 .. n : Whole(i)' => Whole(i)
      /\ \A i \in 1 .. n + 1 : Whole(i)' /\ i = n + 1 =>
            Whole(n) /\ wal'[i] = rec
    BY <1>4 DEF Whole
<1>7. /\ \A i \in 1 .. n : Whole(i) => wal[i].commit_ts <= ts
      /\ \A i \in 1 .. n : Whole(n) => Whole(i)
      /\ Whole(n) => \/ ts = 1
                     \/ \E i \in 1 .. n : /\ wal[i].type = "COMMIT"
                                          /\ wal[i].commit_ts + 1 = ts
    BY <1>0, <1>1, <1>4, <1>5 DEF CatalogInv, TurnFollows, Serving, Whole
<1>8. LogOrdered'
    <2> SUFFICES ASSUME NEW j \in 1 .. n + 1, Whole(j)'
                 PROVE  /\ \A i \in 1 .. j :
                              wal'[i].commit_ts <= wal'[j].commit_ts
                        /\ \/ wal'[j].commit_ts = 1
                           \/ \E i \in 1 .. j :
                                 /\ wal'[i].type = "COMMIT"
                                 /\ wal'[i].commit_ts + 1 = wal'[j].commit_ts
        BY <1>4 DEF LogOrdered
    <2>1. CASE j \in 1 .. n
        <3>1. Whole(j) /\ \A i \in 1 .. j : i \in 1 .. n
            BY <1>4, <1>6, <2>1
        <3> QED
            BY <1>0, <1>4, <2>1, <3>1 DEF CatalogInv, LogOrdered
    <2>2. CASE j = n + 1
        <3>1. Whole(n) /\ wal'[j].commit_ts = ts
            BY <1>0, <1>3, <1>6, <2>2
        <3>2. \A i \in 1 .. n : wal'[i].commit_ts <= ts
            BY <1>4, <1>7, <3>1
        <3>3. \A i \in 1 .. j : i \in 1 .. n \/ i = j
            BY <1>4, <2>2
        <3>4. \A i \in 1 .. n : i \in 1 .. j
            BY <1>4, <2>2
        <3> QED
            BY <1>4, <1>7, <3>1, <3>2, <3>3, <3>4
    <2> QED
        BY <1>4, <2>1, <2>2
<1>9. TurnFollows'
    <2>0. n + 1 \in 1 .. n + 1
        BY <1>4
    <2>1. ASSUME Whole(n + 1)'
          PROVE  \/ Turn' = 1
                 \/ \E i \in 1 .. n + 1 : /\ wal'[i].type = "COMMIT"
                                          /\ wal'[i].commit_ts + 1 = Turn'
        <3>1. CASE stage' = "redo"
            BY <1>4, <1>5, <1>6, <1>7, <2>0, <2>1, <3>1
        <3>2. CASE stage' = "sync"
            BY <1>0, <1>3, <1>5, <1>6, <2>0, <2>1, <3>2
        <3> QED
            BY <1>1, <3>1, <3>2
    <2>2. ASSUME NEW i \in 1 .. n + 1, Whole(i)'
          PROVE  wal'[i].commit_ts <= Turn'
        <3>1. ts <= Turn' /\ Turn' \in Nat
            BY <1>4, <1>5
        <3>2. CASE i = n + 1
            BY <1>0, <1>3, <1>6, <2>2, <3>1, <3>2
        <3>3. CASE i \in 1 .. n
            <4>1. wal'[i] = wal[i] /\ wal[i].commit_ts <= ts
                  /\ wal[i].commit_ts \in Nat
                BY <1>4, <1>6, <1>7, <2>2, <3>3
            <4> QED
                BY <1>4, <3>1, <4>1
        <3> QED
            BY <1>4, <3>2, <3>3
    <2>3. ASSUME Whole(Len(wal))'
          PROVE  \/ Turn' = 1
                 \/ \E i \in 1 .. Len(wal') : /\ wal'[i].type = "COMMIT"
                                              /\ wal'[i].commit_ts + 1 = Turn'
        <3>1. Whole(n + 1)'
            BY <1>4, <2>3 DEF Whole
        <3> QED
            BY <1>4, <2>1, <3>1
    <2>4. stage' # "replay" /\ next_ts' = commit_ts'[committer'] + 1
        BY <1>0, <1>1, <1>2, <1>5
    <2>5. \A i \in 1 .. Len(wal') : Whole(i)' => wal'[i].commit_ts <= Turn'
        BY <1>4, <2>2
    <2> QED
        BY <2>3, <2>4, <2>5 DEF TurnFollows
<1>10. CatalogBehind' /\ CatalogInOrder'
    BY <1>1 DEF CatalogInv, CatalogBehind, CatalogInOrder, Serving
<1> QED
    BY <1>8, <1>9, <1>10 DEF CatalogInv

LEMMA CatalogTypes ==
    ASSUME TypeOK, NEW k \in Key
    PROVE  /\ catalog[k] \in Versions(Txn) /\ Len(catalog[k]) \in Nat
           /\ \A i \in 1 .. Len(catalog[k]) : catalog[k][i].begin_ts \in Nat
<1>1. catalog[k] \in Versions(Txn)
    BY VersionsAreVersionRecords DEF TypeOK
<1>2. Len(catalog[k]) \in Nat
      /\ \A i \in 1 .. Len(catalog[k]) : catalog[k][i] \in VersionBy(Txn)
    BY <1>1, LenProperties, ElementOfSeq DEF Versions
<1> QED
    BY <1>1, <1>2 DEF VersionBy

(***************************************************************************)
(* A catalog in order stays in order when a version is installed that is   *)
(* not older than those of its key, and gains no version but that one.     *)
(***************************************************************************)
LEMMA InstallKeepsOrder ==
    ASSUME TypeOK, CatalogInOrder, NEW k \in Key,
           NEW version \in VersionBy(Txn), version.end_ts = 0,
           catalog' = [catalog EXCEPT ![k] = InstallVersion(@, version)],
           \A i \in 1 .. Len(catalog[k]) :
               catalog[k][i].begin_ts <= version.begin_ts
    PROVE  /\ CatalogInOrder'
           /\ \A j \in Key : \A i \in 1 .. Len(catalog'[j]) :
                 \/ /\ i \in 1 .. Len(catalog[j])
                    /\ catalog'[j][i].begin_ts = catalog[j][i].begin_ts
                 \/ /\ j = k
                    /\ catalog'[j][i].begin_ts = version.begin_ts
<1>1. \A j \in Key : InOrder(catalog[j])
    BY DEF CatalogInOrder
<1>2. InOrder(InstallVersion(catalog[k], version))
    BY <1>1, CatalogTypes, InstallInOrder
<1>3. /\ catalog'[k] = InstallVersion(catalog[k], version)
      /\ \A j \in Key : j # k => catalog'[j] = catalog[j]
    BY DEF TypeOK
<1>4. CatalogInOrder'
    <2>1. \A j \in Key : InOrder(catalog'[j])
        BY <1>1, <1>2, <1>3
    <2> QED
        BY <2>1 DEF CatalogInOrder
<1>5. /\ Len(catalog'[k]) = Len(catalog[k]) + 1
      /\ catalog'[k][Len(catalog[k]) + 1] = version
      /\ \A i \in 1 .. Len(catalog[k]) :
            catalog'[k][i].begin_ts = catalog[k][i].begin_ts
    BY <1>3, CatalogTypes, InstallFacts
<1>6. Len(catalog[k]) \in Nat
    BY CatalogTypes
<1> QED
    BY <1>3, <1>4, <1>5, <1>6

LEMMA InstallCatalogInv ==
    ASSUME TypeOK, CatalogInv, NEW k \in Key, Install(k)
    PROVE  CatalogInv'
<1>1. /\ stage = "install"
      /\ UNCHANGED <<wal, next_ts, stage, committer, commit_ts, scan>>
    BY DEF Install, fileVars, counterVars, txnVars
<1>2. PICK c \in Txn : c = committer
    BY <1>1, EngineAssumption DEF TypeOK
<1> DEFINE version == NewVersion(commit_ts[c], c, write_set[c][k] = "del")
<1>3. /\ version \in VersionBy(Txn) /\ version.end_ts = 0
      /\ version.begin_ts = commit_ts[c]
    <2>1. version \in VersionBy(Txn)
        BY NewVersionFacts DEF TypeOK
    <2> QED
        BY <2>1 DEF NewVersion
<1>3a. catalog' = [catalog EXCEPT ![k] = InstallVersion(@, version)]
    BY <1>2 DEF Install
<1> HIDE DEF version
<1>4. /\ commit_ts[c] \in Nat /\ next_ts = commit_ts[c] + 1
      /\ \A j \in Key : \A i \in 1 .. Len(catalog[j]) :
            catalog[j][i].begin_ts <= commit_ts[c]
    BY <1>1, <1>2 DEF TypeOK, CatalogInv, TurnFollows, CatalogBehind
<1>5. /\ CatalogInOrder'
      /\ \A j \in Key : \A i \in 1 .. Len(catalog'[j]) :
            \/ /\ i \in 1 .. Len(catalog[j])
               /\ catalog'[j][i].begin_ts = catalog[j][i].begin_ts
            \/ catalog'[j][i].begin_ts = commit_ts[c]
    <2>1. \A i \in 1 .. Len(catalog[k]) :
             catalog[k][i].begin_ts <= version.begin_ts
        BY <1>3, <1>4
    <2>2. CatalogInOrder
        BY DEF CatalogInv
    <2>3. /\ CatalogInOrder'
          /\ \A j \in Key : \A i \in 1 .. Len(catalog'[j]) :
                \/ /\ i \in 1 .. Len(catalog[j])
                   /\ catalog'[j][i].begin_ts = catalog[j][i].begin_ts
                \/ j = k /\ catalog'[j][i].begin_ts = version.begin_ts
        BY <1>3, <1>3a, <2>1, <2>2, InstallKeepsOrder
    <2> QED
        BY <1>3, <2>3
<1>6. CatalogBehind'
    <2> SUFFICES ASSUME NEW j \in Key, NEW i \in 1 .. Len(catalog'[j])
                 PROVE  /\ catalog'[j][i].begin_ts <= next_ts
                        /\ catalog'[j][i].begin_ts <= commit_ts[c]
        BY <1>1, <1>2 DEF CatalogBehind
    <2>1. CASE i \in 1 .. Len(catalog[j])
               /\ catalog'[j][i].begin_ts = catalog[j][i].begin_ts
        BY <1>4, <2>1, CatalogTypes
    <2>2. CASE catalog'[j][i].begin_ts = commit_ts[c]
        BY <1>4, <2>2
    <2> QED
        BY <1>5, <2>1, <2>2
<1>7. Turn' = Turn /\ LogOrdered' /\ TurnFollows'
    BY <1>1 DEF Turn, CatalogInv, LogOrdered, TurnFollows, Whole, Serving
<1> QED
    BY <1>5, <1>6, <1>7 DEF CatalogInv

LEMMA CommitStepCatalogInv ==
    ASSUME TypeOK, TypeOK', CatalogInv, CommitStep
    PROVE  CatalogInv'
<1>1. CASE SyncWal \/ Ack \/ Return
    <2>1. /\ UNCHANGED <<wal, catalog, next_ts, commit_ts>>
          /\ stage \in {"sync", "install", "ack"}
          /\ stage' \in {"install", "ack", "idle"}
          /\ stage' = "install" => stage = "sync" /\ committer' = committer
        BY <1>1 DEF SyncWal, Ack, Return, fileVars, counterVars, txnVars
    <2> QED
        BY <2>1, QuietCatalog DEF Serving
<1> QED
    BY <1>1, AppendCatalogInv, InstallCatalogInv DEF CommitStep

\* A process begins and ends with an empty catalog.
LEMMA EmptyCatalogInv ==
    ASSUME TypeOK, TypeOK', CatalogInv, NoNewRecord,
           catalog' = [k \in Key |-> << >>],
           \/ stage' = "down"
           \/ stage' = "replay" /\ next_ts' = 1 /\ Whole(Len(wal))'
    PROVE  CatalogInv'
<1>1. \A k \in Key : Len(catalog'[k]) = 0 /\ InOrder(catalog'[k])
    BY EmptyIsInOrder
<1>2. LogOrdered'
    BY LogOrderedStays DEF CatalogInv
<1>3. TurnFollows'
    BY DEF TurnFollows, Turn, Serving
<1>4. CatalogBehind' /\ CatalogInOrder'
    BY <1>1 DEF CatalogBehind, CatalogInOrder
<1> QED
    BY <1>2, <1>3, <1>4 DEF CatalogInv

LEMMA RestartCatalogInv ==
    ASSUME TypeOK, TypeOK', CatalogInv, Restart
    PROVE  CatalogInv'
<1>1. PICK n \in 0 .. Len(wal) : IsValidPrefix(n) /\ wal' = SubSeq(wal, 1, n)
    BY DEF Restart
<1>2. Len(wal') = n /\ \A i \in 1 .. n : wal'[i] = wal[i]
    BY <1>1, PrefixFacts DEF TypeOK
<1>3. Whole(Len(wal))'
    BY <1>1, <1>2 DEF IsValidPrefix, Whole
<1> QED
    BY <1>3, RestartNoNewRecord, EmptyCatalogInv DEF Restart

\* A recovery installs versions in the order of the log, which is that of
\* their timestamps, and ends with the next timestamp past them.
LEMMA ReplayCatalogInv ==
    ASSUME TypeOK, TypeOK', OrderInv, CatalogInv, ReplayStep
    PROVE  CatalogInv'
<1>1. /\ stage = "replay" /\ UNCHANGED wal
      /\ scan \in Nat \ {0} /\ Len(wal) \in Nat /\ next_ts \in Nat \ {0}
      /\ Whole(Len(wal)) /\ \A i \in 1 .. Len(wal) : Whole(i)
      /\ \A i \in 1 .. Len(wal) : wal[i].commit_ts \in Nat
      /\ Turn = next_ts
    <2>1. stage = "replay" /\ UNCHANGED wal
        BY DEF ReplayStep, ReplayRedo, ReplayCommit, RecoverDone, fileVars
    <2>2. /\ scan \in Nat \ {0} /\ Len(wal) \in Nat /\ next_ts \in Nat \ {0}
          /\ \A i \in 1 .. Len(wal) : wal[i].commit_ts \in Nat
        BY LogTypes DEF TypeOK
    <2>3. Whole(Len(wal))
        BY <2>1 DEF CatalogInv, TurnFollows
    <2> QED
        BY <2>1, <2>2, <2>3 DEF Whole, Turn
<1>2. LogOrdered'
    BY <1>1 DEF CatalogInv, LogOrdered, Whole
<1>3. CASE ReplayRedo
    <2> DEFINE rec == wal[scan]
    <2>1. /\ scan \in 1 .. Len(wal) /\ scan' = scan + 1 /\ stage' = "replay"
          /\ rec \in Record /\ rec.type \in {"REDO_PUT", "REDO_DEL"}
          /\ next_ts' = next_ts
        BY <1>1, <1>3, LogTypes
        DEF ReplayRedo, commitVars, counterVars
    <2>2. TurnFollows'
        BY <1>1, <2>1 DEF CatalogInv, TurnFollows, Whole, Turn, Serving
    <2>3. \A k \in Key : \A i \in 1 .. Len(catalog[k]) :
             /\ catalog[k][i].begin_ts <= rec.commit_ts
             /\ \E j \in 1 .. Len(wal) :
                   j < scan + 1 /\ wal[j].commit_ts = catalog[k][i].begin_ts
        <3> SUFFICES ASSUME NEW k \in Key, NEW i \in 1 .. Len(catalog[k])
                     PROVE  /\ catalog[k][i].begin_ts <= rec.commit_ts
                            /\ \E j \in 1 .. Len(wal) : j < scan + 1
                                 /\ wal[j].commit_ts = catalog[k][i].begin_ts
            OBVIOUS
        <3>1. PICK j \in 1 .. Len(wal) :
                j < scan /\ wal[j].commit_ts = catalog[k][i].begin_ts
            BY <1>1 DEF CatalogInv, CatalogBehind
        <3>2. j \in 1 .. scan
            BY <1>1, <3>1
        <3>3. wal[j].commit_ts <= rec.commit_ts
            BY <1>1, <2>1, <3>2 DEF CatalogInv, LogOrdered
        <3> QED
            BY <1>1, <3>1, <3>3
    <2>4. CASE ~ IsCommittedId(rec.txn_id)
        <3>1. catalog' = catalog
            BY <1>3, <2>4 DEF ReplayRedo
        <3>2. CatalogBehind' /\ CatalogInOrder'
            BY <1>1, <2>1, <2>3, <3>1
            DEF CatalogInv, CatalogBehind, CatalogInOrder, Serving
        <3> QED
            BY <1>2, <2>2, <3>2 DEF CatalogInv
    <2>5. CASE IsCommittedId(rec.txn_id)
        <3> DEFINE version == NewVersion(rec.commit_ts, rec.writer,
                                         rec.type = "REDO_DEL")
        <3>1. rec.key \in Key /\ rec.writer \in Txn /\ rec.commit_ts \in Nat
            BY <2>1 DEF Record, Torn
        <3>2. /\ version \in VersionBy(Txn) /\ version.end_ts = 0
              /\ version.begin_ts = rec.commit_ts
            <4>1. version \in VersionBy(Txn)
                BY <3>1, NewVersionFacts
            <4> QED
                BY <4>1 DEF NewVersion
        <3>2a. catalog' = [catalog EXCEPT ![rec.key] =
                             InstallVersion(@, version)]
            BY <1>3, <2>5 DEF ReplayRedo
        <3>2b. \A i \in 1 .. Len(catalog[rec.key]) :
                  catalog[rec.key][i].begin_ts <= version.begin_ts
            BY <2>3, <3>1, <3>2
        <3> HIDE DEF version, rec
        <3>3. /\ CatalogInOrder'
              /\ \A k \in Key : \A i \in 1 .. Len(catalog'[k]) :
                    \/ /\ i \in 1 .. Len(catalog[k])
                       /\ catalog'[k][i].begin_ts = catalog[k][i].begin_ts
                    \/ catalog'[k][i].begin_ts = rec.commit_ts
            <4>1. CatalogInOrder
                BY DEF CatalogInv
            <4>2. /\ CatalogInOrder'
                  /\ \A k \in Key : \A i \in 1 .. Len(catalog'[k]) :
                        \/ /\ i \in 1 .. Len(catalog[k])
                           /\ catalog'[k][i].begin_ts = catalog[k][i].begin_ts
                        \/ /\ k = rec.key
                           /\ catalog'[k][i].begin_ts = version.begin_ts
                BY <3>1, <3>2, <3>2a, <3>2b, <4>1, InstallKeepsOrder
            <4> QED
                BY <3>2, <4>2
        <3>4. CatalogBehind'
            <4> SUFFICES ASSUME NEW k \in Key, NEW i \in 1 .. Len(catalog'[k])
                         PROVE  \E j \in 1 .. Len(wal) : j < scan + 1
                                  /\ wal[j].commit_ts = catalog'[k][i].begin_ts
                BY <1>1, <2>1 DEF CatalogBehind, Serving
            <4>1. scan < scan + 1
                BY <1>1
            <4> QED
                BY <2>1, <2>3, <3>3, <4>1 DEF rec
        <3> QED
            BY <1>2, <2>2, <3>3, <3>4 DEF CatalogInv
    <2> QED
        BY <2>4, <2>5
<1>4. CASE ReplayCommit
    <2>1. /\ scan \in 1 .. Len(wal) /\ scan' = scan + 1 /\ stage' = "replay"
          /\ wal[scan].type = "COMMIT" /\ catalog' = catalog
          /\ next_ts' = Past(next_ts, wal[scan].commit_ts)
        BY <1>1, <1>4 DEF ReplayCommit, commitVars
    <2>2. \/ next_ts' = next_ts
          \/ next_ts' = wal[scan].commit_ts + 1
        BY <2>1 DEF Past
    <2>3. \/ next_ts' = 1
          \/ \E i \in 1 .. Len(wal) :
                /\ wal[i].type = "COMMIT"
                /\ wal[i].commit_ts + 1 = next_ts'
                /\ i < scan + 1
        <3>1. CASE next_ts' = next_ts
            BY <1>1, <3>1 DEF CatalogInv, TurnFollows
        <3>2. CASE next_ts' = wal[scan].commit_ts + 1
            <4>1. scan < scan + 1
                BY <1>1
            <4> QED
                BY <2>1, <3>2, <4>1
        <3> QED
            BY <2>2, <3>1, <3>2
    <2>4. TurnFollows'
        BY <1>1, <2>1, <2>3 DEF TurnFollows, Whole, Turn, Serving
    <2>5. CatalogBehind' /\ CatalogInOrder'
        BY <1>1, <2>1 DEF CatalogInv, CatalogBehind, CatalogInOrder, Serving
    <2> QED
        BY <1>2, <2>4, <2>5 DEF CatalogInv
<1>5. CASE RecoverDone
    <2>1. /\ stage' = "idle" /\ UNCHANGED <<next_ts, catalog>>
          /\ scan > Len(wal) /\ Turn' = next_ts
        BY <1>5 DEF RecoverDone, counterVars, Turn
    <2>2. \A j \in 1 .. Len(wal) : wal[j].commit_ts <= next_ts
        <3> SUFFICES ASSUME NEW j \in 1 .. Len(wal), wal[j].commit_ts # 1
                     PROVE  wal[j].commit_ts <= next_ts
            BY <1>1
        <3>1. PICK i \in 1 .. j : /\ wal[i].type = "COMMIT"
                                  /\ wal[i].commit_ts + 1 = wal[j].commit_ts
            BY <1>1 DEF CatalogInv, LogOrdered
        <3>2. i \in 1 .. Len(wal) /\ i < scan
            BY <1>1, <2>1
        <3>3. wal[i].commit_ts < next_ts
            BY <1>1, <3>1, <3>2 DEF OrderInv, CountersPast
        <3> QED
            BY <1>1, <3>1, <3>2, <3>3
    <2>3. TurnFollows'
        BY <1>1, <2>1, <2>2 DEF CatalogInv, TurnFollows, Whole
    <2>4. CatalogBehind' /\ CatalogInOrder'
        BY <1>1, <2>1, <2>2
        DEF CatalogInv, CatalogBehind, CatalogInOrder, Serving
    <2> QED
        BY <1>2, <2>3, <2>4 DEF CatalogInv
<1> QED
    BY <1>3, <1>4, <1>5 DEF ReplayStep

LEMMA NextCatalogInv ==
    ASSUME NoErrors, TypeInv, TypeInv', OrderInv, CatalogInv, [Next]_vars
    PROVE  CatalogInv'
<1> USE DEF TypeInv
<1>1. CASE UNCHANGED vars
    BY <1>1
    DEF vars, fileVars, counterVars, commitVars, txnVars, CatalogInv,
        LogOrdered, TurnFollows, CatalogBehind, CatalogInOrder, Turn, Whole,
        Serving
<1>2. CASE Failure
    <2>1. ~ CommitRaises
        BY DEF CommitRaises, Incident, NoErrors
    <2>2. Close \/ FaultPoint \/ Kill \/ PowerLoss
        BY <1>2, <2>1 DEF Failure
    <2>3. stage' = "down" /\ catalog' = [k \in Key |-> << >>]
        BY <2>2 DEF Close, FaultPoint, Kill, PowerLoss, ProcessEnds
    <2> QED
        BY <2>2, <2>3, EndNoNewRecord, EmptyCatalogInv
<1> QED
    BY <1>1, <1>2, CallCatalogInv, CommitStepCatalogInv, RestartCatalogInv,
       ReplayCatalogInv DEF Next

LEMMA CatalogInvariant ==
    ASSUME NoErrors
    PROVE  Spec => []CatalogInv
<1>1. Init => CatalogInv
    BY InitCatalogInv
<1>2. TypeInv /\ TypeInv' /\ OrderInv /\ CatalogInv /\ [Next]_vars
      => CatalogInv'
    BY NextCatalogInv
<1> QED
    BY <1>1, <1>2, TypeInvariant, OrderInvariant, PTL DEF Spec

(***************************************************************************)
(* However many processes are killed, lose power or write short: every     *)
(* key's list is in commit order, its intervals meet and only its last     *)
(* version is open, during a commit and a recovery, too.  NoErrors cannot  *)
(* be dropped: a commit that raised and was tried again is a               *)
(* counterexample (README.md).                                             *)
(***************************************************************************)
THEOREM CatalogIsOrdered ==
    ASSUME NoErrors
    PROVE  Spec => []CatalogOrdered
<1>1. TypeInv /\ CatalogInv => CatalogOrdered
    BY InvImpliesCatalogOrdered DEF TypeInv
<1> QED
    BY <1>1, TypeInvariant, CatalogInvariant, PTL

-----------------------------------------------------------------------------
(***************************************************************************)
(* Durability.  Acknowledged commits survive, for any number of crashes of *)
(* any kind and of appends and syncs that raise, if every os.write writes  *)
(* all it is given.                                                        *)
(*                                                                         *)
(* Durability says where an acknowledged transaction is once commit() has  *)
(* returned.  It follows from an invariant that says, for every stage of a *)
(* commit and of a recovery, what is in the log and in the catalog by      *)
(* then.                                                                   *)
(***************************************************************************)

WholeWrites == "short" \notin Incidents

-----------------------------------------------------------------------------
\* The invariant

\* Nothing torn is in the synced part of the log, nor in any of it while a
\* process is using it.
LogWhole ==
    /\ \A i \in 1 .. synced : wal[i].type # "TORN"
    /\ stage # "down" => \A i \in 1 .. Len(wal) : wal[i].type # "TORN"

\* Some version in the catalog is the one that a redo record asks for.
InCatalog(rec) ==
    \E j \in 1 .. Len(catalog[rec.key]) :
        /\ catalog[rec.key][j].writer = rec.writer
        /\ catalog[rec.key][j].begin_ts = rec.commit_ts
        /\ catalog[rec.key][j].is_tombstone = (rec.type = "REDO_DEL")

RedoWithin(t, k, n) == \E i \in 1 .. n : wal[i] = RedoRecord(t, k)

\* All of t's commit is in the first n records of the log.
LoggedWithin(t, n) ==
    /\ \A k \in Written(t) : RedoWithin(t, k, n)
    /\ \E i \in 1 .. n : wal[i] = CommitRecord(t)

\* How far the commit in progress has come.
CommitProgress ==
    /\ stage \in {"redo", "sync", "install"} => state[committer] = "ACTIVE"
    /\ stage = "redo" => \A k \in Written(committer) \ todo :
                              RedoWithin(committer, k, Len(wal))
    /\ stage = "sync" => LoggedWithin(committer, Len(wal))
    /\ stage = "install" =>
         /\ LoggedWithin(committer, synced)
         /\ \A k \in Written(committer) \ todo :
                InCatalog(RedoRecord(committer, k))

\* An acknowledged commit is in the synced log, and served.
Acknowledged ==
    \A t \in Txn : state[t] = "COMMITTED" /\ Written(t) # {} =>
        /\ LoggedWithin(t, synced)
        /\ Serving => \A k \in Written(t) : InCatalog(RedoRecord(t, k))

\* What a recovery has replayed is in the catalog.
ReplayProgress ==
    stage = "replay" => \A i \in 1 .. Len(wal) :
        /\ i < scan
        /\ wal[i].type \in {"REDO_PUT", "REDO_DEL"}
        /\ IsCommittedId(wal[i].txn_id)
        => InCatalog(wal[i])

DurabilityInv ==
    LogWhole /\ CommitProgress /\ Acknowledged /\ ReplayProgress

-----------------------------------------------------------------------------
\* What the steps preserve

\* t's part in the log is still what it was.
Same(t) ==
    /\ txn_id'[t] = txn_id[t]
    /\ commit_ts'[t] = commit_ts[t]
    /\ write_set'[t] = write_set[t]

LEMMA SameFacts ==
    ASSUME NEW t \in Txn, Same(t)
    PROVE  /\ Written(t)' = Written(t)
           /\ CommitRecord(t)' = CommitRecord(t)
           /\ \A k : RedoRecord(t, k)' = RedoRecord(t, k)
    BY DEF Same, Written, CommitRecord, RedoRecord

\* What is in the first n records stays in a log that keeps them.
LEMMA LoggedStays ==
    ASSUME NEW t \in Txn, Same(t), NEW n \in Nat, NEW m \in Nat, n <= m,
           \A i \in 1 .. n : wal'[i] = wal[i]
    PROVE  /\ \A k : RedoWithin(t, k, n) => RedoWithin(t, k, m)'
           /\ LoggedWithin(t, n) => LoggedWithin(t, m)'
<1>1. \A i \in 1 .. n : i \in 1 .. m
    OBVIOUS
<1>2. ASSUME NEW k, RedoWithin(t, k, n)
      PROVE  RedoWithin(t, k, m)'
    BY <1>1, <1>2, SameFacts DEF RedoWithin
<1>3. ASSUME LoggedWithin(t, n)
      PROVE  LoggedWithin(t, m)'
    <2>1. \A k \in Written(t)' : RedoWithin(t, k, m)'
        BY <1>2, <1>3, SameFacts DEF LoggedWithin
    <2>2. (\E i \in 1 .. m : wal[i] = CommitRecord(t))'
        BY <1>1, <1>3, SameFacts DEF LoggedWithin
    <2> QED
        BY <2>1, <2>2 DEF LoggedWithin
<1> QED
    BY <1>2, <1>3

LEMMA CatalogStays ==
    ASSUME UNCHANGED catalog, NEW rec
    PROVE  InCatalog(rec) => InCatalog(rec)'
    BY DEF InCatalog

\* Installing a version keeps the versions there were, and adds it.
LEMMA InstallStays ==
    ASSUME TypeOK, NEW k \in Key, NEW version \in VersionBy(Txn),
           catalog' = [catalog EXCEPT ![k] = InstallVersion(@, version)]
    PROVE  \A rec \in Record : rec.type \in {"REDO_PUT", "REDO_DEL"} =>
              /\ InCatalog(rec) => InCatalog(rec)'
              /\ /\ rec.key = k
                 /\ version = NewVersion(rec.commit_ts, rec.writer,
                                         rec.type = "REDO_DEL")
                 => InCatalog(rec)'
<1> DEFINE n == Len(catalog[k])
<1>1. /\ \A j \in Key : j # k => catalog'[j] = catalog[j]
      /\ Len(catalog'[k]) = n + 1
      /\ catalog'[k][n + 1] = version
      /\ \A i \in 1 .. n :
            /\ catalog'[k][i].begin_ts = catalog[k][i].begin_ts
            /\ catalog'[k][i].writer = catalog[k][i].writer
            /\ catalog'[k][i].is_tombstone = catalog[k][i].is_tombstone
    BY InstallInCatalog
<1>2. n \in Nat
    BY LenProperties DEF TypeOK
<1> SUFFICES ASSUME NEW rec \in Record, rec.type \in {"REDO_PUT", "REDO_DEL"}
             PROVE  /\ InCatalog(rec) => InCatalog(rec)'
                    /\ /\ rec.key = k
                       /\ version = NewVersion(rec.commit_ts, rec.writer,
                                               rec.type = "REDO_DEL")
                       => InCatalog(rec)'
    OBVIOUS
<1>3. rec.key \in Key
    BY DEF Record, Torn
<1>4. ASSUME rec.key = k,
             version = NewVersion(rec.commit_ts, rec.writer,
                                  rec.type = "REDO_DEL")
      PROVE  InCatalog(rec)'
    <2>1. n + 1 \in 1 .. Len(catalog'[k])
        BY <1>1, <1>2
    <2>2. /\ catalog'[k][n + 1].writer = rec.writer
          /\ catalog'[k][n + 1].begin_ts = rec.commit_ts
          /\ catalog'[k][n + 1].is_tombstone = (rec.type = "REDO_DEL")
        BY <1>1, <1>4 DEF NewVersion
    <2> QED
        BY <1>4, <2>1, <2>2 DEF InCatalog
<1>5. ASSUME InCatalog(rec)
      PROVE  InCatalog(rec)'
    <2>1. CASE rec.key # k
        BY <1>1, <1>3, <1>5, <2>1 DEF InCatalog
    <2>2. CASE rec.key = k
        <3>1. PICK j \in 1 .. n :
                /\ catalog[k][j].writer = rec.writer
                /\ catalog[k][j].begin_ts = rec.commit_ts
                /\ catalog[k][j].is_tombstone = (rec.type = "REDO_DEL")
            BY <1>5, <2>2 DEF InCatalog
        <3>2. j \in 1 .. Len(catalog'[k])
            BY <1>1, <1>2
        <3> QED
            BY <1>1, <2>2, <3>1, <3>2 DEF InCatalog
    <2> QED
        BY <2>1, <2>2
<1> QED
    BY <1>4, <1>5

LEMMA RedoRecordFacts ==
    ASSUME TypeOK, NEW t \in Txn, NEW k \in Key
    PROVE  /\ RedoRecord(t, k) \in Record
           /\ RedoRecord(t, k).type \in {"REDO_PUT", "REDO_DEL"}
           /\ RedoRecord(t, k).type = "REDO_DEL" <=> write_set[t][k] = "del"
           /\ RedoRecord(t, k).key = k
           /\ RedoRecord(t, k).writer = t
           /\ RedoRecord(t, k).commit_ts = commit_ts[t]
           /\ RedoRecord(t, k).txn_id = txn_id[t]
    BY RecordTypesOK DEF RedoRecord

\* The property follows from the invariant.
LEMMA InvImpliesDurability ==
    ASSUME TypeOK, DurabilityInv
    PROVE  Durability
<1> SUFFICES ASSUME NEW t \in Txn, state[t] = "COMMITTED", Written(t) # {}
             PROVE  /\ CommitWithin(t, synced)
                    /\ Serving => \A k \in Written(t) : Installed(t, k)
    BY DEF Durability
<1>1. CommitWithin(t, synced)
    <2>1. PICK i \in 1 .. synced : wal[i] = CommitRecord(t)
        BY DEF DurabilityInv, Acknowledged, LoggedWithin
    <2>2. wal[i].type = "COMMIT" /\ wal[i].writer = t
        BY <2>1 DEF CommitRecord
    <2> QED
        BY <2>2 DEF DurabilityInv, LogWhole, CommitWithin
<1>2. ASSUME Serving, NEW k \in Written(t)
      PROVE  Installed(t, k)
    <2>1. k \in Key
        BY DEF Written
    <2>2. InCatalog(RedoRecord(t, k))
        BY <1>2 DEF DurabilityInv, Acknowledged
    <2> QED
        BY <2>1, <2>2, RedoRecordFacts DEF InCatalog, Installed
<1> QED
    BY <1>1, <1>2

-----------------------------------------------------------------------------
\* The invariant is inductive

LEMMA InitDurabilityInv == Init => DurabilityInv
<1> SUFFICES ASSUME Init PROVE DurabilityInv
    OBVIOUS
<1>1. Len(wal) = 0
    BY DEF Init
<1> QED
    BY <1>1 DEF Init, DurabilityInv, LogWhole, CommitProgress, Acknowledged,
                ReplayProgress

(***************************************************************************)
(* A step that keeps the log, the catalog and the stage keeps the          *)
(* invariant, if it lets the committer and the committed transactions be   *)
(* and makes none of them but read-only ones.                              *)
(***************************************************************************)
LEMMA QuietStep ==
    ASSUME TypeInv, DurabilityInv,
           UNCHANGED <<fileVars, catalog, commitVars, scan>>,
           \A u \in Txn : u = committer \/ state[u] = "COMMITTED" =>
               Same(u) /\ state'[u] = state[u],
           \A u \in Txn : state'[u] = "COMMITTED" =>
               state[u] = "COMMITTED" \/ Written(u)' = {}
    PROVE  DurabilityInv'
<1>1. UNCHANGED <<wal, synced, catalog, stage, committer, todo, scan>>
    BY DEF fileVars, commitVars
<1>2. TypeOK /\ Len(wal) \in Nat /\ synced \in Nat
    BY LenProperties DEF TypeInv, TypeOK
<1>3. LogWhole'
    BY <1>1 DEF DurabilityInv, LogWhole
<1>4. ASSUME NEW u \in Txn, u = committer \/ state[u] = "COMMITTED"
      PROVE  /\ Same(u) /\ state'[u] = state[u]
             /\ Written(u)' = Written(u)
             /\ \A k : RedoRecord(u, k)' = RedoRecord(u, k)
             /\ \A k : RedoWithin(u, k, Len(wal)) =>
                           RedoWithin(u, k, Len(wal))'
             /\ LoggedWithin(u, Len(wal)) => LoggedWithin(u, Len(wal))'
             /\ LoggedWithin(u, synced) => LoggedWithin(u, synced)'
    BY <1>1, <1>2, <1>4, SameFacts, LoggedStays
<1>5. \A rec : InCatalog(rec) => InCatalog(rec)'
    BY <1>1, CatalogStays
<1>6. CommitProgress'
    <2>1. CASE stage \in {"redo", "sync", "install"}
        <3>1. committer \in Txn
            BY <1>2, <2>1 DEF TypeOK
        <3> QED
            BY <1>1, <1>4, <1>5, <2>1, <3>1 DEF DurabilityInv, CommitProgress
    <2>2. CASE stage \notin {"redo", "sync", "install"}
        BY <1>1, <2>2 DEF CommitProgress
    <2> QED
        BY <2>1, <2>2
<1>7. Acknowledged'
    <2> SUFFICES ASSUME NEW u \in Txn, state'[u] = "COMMITTED",
                        Written(u)' # {}
                 PROVE  /\ LoggedWithin(u, synced)'
                        /\ Serving' => \A k \in Written(u)' :
                               InCatalog(RedoRecord(u, k))'
        BY DEF Acknowledged
    <2>1. state[u] = "COMMITTED"
        OBVIOUS
    <2> QED
        BY <1>1, <1>4, <1>5, <2>1 DEF DurabilityInv, Acknowledged, Serving
<1>8. ReplayProgress'
    BY <1>1, <1>5 DEF DurabilityInv, ReplayProgress, IsCommittedId
<1> QED
    BY <1>3, <1>6, <1>7, <1>8 DEF DurabilityInv

LEMMA CallDurabilityInv ==
    ASSUME TypeInv, DurabilityInv, NEW t \in Txn, Call(t)
    PROVE  DurabilityInv'
<1> USE DEF TypeInv
<1>1. CASE Begin(t)
    <2>1. t # committer /\ state[t] = "UNBORN" /\ state'[t] = "ACTIVE"
        BY <1>1 DEF Begin, MayCall, TypeOK
    <2>2. \A u \in Txn \ {t} : Same(u) /\ state'[u] = state[u]
        BY <1>1 DEF Begin, Same, TypeOK
    <2> QED
        BY <1>1, <2>1, <2>2, QuietStep DEF Begin
<1>2. CASE Abort(t)
    <2>1. t # committer /\ state[t] = "ACTIVE" /\ state'[t] = "ABORTED"
        BY <1>2 DEF Abort, MayUse, MayCall, TypeOK
    <2>2. \A u \in Txn \ {t} : Same(u) /\ state'[u] = state[u]
        BY <1>2 DEF Abort, Same, TypeOK
    <2> QED
        BY <1>2, <2>1, <2>2, QuietStep DEF Abort, counterVars
<1>3. CASE GetWalk(t)
    <2>1. \A u \in Txn : Same(u) /\ state'[u] = state[u]
        BY <1>3 DEF GetWalk, Same, txnVars
    <2> QED
        BY <1>3, <2>1, QuietStep DEF GetWalk
<1>4. CASE CommitReadOnly(t)
    <2>1. t # committer /\ state[t] = "ACTIVE" /\ Written(t)' = {}
        BY <1>4 DEF CommitReadOnly, MayUse, MayCall, Written
    <2>2. \A u \in Txn \ {t} : Same(u) /\ state'[u] = state[u]
        BY <1>4 DEF CommitReadOnly, Same, TypeOK
    <2> QED
        BY <1>4, <2>1, <2>2, QuietStep DEF CommitReadOnly
<1>5. CASE CommitConflict(t)
    <2>1. t # committer /\ state[t] = "ACTIVE" /\ state'[t] = "ABORTED"
        BY <1>5 DEF CommitConflict, MayCommit, MayUse, MayCall, TypeOK
    <2>2. \A u \in Txn \ {t} : Same(u) /\ state'[u] = state[u]
        BY <1>5 DEF CommitConflict, Same, TypeOK
    <2> QED
        BY <1>5, <2>1, <2>2, QuietStep DEF CommitConflict
<1>6. CASE CommitStart(t)
    <2>1. /\ state[t] = "ACTIVE" /\ stage = "idle"
          /\ stage' = "redo" /\ committer' = t /\ todo' = Written(t)
          /\ UNCHANGED <<wal, synced, catalog, scan, state, write_set>>
        BY <1>6 DEF CommitStart, MayCommit, MayUse, fileVars
    <2>2. \A u \in Txn \ {t} : Same(u)
        BY <1>6 DEF CommitStart, Same, TypeOK
    <2>3. LogWhole'
        BY <2>1 DEF DurabilityInv, LogWhole
    <2>4. CommitProgress'
        BY <2>1 DEF CommitProgress, Written
    <2>5. Acknowledged'
        <3> SUFFICES ASSUME NEW u \in Txn, state'[u] = "COMMITTED",
                            Written(u)' # {}
                     PROVE  /\ LoggedWithin(u, synced)'
                            /\ Serving' => \A k \in Written(u)' :
                                   InCatalog(RedoRecord(u, k))'
            BY DEF Acknowledged
        <3>1. state[u] = "COMMITTED" /\ Same(u)
            BY <2>1, <2>2
        <3>2. Written(u)' = Written(u)
            BY <3>1, SameFacts
        <3>3. LoggedWithin(u, synced) /\ Serving
            BY <2>1, <3>1, <3>2 DEF DurabilityInv, Acknowledged, Serving
        <3>4. LoggedWithin(u, synced)'
            BY <2>1, <3>1, <3>3, LoggedStays DEF TypeOK
        <3>5. ASSUME NEW k \in Written(u)'
              PROVE  InCatalog(RedoRecord(u, k))'
            <4>1. InCatalog(RedoRecord(u, k))
                BY <3>1, <3>2, <3>3 DEF DurabilityInv, Acknowledged
            <4> QED
                BY <2>1, <3>1, <4>1, SameFacts, CatalogStays
        <3> QED
            BY <3>4, <3>5
    <2>6. ReplayProgress'
        BY <2>1 DEF ReplayProgress
    <2> QED
        BY <2>3, <2>4, <2>5, <2>6 DEF DurabilityInv
<1>7. ASSUME NEW k \in Key, Put(t, k) \/ Delete(t, k)
      PROVE  DurabilityInv'
    <2>1. t # committer /\ state[t] = "ACTIVE"
        BY <1>7 DEF Put, Delete, MayUse, MayCall
    <2>2. \A u \in Txn \ {t} : Same(u)
        BY <1>7 DEF Put, Delete, Same, TypeOK
    <2>3. UNCHANGED <<fileVars, catalog, commitVars, scan, state>>
        BY <1>7 DEF Put, Delete
    <2> QED
        BY <2>1, <2>2, <2>3, QuietStep
<1>8. ASSUME NEW k \in Key, GetOpen(t, k)
      PROVE  DurabilityInv'
    <2>1. \A u \in Txn : Same(u) /\ state'[u] = state[u]
        BY <1>8 DEF GetOpen, Same, txnVars
    <2> QED
        BY <1>8, <2>1, QuietStep DEF GetOpen
<1> QED
    BY <1>1, <1>2, <1>3, <1>4, <1>5, <1>6, <1>7, <1>8 DEF Call

\* What every step but the end of a recovery does to an acknowledged commit.
LEMMA AcknowledgedStays ==
    ASSUME TypeOK, Acknowledged, NEW u \in Txn, state[u] = "COMMITTED", Same(u),
           synced' \in Nat, synced <= synced',
           \A i \in 1 .. synced : wal'[i] = wal[i],
           Serving' => Serving,
           Serving' => \A rec \in Record :
              rec.type \in {"REDO_PUT", "REDO_DEL"} =>
                 (InCatalog(rec) => InCatalog(rec)'),
           Written(u)' # {}
    PROVE  /\ LoggedWithin(u, synced)'
           /\ Serving' => \A k \in Written(u)' : InCatalog(RedoRecord(u, k))'
<1>1. Written(u)' = Written(u)
    BY SameFacts
<1>2. LoggedWithin(u, synced)
    BY <1>1 DEF Acknowledged
<1>3. LoggedWithin(u, synced)'
    BY <1>2, LoggedStays DEF TypeOK
<1>4. ASSUME Serving', NEW k \in Written(u)'
      PROVE  InCatalog(RedoRecord(u, k))'
    <2>1. k \in Key /\ InCatalog(RedoRecord(u, k))
        BY <1>1, <1>4 DEF Acknowledged, Written
    <2>2. /\ RedoRecord(u, k) \in Record
          /\ RedoRecord(u, k).type \in {"REDO_PUT", "REDO_DEL"}
        BY <2>1, RedoRecordFacts
    <2> DEFINE rec == RedoRecord(u, k)
    <2>3. rec' = rec
        BY SameFacts
    <2>4. \A r \in Record : r.type \in {"REDO_PUT", "REDO_DEL"} =>
                 (InCatalog(r) => InCatalog(r)')
        BY <1>4
    <2> HIDE DEF rec
    <2>5. ASSUME NEW r, r = rec
          PROVE  InCatalog(r)' <=> InCatalog(rec)'
        BY <2>3, <2>5 DEF InCatalog
    <2>6. InCatalog(rec)'
        BY <2>1, <2>2, <2>4, <2>5 DEF rec
    <2> QED
        BY <2>6 DEF rec
<1> QED
    BY <1>3, <1>4

LEMMA AppendDurabilityInv ==
    ASSUME WholeWrites, TypeInv, DurabilityInv,
           AppendCommit \/ \E k \in Key : AppendRedo(k)
    PROVE  DurabilityInv'
<1> USE DEF TypeInv
<1>1. /\ stage = "redo" /\ committer \in Txn /\ state[committer] = "ACTIVE"
      /\ Len(wal) \in Nat /\ wal \in Seq(Record)
      /\ synced \in Nat /\ synced <= Len(wal)
    BY EngineAssumption, LenProperties
    DEF AppendCommit, AppendRedo, TypeOK, DurabilityInv, CommitProgress
<1>2. /\ UNCHANGED <<synced, catalog, committer, scan, state, txn_id,
                     commit_ts, write_set>>
      /\ stage' \in {"redo", "sync"}
    BY <1>1 DEF AppendCommit, AppendRedo, txnVars
<1>3. \A u \in Txn : Same(u)
    BY <1>2 DEF Same
<1>4. PICK rec \in Record :
        /\ WalAppend(rec)
        /\ rec.type # "TORN"
        /\ \/ /\ AppendCommit
              /\ rec = CommitRecord(committer)
           \/ \E k \in Key : AppendRedo(k) /\ rec = RedoRecord(committer, k)
    <2>1. CASE AppendCommit
        BY <1>1, <2>1, RecordTypesOK DEF AppendCommit, CommitRecord
    <2>2. ASSUME NEW k \in Key, AppendRedo(k)
          PROVE  /\ RedoRecord(committer, k) \in Record
                 /\ WalAppend(RedoRecord(committer, k))
                 /\ RedoRecord(committer, k).type # "TORN"
        BY <1>1, <2>2, RedoRecordFacts DEF AppendRedo
    <2> QED
        BY <2>1, <2>2
<1>5. wal' = Append(wal, rec)
    BY <1>4 DEF WalAppend, Incident, WholeWrites
<1>6. /\ Len(wal') = Len(wal) + 1
      /\ \A i \in 1 .. Len(wal) : wal'[i] = wal[i]
      /\ wal'[Len(wal) + 1] = rec
    BY <1>1, <1>5, AppendFacts
<1>7. LogWhole'
    <2>1. \A i \in 1 .. Len(wal) : wal[i].type # "TORN"
        BY <1>1 DEF DurabilityInv, LogWhole
    <2>2. \A i \in 1 .. Len(wal') : wal'[i].type # "TORN"
        BY <1>1, <1>4, <1>6, <2>1
    <2> QED
        BY <1>1, <1>2, <1>6, <2>2 DEF LogWhole
<1>8. CommitProgress'
    <2>1. PICK c \in Txn : c = committer
        BY <1>1
    <2>2. PICK n \in Nat : n = Len(wal)
        BY <1>1
    <2>3. Len(wal') = n + 1 /\ wal'[n + 1] = rec
        BY <1>6, <2>2
    <2>4. \A k : RedoWithin(c, k, n) => RedoWithin(c, k, n + 1)'
        BY <1>3, <1>6, <2>2, LoggedStays
    <2>5. /\ Written(c)' = Written(c) /\ CommitRecord(c)' = CommitRecord(c)
          /\ \A k : RedoRecord(c, k)' = RedoRecord(c, k)
        BY <1>3, SameFacts
    <2>6. n + 1 \in 1 .. n + 1
        OBVIOUS
    <2>7. CASE AppendCommit
        <3>1. rec = CommitRecord(c) /\ todo = {} /\ stage' = "sync"
            BY <1>1, <1>4, <2>1, <2>7 DEF AppendCommit, AppendRedo
        <3>2. \A k \in Written(c)' : RedoWithin(c, k, n + 1)'
            BY <1>1, <2>1, <2>2, <2>4, <2>5, <3>1
            DEF DurabilityInv, CommitProgress
        <3>3. (\E i \in 1 .. n + 1 : wal[i] = CommitRecord(c))'
            BY <2>3, <2>5, <2>6, <3>1
        <3>4. LoggedWithin(c, n + 1)'
            BY <3>2, <3>3 DEF LoggedWithin
        <3> QED
            BY <1>1, <1>2, <2>1, <2>3, <3>1, <3>4 DEF CommitProgress
    <2>8. CASE ~ AppendCommit
        <3>1. PICK k \in Key : AppendRedo(k) /\ rec = RedoRecord(committer, k)
            BY <1>4, <2>8
        <3>2. stage' = "redo" /\ todo' = todo \ {k}
            BY <1>1, <3>1 DEF AppendRedo
        <3>3. RedoWithin(c, k, n + 1)'
            BY <2>1, <2>3, <2>5, <2>6, <3>1 DEF RedoWithin
        <3>4. \A j \in Written(c) \ todo : RedoWithin(c, j, n)
            BY <1>1, <2>1, <2>2 DEF DurabilityInv, CommitProgress
        <3>5. \A j \in Written(c)' \ todo' : RedoWithin(c, j, n + 1)'
            BY <2>4, <2>5, <3>2, <3>3, <3>4
        <3> QED
            BY <1>1, <1>2, <2>1, <2>3, <3>2, <3>5 DEF CommitProgress
    <2> QED
        BY <2>7, <2>8
<1>9. Acknowledged'
    <2>1. \A r : InCatalog(r) => InCatalog(r)'
        BY <1>2, CatalogStays
    <2> QED
        BY <1>1, <1>2, <1>3, <1>6, <2>1, AcknowledgedStays
        DEF Acknowledged, DurabilityInv, Serving
<1>10. ReplayProgress'
    BY <1>2 DEF ReplayProgress
<1> QED
    BY <1>7, <1>8, <1>9, <1>10 DEF DurabilityInv

LEMMA SyncDurabilityInv ==
    ASSUME TypeInv, DurabilityInv, SyncWal
    PROVE  DurabilityInv'
<1> USE DEF TypeInv
<1>1. /\ stage = "sync" /\ stage' = "install" /\ todo' = Written(committer)
      /\ synced' = Len(wal) /\ committer' = committer
      /\ UNCHANGED <<wal, catalog, state, txn_id, commit_ts, write_set>>
    BY DEF SyncWal, txnVars
<1>2. Len(wal) \in Nat /\ synced \in Nat /\ synced <= Len(wal)
    BY LenProperties DEF TypeOK
<1>3. PICK c \in Txn : c = committer
    BY <1>1, EngineAssumption DEF TypeOK
<1>4. \A u \in Txn : Same(u)
    BY <1>1 DEF Same
<1>5. LogWhole'
    BY <1>1 DEF DurabilityInv, LogWhole
<1>6. CommitProgress'
    <2>1. PICK n \in Nat : n = Len(wal)
        BY <1>2
    <2>2. LoggedWithin(c, n)
        BY <1>1, <1>3, <2>1 DEF DurabilityInv, CommitProgress
    <2>3. LoggedWithin(c, n)'
        BY <1>1, <1>4, <2>2, LoggedStays
    <2>4. Written(c)' = Written(c)
        BY <1>4, SameFacts
    <2>5. state[c] = "ACTIVE"
        BY <1>1, <1>3 DEF DurabilityInv, CommitProgress
    <2> QED
        BY <1>1, <1>3, <2>1, <2>3, <2>4, <2>5 DEF CommitProgress
<1>7. Acknowledged'
    <2>1. \A r : InCatalog(r) => InCatalog(r)'
        BY <1>1, CatalogStays
    <2> QED
        BY <1>1, <1>2, <1>4, <2>1, AcknowledgedStays
        DEF Acknowledged, DurabilityInv, Serving
<1>8. ReplayProgress'
    BY <1>1 DEF ReplayProgress
<1> QED
    BY <1>5, <1>6, <1>7, <1>8 DEF DurabilityInv

LEMMA InstallDurabilityInv ==
    ASSUME TypeInv, DurabilityInv, NEW k \in Key, Install(k)
    PROVE  DurabilityInv'
<1> USE DEF TypeInv
<1>1. /\ stage = "install" /\ stage' = stage /\ todo' = todo \ {k}
      /\ UNCHANGED <<wal, synced, committer, state, txn_id, commit_ts, write_set>>
    BY DEF Install, txnVars, fileVars
<1>2. PICK c \in Txn : c = committer
    BY <1>1, EngineAssumption DEF TypeOK
<1>3. \A u \in Txn : Same(u)
    BY <1>1 DEF Same
<1>4. /\ RedoRecord(c, k) \in Record
      /\ RedoRecord(c, k).type \in {"REDO_PUT", "REDO_DEL"}
      /\ RedoRecord(c, k).key = k
    BY RedoRecordFacts
<1> DEFINE version == NewVersion(commit_ts[c], c, write_set[c][k] = "del")
<1>5. /\ version \in VersionBy(Txn)
      /\ catalog' = [catalog EXCEPT ![k] = InstallVersion(@, version)]
      /\ version = NewVersion(RedoRecord(c, k).commit_ts,
                              RedoRecord(c, k).writer,
                              RedoRecord(c, k).type = "REDO_DEL")
    <2>1. version \in VersionBy(Txn)
        BY NewVersionFacts DEF TypeOK
    <2>2. catalog' = [catalog EXCEPT ![k] = InstallVersion(@, version)]
        BY <1>2 DEF Install
    <2>3. version = NewVersion(RedoRecord(c, k).commit_ts,
                               RedoRecord(c, k).writer,
                               RedoRecord(c, k).type = "REDO_DEL")
        BY RedoRecordFacts DEF NewVersion
    <2> QED
        BY <2>1, <2>2, <2>3
<1> HIDE DEF version
<1>6. /\ \A rec \in Record : rec.type \in {"REDO_PUT", "REDO_DEL"} =>
              (InCatalog(rec) => InCatalog(rec)')
      /\ \A rec \in Record : rec = RedoRecord(c, k) => InCatalog(rec)'
    BY <1>4, <1>5, InstallStays
<1>7. LogWhole'
    BY <1>1 DEF DurabilityInv, LogWhole
<1>8. CommitProgress'
    <2>1. PICK n \in Nat : n = synced
        BY DEF TypeOK
    <2>2. LoggedWithin(c, n)
        BY <1>1, <1>2, <2>1 DEF DurabilityInv, CommitProgress
    <2>3. LoggedWithin(c, n)'
        BY <1>1, <1>3, <2>2, LoggedStays
    <2>4. /\ Written(c)' = Written(c)
          /\ \A j : RedoRecord(c, j)' = RedoRecord(c, j)
        BY <1>3, SameFacts
    <2>5. state[c] = "ACTIVE"
        BY <1>1, <1>2 DEF DurabilityInv, CommitProgress
    <2>6. ASSUME NEW j \in Written(c)' \ todo'
          PROVE  InCatalog(RedoRecord(c, j))'
        <3>1. j \in Key /\ j \in Written(c)
            BY <2>4 DEF Written
        <3>2. PICK rec \in Record : rec = RedoRecord(c, j)
            BY <3>1, RedoRecordFacts
        <3>3. rec.type \in {"REDO_PUT", "REDO_DEL"}
            BY <3>1, <3>2, RedoRecordFacts
        <3>4. InCatalog(rec)'
            <4>1. CASE j = k
                BY <1>6, <3>2, <4>1
            <4>2. CASE j # k
                <5>1. j \in Written(c) \ todo
                    BY <1>1, <3>1, <4>2
                <5>2. InCatalog(RedoRecord(c, j))
                    BY <1>1, <1>2, <5>1 DEF DurabilityInv, CommitProgress
                <5>3. InCatalog(rec)
                    BY <3>2, <5>2 DEF InCatalog
                <5> QED
                    BY <1>6, <3>3, <5>3
            <4> QED
                BY <4>1, <4>2
        <3> QED
            BY <2>4, <3>2, <3>4
    <2> QED
        BY <1>1, <1>2, <2>1, <2>3, <2>5, <2>6 DEF CommitProgress
<1>9. Acknowledged'
    <2>1. synced \in Nat
        BY DEF TypeOK
    <2> QED
        BY <1>1, <1>3, <1>6, <2>1, AcknowledgedStays
        DEF Acknowledged, DurabilityInv, Serving
<1>10. ReplayProgress'
    BY <1>1 DEF ReplayProgress
<1> QED
    BY <1>7, <1>8, <1>9, <1>10 DEF DurabilityInv

\* commit() acknowledges when all it promised is true.
LEMMA AckDurabilityInv ==
    ASSUME TypeInv, DurabilityInv, Ack
    PROVE  DurabilityInv'
<1> USE DEF TypeInv
<1>1. /\ stage = "install" /\ stage' = "ack" /\ todo = {}
      /\ state' = [state EXCEPT ![committer] = "COMMITTED"]
      /\ UNCHANGED <<wal, synced, catalog, committer, txn_id, commit_ts,
                     write_set>>
    BY DEF Ack, fileVars
<1>2. PICK c \in Txn : c = committer
    BY <1>1, EngineAssumption DEF TypeOK
<1>3. \A u \in Txn : Same(u)
    BY <1>1 DEF Same
<1>4. \A r : InCatalog(r) => InCatalog(r)'
    BY <1>1, CatalogStays
<1>5. LogWhole'
    BY <1>1 DEF DurabilityInv, LogWhole
<1>6. CommitProgress'
    BY <1>1 DEF CommitProgress
<1>7. Acknowledged'
    <2> SUFFICES ASSUME NEW u \in Txn, state'[u] = "COMMITTED",
                        Written(u)' # {}
                 PROVE  /\ LoggedWithin(u, synced)'
                        /\ Serving' => \A k \in Written(u)' :
                               InCatalog(RedoRecord(u, k))'
        BY DEF Acknowledged
    <2>1. CASE u # c
        <3>1. synced \in Nat
            BY DEF TypeOK
        <3>2. state[u] = "COMMITTED"
            BY <1>1, <1>2, <2>1 DEF TypeOK
        <3> QED
            BY <1>1, <1>3, <1>4, <3>1, <3>2, AcknowledgedStays
            DEF DurabilityInv, Serving
    <2>2. CASE u = c
        <3>1. PICK n \in Nat : n = synced
            BY DEF TypeOK
        <3>2. LoggedWithin(c, n)
            BY <1>1, <1>2, <3>1 DEF DurabilityInv, CommitProgress
        <3>3. LoggedWithin(c, n)'
            BY <1>1, <1>3, <3>2, LoggedStays
        <3>4. /\ Written(c)' = Written(c)
              /\ \A j : RedoRecord(c, j)' = RedoRecord(c, j)
            BY <1>3, SameFacts
        <3>5. \A k \in Written(c) : InCatalog(RedoRecord(c, k))
            BY <1>1, <1>2 DEF DurabilityInv, CommitProgress
        <3>6. \A k \in Written(c)' : InCatalog(RedoRecord(c, k))'
            BY <1>4, <3>4, <3>5
        <3> QED
            BY <1>1, <2>2, <3>1, <3>3, <3>6
    <2> QED
        BY <2>1, <2>2
<1>8. ReplayProgress'
    BY <1>1 DEF ReplayProgress
<1> QED
    BY <1>5, <1>6, <1>7, <1>8 DEF DurabilityInv

\* commit() gives the lock back, in peace or with an exception.
LEMMA ReleaseDurabilityInv ==
    ASSUME TypeInv, DurabilityInv, Return \/ CommitRaises
    PROVE  DurabilityInv'
<1> USE DEF TypeInv
<1>1. /\ stage \notin {"down", "replay"} /\ stage' = "idle"
      /\ UNCHANGED <<wal, synced, catalog, state, txn_id, commit_ts, write_set>>
    BY DEF Return, CommitRaises, fileVars, txnVars
<1>2. \A u \in Txn : Same(u)
    BY <1>1 DEF Same
<1>3. \A r : InCatalog(r) => InCatalog(r)'
    BY <1>1, CatalogStays
<1>4. LogWhole' /\ CommitProgress' /\ ReplayProgress'
    BY <1>1 DEF DurabilityInv, LogWhole, CommitProgress, ReplayProgress
<1>5. Acknowledged'
    <2>1. synced \in Nat
        BY DEF TypeOK
    <2> QED
        BY <1>1, <1>2, <1>3, <2>1, AcknowledgedStays
        DEF Acknowledged, DurabilityInv, Serving
<1> QED
    BY <1>4, <1>5 DEF DurabilityInv

\* However a process ends, the log keeps its synced records, and all of its
\* synced part is whole.
LEMMA EndFacts ==
    ASSUME TypeOK, LogWhole, Close \/ FaultPoint \/ Kill \/ PowerLoss
    PROVE  /\ synced' \in Nat /\ synced <= synced'
           /\ \A i \in 1 .. synced : wal'[i] = wal[i]
           /\ \A i \in 1 .. synced' : wal'[i].type # "TORN"
<1>0. /\ Len(wal) \in Nat /\ wal \in Seq(Record) /\ Torn \in Record
      /\ synced \in Nat /\ synced <= Len(wal)
    BY LenProperties DEF TypeOK, Torn, Record
<1>1. \A i \in 1 .. synced : wal[i].type # "TORN"
    BY DEF LogWhole
<1>2. \A i \in 1 .. Len(wal) : Append(wal, Torn)[i] = wal[i]
    BY <1>0, AppendFacts
<1>3. CASE Close \/ FaultPoint \/ Kill
    <2>1. synced' = synced /\ wal' \in {wal, Append(wal, Torn)}
        BY <1>3 DEF Close, FaultPoint, Kill, fileVars
    <2> QED
        BY <1>0, <1>1, <1>2, <2>1, SMTT(30)
<1>4. CASE PowerLoss
    <2>1. PICK n \in synced .. Len(wal) :
            /\ \A i \in synced + 1 .. n : wal[i].type # "TORN"
            /\ synced' = n
            /\ wal' \in {SubSeq(wal, 1, n), Append(SubSeq(wal, 1, n), Torn)}
        BY <1>4 DEF PowerLoss
    <2>2. n \in 0 .. Len(wal) /\ n \in Nat
        BY <1>0
    <2>3. /\ SubSeq(wal, 1, n) \in Seq(Record)
          /\ Len(SubSeq(wal, 1, n)) = n
          /\ \A i \in 1 .. n : SubSeq(wal, 1, n)[i] = wal[i]
        BY <1>0, <2>2, PrefixFacts
    <2>4. \A i \in 1 .. n :
             Append(SubSeq(wal, 1, n), Torn)[i] = SubSeq(wal, 1, n)[i]
        BY <1>0, <2>3, AppendFacts
    <2>5. \A i \in 1 .. n : wal'[i] = wal[i]
        BY <2>1, <2>3, <2>4
    <2> QED
        BY <1>0, <1>1, <2>1, <2>2, <2>5
<1> QED
    BY <1>3, <1>4

LEMMA EndDurabilityInv ==
    ASSUME TypeInv, DurabilityInv, Close \/ FaultPoint \/ Kill \/ PowerLoss
    PROVE  DurabilityInv'
<1> USE DEF TypeInv
<1>1. synced \in Nat
    BY DEF TypeOK
<1>2. /\ stage' = "down"
      /\ \A u \in Txn : state'[u] = "COMMITTED" => state[u] = "COMMITTED"
      /\ UNCHANGED <<txn_id, commit_ts, write_set>>
    BY DEF Close, FaultPoint, Kill, PowerLoss, ProcessEnds
<1>3. \A u \in Txn : Same(u)
    BY <1>2 DEF Same
<1>4. /\ synced' \in Nat /\ synced <= synced'
      /\ \A i \in 1 .. synced : wal'[i] = wal[i]
      /\ \A i \in 1 .. synced' : wal'[i].type # "TORN"
    BY EndFacts DEF DurabilityInv
<1>5. LogWhole' /\ CommitProgress' /\ ReplayProgress'
    BY <1>2, <1>4 DEF LogWhole, CommitProgress, ReplayProgress
<1>6. Acknowledged'
    BY <1>2, <1>3, <1>4, AcknowledgedStays
    DEF Acknowledged, DurabilityInv, Serving
<1> QED
    BY <1>5, <1>6 DEF DurabilityInv

\* A recovery truncates the log, but not its synced part.
LEMMA RestartFacts ==
    ASSUME TypeOK, LogWhole, Restart
    PROVE  /\ synced' = synced
           /\ synced <= Len(wal')
           /\ \A i \in 1 .. Len(wal') : wal'[i] = wal[i]
           /\ \A i \in 1 .. Len(wal') : wal'[i].type # "TORN"
<1>1. /\ Len(wal) \in Nat /\ wal \in Seq(Record)
      /\ synced \in Nat /\ synced <= Len(wal)
    BY LenProperties DEF TypeOK
<1>2. PICK n \in 0 .. Len(wal) :
        /\ IsValidPrefix(n)
        /\ wal' = SubSeq(wal, 1, n)
        /\ synced' = Smaller(synced, n)
    BY DEF Restart
<1>3. /\ Len(wal') = n
      /\ \A i \in 1 .. n : wal'[i] = wal[i]
    BY <1>1, <1>2, PrefixFacts
<1>4. synced <= n
    <2>1. CASE n < synced
        <3>1. n + 1 \in 1 .. synced /\ n < Len(wal)
            BY <1>1, <2>1
        <3> QED
            BY <1>2, <3>1 DEF IsValidPrefix, LogWhole
    <2> QED
        BY <1>1, <2>1
<1>5. synced' = synced
    BY <1>1, <1>2, <1>4 DEF Smaller
<1> QED
    BY <1>2, <1>3, <1>4, <1>5 DEF IsValidPrefix

LEMMA RestartDurabilityInv ==
    ASSUME TypeInv, DurabilityInv, Restart
    PROVE  DurabilityInv'
<1> USE DEF TypeInv
<1>1. /\ synced' = synced /\ synced \in Nat /\ synced <= Len(wal')
      /\ \A i \in 1 .. Len(wal') : wal'[i] = wal[i]
      /\ \A i \in 1 .. Len(wal') : wal'[i].type # "TORN"
      /\ Len(wal') \in Nat
    <2>1. Len(wal') \in Nat
        BY RestartTypeOK, LenProperties DEF TypeOK
    <2>2. synced \in Nat
        BY DEF TypeOK
    <2> QED
        BY <2>1, <2>2, RestartFacts DEF DurabilityInv
<1>2. /\ stage' = "replay" /\ scan' = 1
      /\ UNCHANGED <<state, txn_id, commit_ts, write_set>>
    BY DEF Restart, txnVars
<1>3. \A u \in Txn : Same(u)
    BY <1>2 DEF Same
<1>4. \A i \in 1 .. synced : wal'[i] = wal[i]
    BY <1>1
<1>5. LogWhole' /\ CommitProgress' /\ ReplayProgress'
    BY <1>1, <1>2 DEF LogWhole, CommitProgress, ReplayProgress
<1>6. Acknowledged'
    BY <1>1, <1>2, <1>3, <1>4, AcknowledgedStays
    DEF Acknowledged, DurabilityInv, Serving
<1> QED
    BY <1>5, <1>6 DEF DurabilityInv

\* A recovery's step keeps what it has replayed; at its end everything
\* acknowledged has been.
LEMMA ReplayDurabilityInv ==
    ASSUME TypeInv, DurabilityInv, ReplayStep
    PROVE  DurabilityInv'
<1> USE DEF TypeInv
<1>1. /\ stage = "replay" /\ stage' \in {"replay", "idle"}
      /\ UNCHANGED <<wal, synced, committer, todo, state, txn_id, commit_ts,
                     write_set>>
    BY DEF ReplayStep, ReplayRedo, ReplayCommit, RecoverDone, fileVars,
           commitVars, txnVars
<1>2. /\ Len(wal) \in Nat /\ wal \in Seq(Record) /\ scan \in Nat
      /\ synced \in Nat /\ synced <= Len(wal)
    BY LenProperties DEF TypeOK
<1>3. \A u \in Txn : Same(u)
    BY <1>1 DEF Same
<1>4. \A id : IsCommittedId(id)' <=> IsCommittedId(id)
    BY <1>1 DEF IsCommittedId
<1>5. LogWhole' /\ CommitProgress'
    BY <1>1 DEF DurabilityInv, LogWhole, CommitProgress
<1>6. CASE ReplayRedo
    <2> DEFINE rec == wal[scan]
    <2>1. /\ scan \in 1 .. Len(wal) /\ scan' = scan + 1 /\ stage' = "replay"
          /\ rec \in Record /\ rec.type \in {"REDO_PUT", "REDO_DEL"}
        BY <1>1, <1>2, <1>6 DEF ReplayRedo, commitVars, TypeOK
    <2>2. rec.key \in Key /\ rec.writer \in Txn /\ rec.commit_ts \in Nat
        BY <2>1 DEF Record, Torn
    <2> DEFINE version == NewVersion(rec.commit_ts, rec.writer,
                                     rec.type = "REDO_DEL")
    <2>3. version \in VersionBy(Txn)
        BY <2>2, NewVersionFacts
    <2>4. /\ \A r \in Record : r.type \in {"REDO_PUT", "REDO_DEL"} =>
                (InCatalog(r) => InCatalog(r)')
          /\ IsCommittedId(rec.txn_id) =>
                \A r \in Record : r = rec => InCatalog(r)'
        <3>1. CASE IsCommittedId(rec.txn_id)
            <4>1. catalog' = [catalog EXCEPT ![rec.key] =
                                InstallVersion(@, version)]
                BY <1>6, <3>1 DEF ReplayRedo
            <4>2. version = NewVersion(rec.commit_ts, rec.writer,
                                       rec.type = "REDO_DEL")
                OBVIOUS
            <4> HIDE DEF version
            <4> QED
                BY <2>1, <2>2, <2>3, <4>1, <4>2, InstallStays
        <3>2. CASE ~ IsCommittedId(rec.txn_id)
            BY <1>6, <3>2, CatalogStays DEF ReplayRedo
        <3> QED
            BY <3>1, <3>2
    <2> HIDE DEF version
    <2>5. ReplayProgress'
        <3> SUFFICES ASSUME NEW i \in 1 .. Len(wal), i < scan + 1,
                            wal[i].type \in {"REDO_PUT", "REDO_DEL"},
                            IsCommittedId(wal[i].txn_id)
                     PROVE  \A r : r = wal[i] => InCatalog(r)'
            BY <1>1, <1>4, <2>1, SMTT(30) DEF ReplayProgress, InCatalog
        <3>1. wal[i] \in Record
            BY <1>2
        <3>2. CASE i = scan
            BY <2>4, <3>1, <3>2
        <3>3. CASE i < scan
            <4>1. InCatalog(wal[i])
                BY <1>1, <3>3 DEF DurabilityInv, ReplayProgress
            <4> QED
                BY <2>4, <3>1, <4>1
        <3> QED
            BY <1>2, <3>2, <3>3
    <2>6. Acknowledged'
        BY <1>1, <1>2, <1>3, <2>1, AcknowledgedStays
        DEF Acknowledged, DurabilityInv, Serving
    <2> QED
        BY <1>5, <2>5, <2>6 DEF DurabilityInv
<1>7. CASE ReplayCommit
    <2>1. /\ UNCHANGED catalog /\ scan' = scan + 1 /\ stage' = "replay"
          /\ scan \in 1 .. Len(wal) /\ wal[scan].type = "COMMIT"
        BY <1>1, <1>2, <1>7 DEF ReplayCommit, commitVars, TypeOK
    <2>2. \A r : InCatalog(r) => InCatalog(r)'
        BY <2>1, CatalogStays
    <2>3. ReplayProgress'
        <3>1. ASSUME NEW i \in 1 .. Len(wal), i < scan + 1,
                     wal[i].type \in {"REDO_PUT", "REDO_DEL"},
                     IsCommittedId(wal[i].txn_id)
              PROVE  InCatalog(wal[i])
            <4>1. i # scan
                BY <2>1, <3>1
            <4> QED
                BY <1>1, <1>2, <3>1, <4>1 DEF DurabilityInv, ReplayProgress
        <3> QED
            BY <1>1, <1>4, <2>1, <3>1 DEF ReplayProgress, InCatalog
    <2>4. Acknowledged'
        BY <1>1, <1>2, <1>3, <2>1, AcknowledgedStays
        DEF Acknowledged, DurabilityInv, Serving
    <2> QED
        BY <1>5, <2>3, <2>4 DEF DurabilityInv
<1>8. CASE RecoverDone
    <2>1. UNCHANGED catalog /\ scan > Len(wal) /\ stage' = "idle"
        BY <1>8 DEF RecoverDone
    <2>2. \A r : InCatalog(r) => InCatalog(r)'
        BY <2>1, CatalogStays
    <2>3. Acknowledged'
        <3> SUFFICES ASSUME NEW u \in Txn, state'[u] = "COMMITTED",
                            Written(u)' # {}
                     PROVE  /\ LoggedWithin(u, synced)'
                            /\ \A k \in Written(u)' :
                                   InCatalog(RedoRecord(u, k))'
            BY DEF Acknowledged
        <3>1. Same(u) /\ Written(u)' = Written(u)
            BY <1>3, SameFacts
        <3>2. LoggedWithin(u, synced)
            BY <1>1, <3>1 DEF DurabilityInv, Acknowledged
        <3>3. LoggedWithin(u, synced)'
            BY <1>1, <1>2, <3>1, <3>2, LoggedStays
        <3>4. IsCommittedId(txn_id[u])
            <4>1. PICK i \in 1 .. synced : wal[i] = CommitRecord(u)
                BY <3>2 DEF LoggedWithin
            <4>2. i \in 1 .. Len(wal) /\ wal[i].type = "COMMIT"
                  /\ wal[i].txn_id = txn_id[u]
                BY <1>2, <4>1 DEF CommitRecord
            <4> QED
                BY <4>2 DEF IsCommittedId
        <3>5. ASSUME NEW k \in Written(u)'
              PROVE  InCatalog(RedoRecord(u, k))'
            <4>1. k \in Key
                BY <3>1 DEF Written
            <4>2. PICK i \in 1 .. synced : wal[i] = RedoRecord(u, k)
                BY <3>1, <3>2 DEF LoggedWithin, RedoWithin
            <4>3. /\ i \in 1 .. Len(wal) /\ i < scan
                  /\ wal[i].type \in {"REDO_PUT", "REDO_DEL"}
                  /\ IsCommittedId(wal[i].txn_id)
                BY <1>2, <2>1, <3>4, <4>1, <4>2, RedoRecordFacts
            <4>4. InCatalog(RedoRecord(u, k))
                BY <1>1, <4>2, <4>3 DEF DurabilityInv, ReplayProgress
            <4> QED
                BY <2>2, <3>1, <4>4, SameFacts
        <3> QED
            BY <3>3, <3>5
    <2>4. ReplayProgress'
        BY <2>1 DEF ReplayProgress
    <2> QED
        BY <1>5, <2>3, <2>4 DEF DurabilityInv
<1> QED
    BY <1>6, <1>7, <1>8 DEF ReplayStep

LEMMA NextDurabilityInv ==
    ASSUME WholeWrites, TypeInv, DurabilityInv, [Next]_vars
    PROVE  DurabilityInv'
<1>1. CASE \E t \in Txn : Call(t)
    BY <1>1, CallDurabilityInv
<1>2. CASE CommitStep
    BY <1>2, AppendDurabilityInv, SyncDurabilityInv, InstallDurabilityInv,
       AckDurabilityInv, ReleaseDurabilityInv DEF CommitStep
<1>3. CASE Failure
    BY <1>3, ReleaseDurabilityInv, EndDurabilityInv DEF Failure
<1>4. CASE Restart
    BY <1>4, RestartDurabilityInv
<1>5. CASE ReplayStep
    BY <1>5, ReplayDurabilityInv
<1>6. CASE UNCHANGED vars
    <2>1. \A u \in Txn : Same(u) /\ state'[u] = state[u]
        BY <1>6 DEF vars, txnVars, Same
    <2> QED
        BY <1>6, <2>1, QuietStep DEF vars
<1> QED
    BY <1>1, <1>2, <1>3, <1>4, <1>5, <1>6 DEF Next

-----------------------------------------------------------------------------
(***************************************************************************)
(* However many transactions and threads there are, however often the      *)
(* process is killed, the machine loses power or an append or a sync       *)
(* raises: a commit that was acknowledged is in the synced log, and in the *)
(* catalog whenever the engine serves.  WholeWrites cannot be dropped: a   *)
(* short write in the middle of the log is a counterexample (README.md).   *)
(***************************************************************************)
THEOREM AcknowledgedSurvives ==
    ASSUME WholeWrites
    PROVE  Spec => []Durability
<1>1. Init => DurabilityInv
    BY InitDurabilityInv
<1>2. TypeInv /\ DurabilityInv /\ [Next]_vars => DurabilityInv'
    BY NextDurabilityInv
<1>3. TypeInv /\ DurabilityInv => Durability
    BY InvImpliesDurability DEF TypeInv
<1> QED
    BY <1>1, <1>2, <1>3, TypeInvariant, PTL DEF Spec

\* The log a step leaves begins with what was synced before it.
LEMMA NextKeepsSynced ==
    ASSUME WholeWrites, TypeInv, TypeOK', LogWhole, [Next]_vars
    PROVE  /\ synced <= synced'
           /\ SubSeq(wal', 1, synced) = SubSeq(wal, 1, synced)
<1> USE DEF TypeInv
<1>1. /\ wal \in Seq(Record) /\ wal' \in Seq(Record)
      /\ synced \in Nat /\ synced <= Len(wal)
      /\ Len(wal) \in Nat /\ Len(wal') \in Nat
    BY LenProperties DEF TypeOK
<1>2. SUFFICES /\ synced <= synced' /\ synced <= Len(wal')
               /\ \A i \in 1 .. synced : wal'[i] = wal[i]
    BY <1>1, PrefixesEqual
<1>3. CASE UNCHANGED fileVars
    BY <1>1, <1>3 DEF fileVars
<1>4. CASE \E rec \in Record : WalAppend(rec) /\ UNCHANGED synced
    BY <1>1, <1>4, WalAppendFacts
<1>5. CASE SyncWal
    BY <1>1, <1>5 DEF SyncWal
<1>6. CASE Close \/ FaultPoint \/ Kill \/ PowerLoss
    <2>1. synced' <= Len(wal') /\ synced' \in Nat
        BY DEF TypeOK
    <2> QED
        BY <1>1, <1>6, <2>1, EndFacts
<1>7. CASE Restart
    BY <1>1, <1>7, RestartFacts
<1>8. CASE CommitStep
    <2>1. ASSUME stage = "redo"
          PROVE  committer \in Txn
        BY <2>1, EngineAssumption DEF TypeOK
    <2>2. CASE AppendCommit
        BY <1>4, <2>1, <2>2, RecordTypesOK DEF AppendCommit
    <2>3. ASSUME NEW k \in Key, AppendRedo(k)
          PROVE  \E rec \in Record : WalAppend(rec) /\ UNCHANGED synced
        BY <2>1, <2>3, RecordTypesOK DEF AppendRedo
    <2>4. ASSUME NEW k \in Key, Install(k)
          PROVE  UNCHANGED fileVars
        BY <2>4 DEF Install
    <2>5. CASE Ack \/ Return
        BY <1>3, <2>5 DEF Ack, Return
    <2> QED
        BY <1>3, <1>4, <1>5, <1>8, <2>2, <2>3, <2>4, <2>5 DEF CommitStep
<1>9. CASE \E t \in Txn : Call(t)
    BY <1>3, <1>9
    DEF Call, Begin, Abort, GetWalk, CommitReadOnly, CommitConflict,
        CommitStart, Put, Delete, GetOpen
<1>10. CASE ReplayStep
    BY <1>3, <1>10 DEF ReplayStep, ReplayRedo, ReplayCommit, RecoverDone
<1>11. CASE CommitRaises \/ UNCHANGED vars
    BY <1>3, <1>11 DEF CommitRaises, vars
<1> QED
    BY <1>6, <1>7, <1>8, <1>9, <1>10, <1>11 DEF Next, Failure

(***************************************************************************)
(* What an fdatasync covered is never rewritten or cut off: not by         *)
(* commit(), not by a recovery's truncation at the first torn record, and  *)
(* not by a crash.                                                         *)
(***************************************************************************)
THEOREM SyncedLogIsKept ==
    ASSUME WholeWrites
    PROVE  Spec => SyncedLogKept
<1>1. Init => DurabilityInv
    BY InitDurabilityInv
<1>2. TypeInv /\ DurabilityInv /\ [Next]_vars => DurabilityInv'
    BY NextDurabilityInv
<1>3. TypeInv /\ TypeInv' /\ DurabilityInv /\ [Next]_vars
      => [/\ synced <= synced'
          /\ SubSeq(wal', 1, synced) = SubSeq(wal, 1, synced)]_vars
    BY NextKeepsSynced DEF TypeInv, DurabilityInv
<1> QED
    BY <1>1, <1>2, <1>3, TypeInvariant, PTL DEF Spec, SyncedLogKept

-----------------------------------------------------------------------------
(***************************************************************************)
(* What a crash leaves visible.  A redo record without its COMMIT is       *)
(* harmless until a later process gives its id to another transaction; the *)
(* run ghost_redo shows what happens then.  The theorems from here on are  *)
(* about the crashes after which that cannot be: any number of them at the *)
(* fault points compiled into the code, or a single one anywhere.          *)
(***************************************************************************)

FaultPointsOnly == Incidents \subseteq {"close", "fault"}

OneCrash == MaxIncidents <= 1 /\ Incidents \cap {"raise", "short"} = {}

CleanRestarts == FaultPointsOnly \/ OneCrash

-----------------------------------------------------------------------------
\* The invariant: what is in the log

Redo(i) == wal[i].type \in {"REDO_PUT", "REDO_DEL"}

CommitLogged(t) == \E i \in 1 .. Len(wal) : wal[i] = CommitRecord(t)

(***************************************************************************)
(* A record of the log is the one its transaction writes, which is dead,   *)
(* committed or about to be, and writes nothing else any more.             *)
(***************************************************************************)
RecordsKnown ==
    \A i \in 1 .. Len(wal) : wal[i].type # "TORN" =>
        LET t == wal[i].writer
        IN  /\ Written(t) # {}
            /\ state[t] \in {"ACTIVE", "COMMITTED", "LOST"}
            /\ state[t] = "ACTIVE" =>
                 t = committer /\ stage \in {"redo", "sync", "install"}
            /\ wal[i].type = "COMMIT" => wal[i] = CommitRecord(t)
            /\ Redo(i) => /\ wal[i].key \in Written(t)
                          /\ wal[i] = RedoRecord(t, wal[i].key)

\* A transaction has one redo record of a key.
RedoOnce ==
    \A i, j \in 1 .. Len(wal) :
        /\ Redo(i) /\ Redo(j)
        /\ wal[i].writer = wal[j].writer /\ wal[i].key = wal[j].key
        => i = j

\* A COMMIT has all of its redo records before it.
CommitsComplete ==
    \A i \in 1 .. Len(wal) : wal[i].type = "COMMIT" =>
        \A k \in Written(wal[i].writer) : RedoWithin(wal[i].writer, k, i)

\* The records of a commit in progress are the end of the log.
CommitterAlone ==
    stage = "redo" =>
        \A i \in 1 .. Len(wal) : wal[i].writer = committer =>
            /\ Redo(i) /\ wal[i].key \notin todo
            /\ \A j \in i .. Len(wal) : wal[j].writer = committer

\* commit() handles what is in the write set.
CommitterWrites ==
    stage \in {"redo", "sync", "install"} =>
        Written(committer) # {} /\ todo \subseteq Written(committer)

-----------------------------------------------------------------------------
\* The invariant: ids

\* A crash at a fault point tears at most the last record, and leaves no redo
\* record without its COMMIT.
NoOrphans ==
    FaultPointsOnly => \A i \in 1 .. Len(wal) :
        /\ wal[i].type = "TORN" => i = Len(wal)
        /\ Redo(i) => \/ CommitLogged(wal[i].writer)
                      \/ stage = "redo" /\ wal[i].writer = committer

\* The first process starts with no log.
FirstProcess == incidents = 0 /\ ~ Serving => wal = << >>

\* No redo record without its COMMIT is left by an earlier process.
Untouched == FaultPointsOnly \/ incidents = 0

\* The ids this process gives out are in no record of an earlier one ...
IdsFresh ==
    Untouched /\ Serving =>
        \A i \in 1 .. Len(wal) : wal[i].type # "TORN" =>
            /\ wal[i].txn_id < next_txn_id
            /\ \A t \in Txn : state[t] = "ACTIVE" /\ wal[i].txn_id = txn_id[t]
                                  => wal[i].writer = t

\* ... so that a recovery finds an id to stand for one transaction.
IdsSound ==
    Untouched \/ ~ Serving =>
        \A i, j \in 1 .. Len(wal) :
            /\ wal[i].type # "TORN" /\ wal[j].type # "TORN"
            /\ wal[i].txn_id = wal[j].txn_id
            => wal[i].writer = wal[j].writer

-----------------------------------------------------------------------------
\* The invariant: what is in the catalog

(***************************************************************************)
(* A version is of a transaction with a COMMIT in the log, and an active   *)
(* one has a version only while its commit is installing them.             *)
(***************************************************************************)
CatalogKnown ==
    \A k \in Key : \A i \in 1 .. Len(catalog[k]) :
        LET t == catalog[k][i].writer
        IN  /\ CommitLogged(t)
            /\ k \in Written(t)
            /\ catalog[k][i].begin_ts = commit_ts[t]
            /\ state[t] = "ACTIVE" => stage = "install"
            /\ stage = "replay" =>
                 \E j \in 1 .. Len(wal) : /\ j < scan
                                          /\ wal[j] = RedoRecord(t, k)

\* The commits a recovery found are in the catalog with all their writes.
LostReplayed ==
    Serving => \A t \in Txn : state[t] = "LOST" /\ CommitLogged(t) =>
        \A k \in Written(t) : InCatalog(RedoRecord(t, k))

-----------------------------------------------------------------------------
\* The invariant: first committer wins

\* Who logs a write of a key began after the commits of the key before it.
LogWins ==
    \A i, j \in 1 .. Len(wal) :
        /\ i < j /\ Redo(i) /\ Redo(j) /\ wal[i].key = wal[j].key
        /\ wal[i].writer # wal[j].writer /\ CommitLogged(wal[i].writer)
        => wal[i].commit_ts <= start_ts[wal[j].writer]

\* So does a commit in progress, by the log and by the catalog.
CommitterWins ==
    stage \in {"redo", "sync", "install"} => \A k \in Written(committer) :
        /\ stage = "redo" => \A i \in 1 .. Len(wal) :
             /\ Redo(i) /\ wal[i].key = k /\ CommitLogged(wal[i].writer)
             => wal[i].commit_ts <= start_ts[committer]
        /\ stage \in {"redo", "sync"} \/ k \in todo =>
             \A i \in 1 .. Len(catalog[k]) :
                 catalog[k][i].begin_ts <= start_ts[committer]

LogInv ==
    /\ RecordsKnown /\ RedoOnce /\ CommitsComplete
    /\ CommitterAlone /\ CommitterWrites
IdInv  == NoOrphans /\ FirstProcess /\ IdsFresh /\ IdsSound
VisInv == CatalogKnown /\ LostReplayed
WinInv == LogWins /\ CommitterWins /\ FirstCommitterWins

LEMMA CleanFacts ==
    ASSUME CleanRestarts
    PROVE  WholeWrites /\ NoErrors
    BY DEF CleanRestarts, FaultPointsOnly, OneCrash, WholeWrites, NoErrors

-----------------------------------------------------------------------------
\* What the steps do

Ends == Close \/ FaultPoint \/ Kill \/ PowerLoss

\* Without errors a step is one of these.
LEMMA StepKinds ==
    ASSUME NoErrors, [Next]_vars
    PROVE  \/ \E t \in Txn : Call(t)
           \/ \E k \in Key : AppendRedo(k) \/ Install(k)
           \/ AppendCommit
           \/ SyncWal \/ Ack \/ Return
           \/ Ends
           \/ Restart
           \/ ReplayStep
           \/ UNCHANGED vars
<1>1. ~ CommitRaises
    BY DEF CommitRaises, Incident, NoErrors
<1> QED
    BY <1>1 DEF Next, CommitStep, Failure, Ends

\* A call changes no more than the transaction it is made on, which is not
\* the committer's and has no outcome yet.
LEMMA CallFacts ==
    ASSUME TypeInv, NEW t \in Txn, Call(t)
    PROVE  /\ UNCHANGED <<wal, synced, catalog, scan, incidents>>
           /\ Serving /\ Serving'
           /\ \A u \in Txn \ {t} : /\ Same(u) /\ start_ts'[u] = start_ts[u]
                                    /\ state'[u] = state[u]
           /\ \/ Same(t) /\ start_ts'[t] = start_ts[t] /\ state'[t] = state[t]
              \/ t # committer /\ state[t] \in {"UNBORN", "ACTIVE"}
           /\ \/ UNCHANGED <<stage, committer, todo>>
              \/ stage = "idle" /\ CommitStart(t)
<1> USE DEF TypeInv
<1>1. CASE GetWalk(t)
    BY <1>1 DEF GetWalk, CursorOK, fileVars, commitVars, txnVars, Same, Serving
<1>2. ASSUME NEW k \in Key, GetOpen(t, k)
      PROVE  /\ UNCHANGED <<wal, synced, catalog, scan, incidents, stage,
                            committer, todo, txnVars>>
             /\ Serving
    BY <1>2 DEF GetOpen, MayUse, MayCall, fileVars, commitVars
<1>3. CASE \E k \in Key : GetOpen(t, k)
    BY <1>2, <1>3 DEF txnVars, Same, Serving
<1>4. ASSUME NEW k \in Key, Put(t, k) \/ Delete(t, k)
      PROVE  /\ UNCHANGED <<wal, synced, catalog, scan, incidents, stage,
                            committer, todo>>
             /\ Serving /\ t # committer /\ state[t] = "ACTIVE"
             /\ \A u \in Txn \ {t} : /\ Same(u) /\ start_ts'[u] = start_ts[u]
                                      /\ state'[u] = state[u]
    BY <1>4 DEF Put, Delete, MayUse, MayCall, fileVars, commitVars, Same, TypeOK
<1>5. CASE \E k \in Key : Put(t, k) \/ Delete(t, k)
    BY <1>4, <1>5 DEF Serving
<1>6. CASE Begin(t) \/ Abort(t) \/ CommitReadOnly(t) \/ CommitConflict(t)
           \/ CommitStart(t)
    <2>1. /\ UNCHANGED <<wal, synced, catalog, scan, incidents>>
          /\ Serving /\ Serving' /\ t # committer
          /\ state[t] \in {"UNBORN", "ACTIVE"}
          /\ \/ UNCHANGED <<stage, committer, todo>>
             \/ stage = "idle" /\ CommitStart(t)
        BY <1>6 DEF Begin, Abort, CommitReadOnly, CommitConflict, CommitStart,
                    MayCommit, MayUse, MayCall, fileVars, commitVars, Serving
    <2>2. \A u \in Txn \ {t} : /\ Same(u) /\ start_ts'[u] = start_ts[u]
                                /\ state'[u] = state[u]
        BY <1>6 DEF Begin, Abort, CommitReadOnly, CommitConflict, CommitStart,
                    Same, TypeOK
    <2> QED
        BY <2>1, <2>2
<1> QED
    BY <1>1, <1>3, <1>5, <1>6 DEF Call

\* No step but a call changes what a transaction is.
LEMMA OtherFacts ==
    ASSUME CommitStep \/ Ends \/ Restart \/ ReplayStep \/ UNCHANGED vars
    PROVE  /\ UNCHANGED <<txn_id, start_ts, commit_ts, write_set>>
           /\ \A t \in Txn : Same(t) /\ start_ts'[t] = start_ts[t]
<1>1. UNCHANGED <<txn_id, start_ts, commit_ts, write_set>>
    BY DEF CommitStep, AppendRedo, Install, AppendCommit, SyncWal, Ack, Return,
           Ends, Close, FaultPoint, Kill, PowerLoss, ProcessEnds, Restart,
           ReplayStep, ReplayRedo, ReplayCommit, RecoverDone, vars, txnVars
<1> QED
    BY <1>1 DEF Same

(***************************************************************************)
(* The transactions of the log stay what they are, and one of them that is *)
(* still active goes on with its commit.                                   *)
(***************************************************************************)
WriterKept(t) ==
    /\ Same(t) /\ start_ts'[t] = start_ts[t]
    /\ state'[t] \in {"ACTIVE", "COMMITTED", "LOST"}
    /\ state'[t] = "ACTIVE" =>
         /\ state[t] = "ACTIVE" /\ committer' = t
         /\ stage' \in {"redo", "sync", "install"}
         /\ stage = "install" => stage' = "install"
    /\ state'[t] = "LOST" => state[t] = "LOST" \/ ~ Serving'

LEMMA RecordFacts ==
    ASSUME TypeOK, NEW i \in 1 .. Len(wal), wal[i].type # "TORN"
    PROVE  /\ wal[i] \in Record /\ wal[i].writer \in Txn
           /\ wal[i].type = "COMMIT" \/ Redo(i)
           /\ Redo(i) => wal[i].key \in Key
           /\ wal[i].commit_ts \in Nat /\ wal[i].txn_id \in Nat
<1>1. wal[i] \in Record
    BY LogTypes
<1> QED
    BY <1>1 DEF Record, Torn, Redo

LEMMA WritersKept ==
    ASSUME NoErrors, TypeInv, RecordsKnown, [Next]_vars,
           NEW i \in 1 .. Len(wal), wal[i].type # "TORN",
           NEW t \in Txn, t = wal[i].writer
    PROVE  WriterKept(t)
<1> USE DEF TypeInv
<1>1. /\ state[t] \in {"ACTIVE", "COMMITTED", "LOST"}
      /\ state[t] = "ACTIVE" =>
           t = committer /\ stage \in {"redo", "sync", "install"}
    BY DEF RecordsKnown
<1>2. ASSUME NEW u \in Txn, Call(u)
      PROVE  WriterKept(t)
    <2>1. Same(t) /\ start_ts'[t] = start_ts[t] /\ state'[t] = state[t]
        BY <1>1, <1>2, CallFacts
    <2>2. \/ UNCHANGED <<stage, committer>>
          \/ stage = "idle"
        BY <1>2, CallFacts
    <2> QED
        BY <1>1, <2>1, <2>2 DEF WriterKept
<1>3. CASE Ends
    <2>1. state' = [u \in Txn |-> IF state[u] = "ACTIVE" THEN "LOST"
                                                         ELSE state[u]]
          /\ stage' = "down"
        BY <1>3 DEF Ends, Close, FaultPoint, Kill, PowerLoss, ProcessEnds
    <2>2. state'[t] \in {"COMMITTED", "LOST"} /\ ~ Serving'
        BY <1>1, <2>1 DEF Serving
    <2> QED
        BY <1>3, <2>2, OtherFacts DEF WriterKept
<1>4. CASE Ack
    <2>1. state[t] = "ACTIVE" => t = committer
        BY <1>1
    <2>2. state' = [state EXCEPT ![committer] = "COMMITTED"]
        BY <1>4 DEF Ack
    <2>3. \/ state'[t] = "COMMITTED"
          \/ state'[t] = state[t] /\ state[t] # "ACTIVE"
        BY <1>1, <2>2 DEF TypeOK
    <2>4. Same(t) /\ start_ts'[t] = start_ts[t]
        BY <1>4, OtherFacts DEF CommitStep
    <2> QED
        BY <1>1, <2>3, <2>4 DEF WriterKept
<1>5. ASSUME NEW k \in Key, AppendRedo(k) \/ Install(k)
      PROVE  WriterKept(t)
    <2>1. UNCHANGED <<stage, committer, state>>
        BY <1>5 DEF AppendRedo, Install, txnVars
    <2>2. Same(t) /\ start_ts'[t] = start_ts[t]
        BY <1>5, OtherFacts DEF CommitStep
    <2> QED
        BY <1>1, <2>1, <2>2 DEF WriterKept
<1>6. CASE AppendCommit \/ SyncWal \/ Return
    <2>1. /\ stage \in {"redo", "sync", "ack"} /\ UNCHANGED state
          /\ stage # "ack" => /\ committer' = committer
                              /\ stage' \in {"sync", "install"}
        BY <1>6 DEF AppendCommit, SyncWal, Return, txnVars
    <2>2. Same(t) /\ start_ts'[t] = start_ts[t]
        BY <1>6, OtherFacts DEF CommitStep
    <2> QED
        BY <1>1, <2>1, <2>2 DEF WriterKept
<1>7. CASE Restart \/ ReplayStep
    <2>1. stage \in {"down", "replay"} /\ UNCHANGED state
        BY <1>7 DEF Restart, ReplayStep, ReplayRedo, ReplayCommit, RecoverDone,
                    txnVars
    <2> QED
        BY <1>1, <1>7, <2>1, OtherFacts DEF WriterKept
<1>8. CASE UNCHANGED vars
    <2>1. UNCHANGED <<stage, committer, state>>
        BY <1>8 DEF vars, commitVars, txnVars
    <2> QED
        BY <1>1, <1>8, <2>1, OtherFacts DEF WriterKept
<1> QED
    BY <1>2, <1>3, <1>4, <1>5, <1>6, <1>7, <1>8, StepKinds

\* What a commit appends, if it is written in full.
LEMMA AppendRedoFacts ==
    ASSUME WholeWrites, TypeOK, NEW k \in Key, AppendRedo(k)
    PROVE  /\ stage = "redo" /\ committer \in Txn /\ k \in todo
           /\ Len(wal) \in Nat /\ Len(wal') = Len(wal) + 1
           /\ \A i \in 1 .. Len(wal) : wal'[i] = wal[i]
           /\ wal'[Len(wal) + 1] = RedoRecord(committer, k)
           /\ todo' = todo \ {k}
           /\ UNCHANGED <<synced, catalog, next_ts, next_txn_id, stage,
                          committer, scan, state, incidents>>
<1>1. committer \in Txn /\ wal \in Seq(Record) /\ Len(wal) \in Nat
    BY EngineAssumption, LenProperties DEF AppendRedo, TypeOK
<1>2. wal' = Append(wal, RedoRecord(committer, k)) /\ incidents' = incidents
    BY DEF AppendRedo, WalAppend, Incident, WholeWrites
<1>3. RedoRecord(committer, k) \in Record
    BY <1>1, RecordTypesOK
<1> QED
    BY <1>1, <1>2, <1>3, AppendFacts DEF AppendRedo, counterVars, txnVars

LEMMA AppendCommitFacts ==
    ASSUME WholeWrites, TypeOK, AppendCommit
    PROVE  /\ stage = "redo" /\ committer \in Txn /\ todo = {}
           /\ Len(wal) \in Nat /\ Len(wal') = Len(wal) + 1
           /\ \A i \in 1 .. Len(wal) : wal'[i] = wal[i]
           /\ wal'[Len(wal) + 1] = CommitRecord(committer)
           /\ stage' = "sync"
           /\ UNCHANGED <<synced, catalog, next_ts, next_txn_id, todo,
                          committer, scan, state, incidents>>
<1>1. committer \in Txn /\ wal \in Seq(Record) /\ Len(wal) \in Nat
    BY EngineAssumption, LenProperties DEF AppendCommit, TypeOK
<1>2. wal' = Append(wal, CommitRecord(committer)) /\ incidents' = incidents
    BY DEF AppendCommit, WalAppend, Incident, WholeWrites
<1>3. CommitRecord(committer) \in Record
    BY <1>1, RecordTypesOK
<1> QED
    BY <1>1, <1>2, <1>3, AppendFacts DEF AppendCommit, counterVars, txnVars

\* No step adds a record but those of a commit.
LEMMA NoNewRecordSteps ==
    ASSUME NoErrors, TypeInv, [Next]_vars,
           ~ AppendCommit, \A k \in Key : ~ AppendRedo(k)
    PROVE  NoNewRecord
<1> USE DEF TypeInv
<1>1. CASE UNCHANGED wal
    BY <1>1 DEF NoNewRecord
<1>2. CASE Ends
    BY <1>2, EndNoNewRecord DEF Ends
<1>3. CASE Restart
    BY <1>3, RestartNoNewRecord
<1>4. ASSUME NEW t \in Txn, Call(t)
      PROVE  UNCHANGED wal
    BY <1>4, CallFacts
<1>5. ASSUME \/ \E k \in Key : Install(k)
             \/ SyncWal \/ Ack \/ Return \/ ReplayStep \/ UNCHANGED vars
      PROVE  UNCHANGED wal
    BY <1>5 DEF Install, SyncWal, Ack, Return, ReplayStep, ReplayRedo,
                ReplayCommit, RecoverDone, vars, fileVars
<1> QED
    BY <1>1, <1>2, <1>3, <1>4, <1>5, StepKinds

-----------------------------------------------------------------------------
\* What is in the log

LEMMA NextRecordsKnown ==
    ASSUME CleanRestarts, TypeInv, DurabilityInv, LogInv, [Next]_vars
    PROVE  RecordsKnown'
<1> USE DEF TypeInv
<1>0. WholeWrites /\ NoErrors /\ RecordsKnown
    BY CleanFacts DEF LogInv
<1> DEFINE Known(i) ==
        wal[i].type # "TORN" =>
            LET t == wal[i].writer
            IN  /\ Written(t) # {}
                /\ state[t] \in {"ACTIVE", "COMMITTED", "LOST"}
                /\ state[t] = "ACTIVE" =>
                     t = committer /\ stage \in {"redo", "sync", "install"}
                /\ wal[i].type = "COMMIT" => wal[i] = CommitRecord(t)
                /\ Redo(i) => /\ wal[i].key \in Written(t)
                              /\ wal[i] = RedoRecord(t, wal[i].key)
<1>1. ASSUME NEW i \in 1 .. Len(wal), wal'[i] = wal[i]
      PROVE  Known(i)'
    <2> SUFFICES ASSUME wal[i].type # "TORN"
                 PROVE  Known(i)'
        BY <1>1
    <2>1. PICK t \in Txn : t = wal[i].writer
        BY RecordFacts
    <2>2. WriterKept(t)
        BY <1>0, <2>1, WritersKept
    <2>3. /\ Written(t)' = Written(t) /\ CommitRecord(t)' = CommitRecord(t)
          /\ \A k : RedoRecord(t, k)' = RedoRecord(t, k)
        BY <2>2, SameFacts DEF WriterKept
    <2>4. /\ Written(t) # {}
          /\ wal[i].type = "COMMIT" => wal[i] = CommitRecord(t)
          /\ Redo(i) => /\ wal[i].key \in Written(t)
                        /\ wal[i] = RedoRecord(t, wal[i].key)
        BY <1>0, <2>1 DEF RecordsKnown
    <2>5. PICK r : r = wal[i]
        OBVIOUS
    <2>6. /\ r.type = "COMMIT" => r = CommitRecord(t)'
          /\ r.type \in {"REDO_PUT", "REDO_DEL"} =>
               /\ r.key \in Written(t)'
               /\ r = RedoRecord(t, r.key)'
        BY <2>3, <2>4, <2>5 DEF Redo
    <2>7. wal'[i] = r /\ t = r.writer
        BY <1>1, <2>1, <2>5
    <2>8. state'[t] = "ACTIVE" =>
             t = committer' /\ stage' \in {"redo", "sync", "install"}
        BY <2>2 DEF WriterKept
    <2> QED
        BY <2>2, <2>3, <2>4, <2>6, <2>7, <2>8 DEF WriterKept, Redo
<1>2. ASSUME NEW n, n = Len(wal), NEW c \in Txn, c = committer,
             stage = "redo",
             Len(wal') = n + 1, \A i \in 1 .. n : wal'[i] = wal[i],
             UNCHANGED <<committer, state>>, stage' \in {"redo", "sync"},
             \/ wal'[n + 1] = CommitRecord(c)
             \/ \E k \in todo : wal'[n + 1] = RedoRecord(c, k),
             UNCHANGED <<txn_id, commit_ts, write_set>>
      PROVE  RecordsKnown'
    <2>1. \A i \in 1 .. n : Known(i)'
        BY <1>1, <1>2
    <2>2. Written(c) # {} /\ todo \subseteq Written(c) /\ todo \subseteq Key
          /\ state[c] = "ACTIVE"
        BY <1>2 DEF LogInv, CommitterWrites, TypeOK, DurabilityInv,
                    CommitProgress
    <2>3. /\ Written(c)' = Written(c) /\ CommitRecord(c)' = CommitRecord(c)
          /\ \A k : RedoRecord(c, k)' = RedoRecord(c, k)
        BY <1>2, SameFacts DEF Same
    <2>4. Known(n + 1)'
        <3>0. PICK m : m = n + 1
            OBVIOUS
        <3>1. CASE wal'[m] = CommitRecord(c)
            <4>1. wal'[m].type = "COMMIT" /\ wal'[m].writer = c
                BY <3>1 DEF CommitRecord
            <4>2. Known(m)'
                BY <1>2, <2>2, <2>3, <3>1, <4>1 DEF Redo
            <4> QED
                BY <1>2, <3>0, <4>2 DEF Redo
        <3>2. CASE \E k \in todo : wal'[m] = RedoRecord(c, k)
            <4>1. PICK k \in todo : wal'[m] = RedoRecord(c, k)
                BY <3>2
            <4>2. /\ wal'[m].type \in {"REDO_PUT", "REDO_DEL"}
                  /\ wal'[m].writer = c /\ wal'[m].key = k
                BY <2>2, <4>1, RedoRecordFacts
            <4>3. k \in Written(c)' /\ wal'[m] = RedoRecord(c, k)'
                BY <2>2, <2>3, <4>1
            <4>4. Known(m)'
                BY <1>2, <2>2, <2>3, <4>2, <4>3 DEF Redo
            <4> QED
                BY <1>2, <3>0, <4>4 DEF Redo
        <3> QED
            BY <1>2, <3>0, <3>1, <3>2
    <2>5. n \in Nat
        BY <1>2, LogTypes
    <2>6. \A i \in 1 .. n + 1 : i \in 1 .. n \/ i = n + 1
        BY <2>5
    <2>7. \A i \in 1 .. n + 1 : Known(i)'
        BY <2>1, <2>4, <2>6
    <2> QED
        BY <1>2, <2>7 DEF RecordsKnown
<1>3. ASSUME NEW k \in Key, AppendRedo(k)
      PROVE  RecordsKnown'
    BY <1>0, <1>2, <1>3, AppendRedoFacts, OtherFacts DEF CommitStep
<1>4. CASE AppendCommit
    BY <1>0, <1>2, <1>4, AppendCommitFacts, OtherFacts DEF CommitStep
<1>5. CASE ~ AppendCommit /\ \A k \in Key : ~ AppendRedo(k)
    <2>1. NoNewRecord
        BY <1>0, <1>5, NoNewRecordSteps
    <2>2. \A i \in 1 .. Len(wal') : Known(i)'
        <3> SUFFICES ASSUME NEW i \in 1 .. Len(wal')
                     PROVE  Known(i)'
            OBVIOUS
        <3> QED
            BY <1>1, <2>1 DEF NoNewRecord
    <2> QED
        BY <2>2 DEF RecordsKnown
<1> QED
    BY <1>3, <1>4, <1>5

LEMMA NextRedoOnce ==
    ASSUME CleanRestarts, TypeInv, DurabilityInv, LogInv, [Next]_vars
    PROVE  RedoOnce'
<1> USE DEF TypeInv
<1>0. WholeWrites /\ NoErrors /\ RedoOnce /\ CommitterAlone
    BY CleanFacts DEF LogInv
<1>1. CASE ~ AppendCommit /\ \A k \in Key : ~ AppendRedo(k)
    <2>1. NoNewRecord
        BY <1>0, <1>1, NoNewRecordSteps
    <2>2. \A i \in 1 .. Len(wal') : Redo(i)' =>
             i \in 1 .. Len(wal) /\ wal'[i] = wal[i] /\ Redo(i)
        BY <2>1 DEF NoNewRecord, Redo
    <2> QED
        BY <1>0, <2>2 DEF RedoOnce
<1>2. CASE AppendCommit
    <2>1. /\ Len(wal') = Len(wal) + 1 /\ Len(wal) \in Nat
          /\ \A i \in 1 .. Len(wal) : wal'[i] = wal[i]
          /\ wal'[Len(wal) + 1].type = "COMMIT"
        BY <1>0, <1>2, AppendCommitFacts DEF CommitRecord
    <2>2. \A i \in 1 .. Len(wal') : Redo(i)' =>
             i \in 1 .. Len(wal) /\ wal'[i] = wal[i] /\ Redo(i)
        BY <2>1 DEF Redo
    <2> QED
        BY <1>0, <2>2 DEF RedoOnce
<1>3. ASSUME NEW k \in Key, AppendRedo(k)
      PROVE  RedoOnce'
    <2>1. PICK n \in Nat : n = Len(wal)
        BY LogTypes
    <2>2. /\ Len(wal') = n + 1 /\ \A i \in 1 .. n : wal'[i] = wal[i]
          /\ wal'[n + 1].writer = committer /\ wal'[n + 1].key = k
          /\ k \in todo /\ stage = "redo"
        BY <1>0, <1>3, <2>1, AppendRedoFacts, RedoRecordFacts
    <2>3. \A i \in 1 .. n : Redo(i) /\ wal[i].writer = committer =>
              wal[i].key # k
        BY <1>0, <2>1, <2>2 DEF CommitterAlone
    <2>4. \A i \in 1 .. n + 1 : i \in 1 .. n \/ i = n + 1
        OBVIOUS
    <2>5. \A i \in 1 .. n : Redo(i)' => Redo(i)
        BY <2>2 DEF Redo
    <2> SUFFICES ASSUME NEW i \in 1 .. n + 1, NEW j \in 1 .. n + 1,
                        Redo(i)', Redo(j)',
                        wal'[i].writer = wal'[j].writer,
                        wal'[i].key = wal'[j].key
                 PROVE  i = j
        BY <2>2 DEF RedoOnce
    <2>6. CASE i \in 1 .. n /\ j \in 1 .. n
        BY <1>0, <2>1, <2>2, <2>5, <2>6 DEF RedoOnce
    <2>7. CASE i = n + 1 \/ j = n + 1
        BY <2>2, <2>3, <2>4, <2>5, <2>7
    <2> QED
        BY <2>4, <2>6, <2>7
<1> QED
    BY <1>1, <1>2, <1>3

\* A COMMIT is appended when its commit has nothing more to log.
LEMMA NextCommitsComplete ==
    ASSUME CleanRestarts, TypeInv, DurabilityInv, LogInv, [Next]_vars
    PROVE  CommitsComplete'
<1> USE DEF TypeInv
<1>0. WholeWrites /\ NoErrors /\ RecordsKnown /\ CommitsComplete
    BY CleanFacts DEF LogInv
<1> DEFINE Complete(i) == wal[i].type = "COMMIT" =>
                \A k \in Written(wal[i].writer) : RedoWithin(wal[i].writer, k, i)
<1>1. ASSUME NEW i \in 1 .. Len(wal), wal[i].type = "COMMIT",
             \A j \in 1 .. i : wal'[j] = wal[j]
      PROVE  Complete(i)'
    <2>1. PICK t \in Txn : t = wal[i].writer
        BY <1>1, RecordFacts
    <2>2. Same(t)
        BY <1>0, <1>1, <2>1, WritersKept DEF WriterKept
    <2>3. i \in Nat /\ i \in 1 .. i
        OBVIOUS
    <2>4. \A k : RedoWithin(t, k, i) => RedoWithin(t, k, i)'
        BY <1>1, <2>2, <2>3, SameFacts DEF RedoWithin
    <2>5. wal'[i].writer = t
        BY <1>1, <2>1, <2>3
    <2>6. \A k \in Written(t)' : RedoWithin(t, k, i)'
        BY <1>0, <1>1, <2>1, <2>2, <2>4, SameFacts DEF CommitsComplete
    <2> QED
        BY <2>5, <2>6 DEF Written, RedoWithin, RedoRecord
<1>2. CASE ~ AppendCommit /\ \A k \in Key : ~ AppendRedo(k)
    <2>1. NoNewRecord
        BY <1>0, <1>2, NoNewRecordSteps
    <2>2. Len(wal') \in Nat
        BY NextTypeOK, LenProperties DEF TypeOK
    <2> SUFFICES ASSUME NEW i \in 1 .. Len(wal'), wal'[i].type = "COMMIT"
                 PROVE  Complete(i)'
        BY DEF CommitsComplete
    <2>3. i \in 1 .. Len(wal) /\ wal[i].type = "COMMIT"
        BY <2>1 DEF NoNewRecord
    <2>4. \A j \in 1 .. i : wal'[j] = wal[j]
        BY <2>1, <2>2 DEF NoNewRecord
    <2> QED
        BY <1>1, <2>3, <2>4
<1>3. ASSUME NEW k \in Key, AppendRedo(k)
      PROVE  CommitsComplete'
    <2>1. /\ Len(wal') = Len(wal) + 1 /\ Len(wal) \in Nat
          /\ \A i \in 1 .. Len(wal) : wal'[i] = wal[i]
          /\ wal'[Len(wal) + 1].type # "COMMIT"
        BY <1>0, <1>3, AppendRedoFacts, RedoRecordFacts
    <2> SUFFICES ASSUME NEW i \in 1 .. Len(wal'), wal'[i].type = "COMMIT"
                 PROVE  Complete(i)'
        BY DEF CommitsComplete
    <2>2. i \in 1 .. Len(wal) /\ \A j \in 1 .. i : j \in 1 .. Len(wal)
        BY <2>1
    <2> QED
        BY <1>1, <2>1, <2>2
<1>4. CASE AppendCommit
    <2>1. PICK n \in Nat, c \in Txn : n = Len(wal) /\ c = committer
        BY <1>0, <1>4, AppendCommitFacts
    <2>2. /\ Len(wal') = n + 1 /\ todo = {} /\ stage = "redo"
          /\ \A i \in 1 .. n : wal'[i] = wal[i]
          /\ wal'[n + 1] = CommitRecord(c)
        BY <1>0, <1>4, <2>1, AppendCommitFacts
    <2>3. Same(c) /\ wal'[n + 1].writer = c
        BY <1>4, <2>2, OtherFacts DEF CommitStep, CommitRecord
    <2>4. \A k \in Written(c)' : RedoWithin(c, k, n + 1)'
        <3>1. \A k \in Written(c) : RedoWithin(c, k, n)
            BY <2>1, <2>2 DEF DurabilityInv, CommitProgress
        <3>2. \A k : RedoWithin(c, k, n) => RedoWithin(c, k, n + 1)'
            BY <2>2, <2>3, LoggedStays
        <3> QED
            BY <2>3, <3>1, <3>2, SameFacts
    <2> SUFFICES ASSUME NEW i \in 1 .. n + 1, wal'[i].type = "COMMIT"
                 PROVE  Complete(i)'
        BY <2>2 DEF CommitsComplete
    <2>5. CASE i = n + 1
        BY <2>3, <2>4, <2>5 DEF Written, RedoWithin, RedoRecord
    <2>6. CASE i # n + 1
        <3>1. i \in 1 .. n /\ \A j \in 1 .. i : j \in 1 .. n
            BY <2>6
        <3> QED
            BY <1>1, <2>1, <2>2, <3>1
    <2> QED
        BY <2>5, <2>6
<1> QED
    BY <1>2, <1>3, <1>4

\* Every stage of a commit is entered from the one before it.
LEMMA StageFacts ==
    ASSUME NoErrors, TypeInv, [Next]_vars
    PROVE  /\ stage' = "redo" =>
                \/ stage = "redo" /\ \E k \in Key : AppendRedo(k)
                \/ stage = "idle" /\ \E t \in Txn : CommitStart(t)
                \/ UNCHANGED <<wal, stage, committer, todo, catalog>>
           /\ stage' = "sync" =>
                \/ AppendCommit
                \/ UNCHANGED <<wal, stage, committer, todo, catalog>>
           /\ stage' = "install" =>
                \/ SyncWal
                \/ \E k \in Key : Install(k)
                \/ UNCHANGED <<wal, stage, committer, todo, catalog>>
<1>1. ASSUME NEW t \in Txn, Call(t)
      PROVE  \/ stage' = "redo" /\ stage = "idle" /\ CommitStart(t)
             \/ UNCHANGED <<wal, stage, committer, todo, catalog>>
    BY <1>1, CallFacts DEF CommitStart
<1>2. ASSUME NEW k \in Key, AppendRedo(k) \/ Install(k)
      PROVE  \/ stage' = "redo" /\ stage = "redo" /\ AppendRedo(k)
             \/ stage' = "install" /\ Install(k)
    BY <1>2 DEF AppendRedo, Install
<1>3. CASE AppendCommit \/ SyncWal \/ Ack \/ Return \/ Ends \/ Restart
           \/ ReplayStep
    BY <1>3 DEF AppendCommit, SyncWal, Ack, Return, Ends, Close, FaultPoint,
                Kill, PowerLoss, ProcessEnds, Restart, ReplayStep, ReplayRedo,
                ReplayCommit, RecoverDone, commitVars
<1>4. CASE UNCHANGED vars
    BY <1>4 DEF vars, fileVars, commitVars
<1> QED
    BY <1>1, <1>2, <1>3, <1>4, StepKinds

LEMMA NextCommitterWrites ==
    ASSUME CleanRestarts, TypeInv, DurabilityInv, LogInv, [Next]_vars
    PROVE  CommitterWrites'
<1> USE DEF TypeInv
<1>0. WholeWrites /\ NoErrors /\ CommitterWrites
    BY CleanFacts DEF LogInv
<1>1. ASSUME UNCHANGED <<stage, committer, todo>>,
             stage \in {"redo", "sync", "install"}
      PROVE  CommitterWrites'
    <2>1. PICK c \in Txn : c = committer
        BY <1>1, EngineAssumption DEF TypeOK
    <2>2. Same(c)
        <3>1. state[c] = "ACTIVE"
            BY <1>1, <2>1 DEF DurabilityInv, CommitProgress
        <3>2. ASSUME NEW t \in Txn, Call(t)
              PROVE  Same(c)
            BY <2>1, <3>2, CallFacts
        <3> QED
            BY <1>0, <3>2, OtherFacts, StepKinds DEF CommitStep
    <2> QED
        BY <1>0, <1>1, <2>1, <2>2, SameFacts DEF CommitterWrites
<1>2. ASSUME NEW t \in Txn, CommitStart(t)
      PROVE  CommitterWrites'
    BY <1>2 DEF CommitStart, MayCommit, CommitterWrites, Written
<1>3. CASE CommitStep /\ ~ Ack /\ ~ Return
    <2>1. /\ stage \in {"redo", "sync", "install"}
          /\ UNCHANGED <<committer, write_set>>
          /\ todo' \subseteq todo \/ todo' = Written(committer)
        BY <1>3 DEF CommitStep, AppendRedo, Install, AppendCommit, SyncWal,
                    txnVars
    <2>2. Written(committer)' = Written(committer)
        BY <2>1 DEF Written
    <2> QED
        BY <1>0, <2>1, <2>2 DEF CommitterWrites
<1>4. CASE stage' \notin {"redo", "sync", "install"}
    BY <1>4 DEF CommitterWrites
<1> QED
    BY <1>0, <1>1, <1>2, <1>3, <1>4, StageFacts
    DEF CommitStep, Ack, Return, AppendRedo, AppendCommit, SyncWal, Install

LEMMA NextCommitterAlone ==
    ASSUME CleanRestarts, TypeInv, DurabilityInv, LogInv, [Next]_vars
    PROVE  CommitterAlone'
<1> USE DEF TypeInv
<1>0. WholeWrites /\ NoErrors /\ CommitterAlone /\ RecordsKnown
    BY CleanFacts DEF LogInv
<1>1. CASE UNCHANGED <<wal, stage, committer, todo>>
    BY <1>0, <1>1 DEF CommitterAlone, Redo
<1>2. ASSUME NEW t \in Txn, CommitStart(t), stage = "idle"
      PROVE  CommitterAlone'
    <2>1. committer' = t /\ wal' = wal /\ state[t] = "ACTIVE"
        BY <1>2 DEF CommitStart, MayCommit, MayUse, fileVars
    <2>2. \A i \in 1 .. Len(wal) : wal[i].type # "TORN"
        BY <1>2 DEF DurabilityInv, LogWhole
    <2>3. \A i \in 1 .. Len(wal) : wal[i].writer # t
        BY <1>0, <1>2, <2>1, <2>2 DEF RecordsKnown
    <2> QED
        BY <2>1, <2>3 DEF CommitterAlone
<1>3. ASSUME NEW k \in Key, AppendRedo(k)
      PROVE  CommitterAlone'
    <2>1. PICK n \in Nat, c \in Txn : n = Len(wal) /\ c = committer
        BY <1>0, <1>3, AppendRedoFacts
    <2>2. /\ Len(wal') = n + 1 /\ \A i \in 1 .. n : wal'[i] = wal[i]
          /\ wal'[n + 1].writer = c /\ wal'[n + 1].key = k
          /\ wal'[n + 1].type \in {"REDO_PUT", "REDO_DEL"}
          /\ stage = "redo" /\ committer' = c /\ todo' = todo \ {k}
        BY <1>0, <1>3, <2>1, AppendRedoFacts, RedoRecordFacts
    <2>3. \A i \in 1 .. n : wal[i].writer = c =>
             /\ Redo(i) /\ wal[i].key \notin todo
             /\ \A j \in i .. n : wal[j].writer = c
        BY <1>0, <2>1, <2>2 DEF CommitterAlone
    <2> SUFFICES ASSUME NEW i \in 1 .. n + 1, wal'[i].writer = c
                 PROVE  /\ Redo(i)' /\ wal'[i].key \notin todo'
                        /\ \A j \in i .. n + 1 : wal'[j].writer = c
        BY <2>2 DEF CommitterAlone
    <2>4. CASE i = n + 1
        BY <2>2, <2>4 DEF Redo
    <2>5. CASE i # n + 1
        <3>1. /\ i \in 1 .. n
              /\ \A j \in i .. n + 1 :
                    (j \in i .. n /\ j \in 1 .. n) \/ j = n + 1
            BY <2>5
        <3> QED
            BY <2>2, <2>3, <3>1 DEF Redo
    <2> QED
        BY <2>4, <2>5
<1>4. CASE stage' # "redo"
    BY <1>4 DEF CommitterAlone
<1> QED
    BY <1>0, <1>1, <1>2, <1>3, <1>4, StageFacts

LEMMA NextLogInv ==
    ASSUME CleanRestarts, TypeInv, DurabilityInv, LogInv, [Next]_vars
    PROVE  LogInv'
    BY NextRecordsKnown, NextRedoOnce, NextCommitsComplete,
       NextCommitterAlone, NextCommitterWrites DEF LogInv

-----------------------------------------------------------------------------
\* Whose the ids in the log are

LEMMA CommitNotLogged ==
    ASSUME NEW t \in Txn, Same(t), NoNewRecord
    PROVE  CommitLogged(t)' => CommitLogged(t)
<1>1. CommitRecord(t)' = CommitRecord(t) /\ CommitRecord(t).type = "COMMIT"
    BY SameFacts DEF CommitRecord
<1> QED
    BY <1>1 DEF CommitLogged, NoNewRecord

LEMMA CommitLoggedStays ==
    ASSUME NEW t \in Txn, Same(t),
           \A i \in 1 .. Len(wal) : wal[i].type # "TORN" =>
               i \in 1 .. Len(wal') /\ wal'[i] = wal[i]
    PROVE  CommitLogged(t) => CommitLogged(t)'
<1>1. CommitRecord(t)' = CommitRecord(t) /\ CommitRecord(t).type = "COMMIT"
    BY SameFacts DEF CommitRecord
<1> QED
    BY <1>1 DEF CommitLogged

\* A process that ends at a fault point leaves all that was written, and a
\* recovery cuts off a torn end.
LEMMA RecordsStay ==
    ASSUME CleanRestarts, FaultPointsOnly, TypeInv, DurabilityInv, NoOrphans,
           [Next]_vars
    PROVE  /\ \A i \in 1 .. Len(wal) : wal[i].type # "TORN" =>
                 i \in 1 .. Len(wal') /\ wal'[i] = wal[i]
           /\ \A i \in 1 .. Len(wal') : wal'[i].type = "TORN" => i = Len(wal')
<1> USE DEF TypeInv
<1>0. /\ WholeWrites /\ NoErrors
      /\ wal \in Seq(Record) /\ Len(wal) \in Nat /\ Torn \in Record
      /\ \A i \in 1 .. Len(wal) : wal[i].type = "TORN" => i = Len(wal)
    BY CleanFacts, LenProperties DEF TypeOK, Torn, Record, NoOrphans
<1>1. CASE UNCHANGED wal
    BY <1>0, <1>1
<1>2. CASE AppendCommit \/ \E k \in Key : AppendRedo(k)
    <2>1. /\ Len(wal') = Len(wal) + 1 /\ \A i \in 1 .. Len(wal) : wal'[i] = wal[i]
          /\ stage = "redo"
        BY <1>0, <1>2, AppendCommitFacts, AppendRedoFacts
    <2>2. \A i \in 1 .. Len(wal) : wal[i].type # "TORN"
        BY <2>1 DEF DurabilityInv, LogWhole
    <2>3. \A i \in 1 .. Len(wal') : i \in 1 .. Len(wal) \/ i = Len(wal')
        BY <1>0, <2>1
    <2> QED
        BY <1>0, <2>1, <2>2, <2>3
<1>3. CASE Ends
    <2>1. ~ Kill /\ ~ PowerLoss
        BY DEF Kill, PowerLoss, Incident, FaultPointsOnly
    <2>2. /\ stage # "down"
          /\ wal' = wal \/ wal' = Append(wal, Torn)
        BY <1>3, <2>1 DEF Ends, Close, FaultPoint, fileVars
    <2>3. \A i \in 1 .. Len(wal) : wal[i].type # "TORN"
        BY <2>2 DEF DurabilityInv, LogWhole
    <2>4. CASE wal' = Append(wal, Torn)
        <3>1. Len(wal') = Len(wal) + 1 /\ \A i \in 1 .. Len(wal) : wal'[i] = wal[i]
            BY <1>0, <2>4, AppendFacts
        <3>2. \A i \in 1 .. Len(wal') : i \in 1 .. Len(wal) \/ i = Len(wal')
            BY <1>0, <3>1
        <3> QED
            BY <1>0, <2>3, <3>1, <3>2
    <2> QED
        BY <1>1, <2>2, <2>4
<1>4. CASE Restart
    <2>1. PICK n \in 0 .. Len(wal) : IsValidPrefix(n) /\ wal' = SubSeq(wal, 1, n)
        BY <1>4 DEF Restart
    <2>2. Len(wal') = n /\ \A i \in 1 .. n : wal'[i] = wal[i]
        BY <1>0, <2>1, PrefixFacts
    <2>3. \A i \in 1 .. Len(wal') : wal'[i].type # "TORN"
        BY <2>1, <2>2 DEF IsValidPrefix
    <2>4. n < Len(wal) => n + 1 \in 1 .. Len(wal) /\ wal[n + 1].type = "TORN"
        BY <1>0, <2>1 DEF IsValidPrefix
    <2>5. n < Len(wal) => n + 1 = Len(wal) /\ wal[Len(wal)].type = "TORN"
        BY <1>0, <2>4
    <2>6. \A i \in 1 .. Len(wal) : wal[i].type # "TORN" => i \in 1 .. n
        BY <1>0, <2>1, <2>5
    <2> QED
        BY <2>2, <2>3, <2>6
<1>5. ASSUME \/ \E t \in Txn : Call(t)
             \/ \E k \in Key : Install(k)
             \/ SyncWal \/ Ack \/ Return \/ ReplayStep \/ UNCHANGED vars
      PROVE  UNCHANGED wal
    BY <1>5, CallFacts
    DEF Install, SyncWal, Ack, Return, ReplayStep, ReplayRedo, ReplayCommit,
        RecoverDone, vars, fileVars
<1> QED
    BY <1>0, <1>1, <1>2, <1>3, <1>4, <1>5, StepKinds

LEMMA NextNoOrphans ==
    ASSUME CleanRestarts, TypeInv, DurabilityInv, LogInv, NoOrphans,
           [Next]_vars
    PROVE  NoOrphans'
<1> USE DEF TypeInv
<1>0. WholeWrites /\ NoErrors /\ RecordsKnown /\ CommitterAlone
    BY CleanFacts DEF LogInv
<1> DEFINE Paired(i) == Redo(i) => \/ CommitLogged(wal[i].writer)
                                   \/ stage = "redo" /\ wal[i].writer = committer
<1> SUFFICES ASSUME FaultPointsOnly
             PROVE  /\ \A i \in 1 .. Len(wal') :
                          wal'[i].type = "TORN" => i = Len(wal')
                    /\ \A i \in 1 .. Len(wal') : Paired(i)'
    BY DEF NoOrphans
<1>1. /\ \A i \in 1 .. Len(wal) : wal[i].type # "TORN" =>
            i \in 1 .. Len(wal') /\ wal'[i] = wal[i]
      /\ \A i \in 1 .. Len(wal') : wal'[i].type = "TORN" => i = Len(wal')
    BY RecordsStay
<1>2. ASSUME NEW i \in 1 .. Len(wal), wal'[i] = wal[i], Redo(i),
             NEW t \in Txn, t = wal[i].writer
      PROVE  \/ CommitLogged(t)'
             \/ stage' = "redo" /\ t = committer'
    <2>1. Same(t) /\ (CommitLogged(t) => CommitLogged(t)')
        <3>1. wal[i].type # "TORN"
            BY <1>2 DEF Redo
        <3>2. Same(t)
            BY <1>0, <1>2, <3>1, WritersKept DEF WriterKept
        <3> QED
            BY <1>1, <3>2, CommitLoggedStays
    <2> SUFFICES ASSUME ~ CommitLogged(t)
                 PROVE  \/ CommitLogged(t)'
                        \/ stage' = "redo" /\ t = committer'
        BY <2>1
    <2>2. stage = "redo" /\ t = committer
        BY <1>2 DEF NoOrphans
    <2>3. CASE AppendCommit
        <3>1. /\ Len(wal) + 1 \in 1 .. Len(wal')
              /\ wal'[Len(wal) + 1] = CommitRecord(t)
            BY <1>0, <2>2, <2>3, AppendCommitFacts
        <3> QED
            BY <2>1, <3>1, SameFacts DEF CommitLogged
    <2>4. ASSUME NEW k \in Key, AppendRedo(k)
          PROVE  stage' = "redo" /\ t = committer'
        BY <1>0, <2>2, <2>4, AppendRedoFacts
    <2>5. ASSUME NEW u \in Txn, Call(u)
          PROVE  stage' = "redo" /\ t = committer'
        BY <2>2, <2>5, CallFacts
    <2>6. ~ Ends
        <3>1. ~ Kill /\ ~ PowerLoss
            BY DEF Kill, PowerLoss, Incident, FaultPointsOnly
        <3>2. ~ Close
            BY <2>2 DEF Close
        <3>3. wal[i].key \in Written(t) /\ wal[i].key \notin todo
            BY <1>0, <1>2, <2>2 DEF RecordsKnown, CommitterAlone, Redo
        <3>4. ~ FaultPoint
            BY <2>2, <3>3 DEF FaultPoint
        <3> QED
            BY <3>1, <3>2, <3>4 DEF Ends
    <2>7. ASSUME \/ \E k \in Key : Install(k)
                 \/ SyncWal \/ Ack \/ Return \/ Restart \/ ReplayStep
          PROVE  stage # "redo"
        BY <2>7 DEF Install, SyncWal, Ack, Return, Restart, ReplayStep,
                    ReplayRedo, ReplayCommit, RecoverDone
    <2>8. CASE UNCHANGED vars
        BY <2>2, <2>8 DEF vars, commitVars
    <2> QED
        BY <1>0, <2>2, <2>3, <2>4, <2>5, <2>6, <2>7, <2>8, StepKinds
<1>3. ASSUME NEW i \in 1 .. Len(wal), wal'[i] = wal[i]
      PROVE  Paired(i)'
    <2> SUFFICES ASSUME Redo(i)
                 PROVE  Paired(i)'
        BY <1>3 DEF Redo
    <2>1. PICK t \in Txn : t = wal[i].writer
        BY RecordFacts DEF Redo
    <2>2. CommitLogged(t)' \/ (stage' = "redo" /\ t = committer')
        BY <1>2, <1>3, <2>1
    <2> QED
        BY <1>3, <2>1, <2>2
<1>4. \A i \in 1 .. Len(wal') : Paired(i)'
    <2>1. CASE ~ AppendCommit /\ \A k \in Key : ~ AppendRedo(k)
        <3>1. NoNewRecord
            BY <1>0, <2>1, NoNewRecordSteps
        <3>2. \A i \in 1 .. Len(wal') : Redo(i)' =>
                 i \in 1 .. Len(wal) /\ wal'[i] = wal[i]
            BY <3>1 DEF NoNewRecord, Redo
        <3> QED
            BY <1>3, <3>2
    <2>2. ASSUME NEW k \in Key, AppendRedo(k)
          PROVE  \A i \in 1 .. Len(wal') : Paired(i)'
        <3>1. /\ Len(wal') = Len(wal) + 1 /\ Len(wal) \in Nat
              /\ \A i \in 1 .. Len(wal) : wal'[i] = wal[i]
              /\ wal'[Len(wal) + 1].writer = committer'
              /\ stage' = "redo"
            BY <1>0, <2>2, AppendRedoFacts, RedoRecordFacts
        <3>2. \A i \in 1 .. Len(wal') : i \in 1 .. Len(wal) \/ i = Len(wal) + 1
            BY <3>1
        <3> QED
            BY <1>3, <3>1, <3>2
    <2>3. CASE AppendCommit
        <3>1. /\ Len(wal') = Len(wal) + 1 /\ Len(wal) \in Nat
              /\ \A i \in 1 .. Len(wal) : wal'[i] = wal[i]
              /\ wal'[Len(wal) + 1].type = "COMMIT"
            BY <1>0, <2>3, AppendCommitFacts DEF CommitRecord
        <3>2. \A i \in 1 .. Len(wal') : Redo(i)' => i \in 1 .. Len(wal)
            BY <3>1 DEF Redo
        <3> QED
            BY <1>3, <3>1, <3>2
    <2> QED
        BY <2>1, <2>2, <2>3
<1> QED
    BY <1>1, <1>4

LEMMA NextFirstProcess ==
    ASSUME CleanRestarts, TypeInv, DurabilityInv, FirstProcess, [Next]_vars
    PROVE  FirstProcess'
<1> USE DEF TypeInv
<1>0. NoErrors /\ incidents \in Nat
    BY CleanFacts, EngineAssumption DEF TypeOK
<1>1. ASSUME incidents' = incidents, ~ Serving, UNCHANGED wal
      PROVE  FirstProcess'
    BY <1>1 DEF FirstProcess
<1>2. ASSUME NEW t \in Txn, Call(t)
      PROVE  Serving'
    BY <1>2, CallFacts
<1>3. CASE CommitStep
    <2>1. stage' \in {"redo", "sync", "install", "ack", "idle"}
        BY <1>3 DEF CommitStep, AppendRedo, Install, AppendCommit, SyncWal,
                    Ack, Return
    <2> QED
        BY <2>1 DEF FirstProcess, Serving
<1>4. CASE Ends
    <2>1. incidents' = incidents + 1
        BY <1>4 DEF Ends, Close, FaultPoint, Kill, PowerLoss, Incident
    <2> QED
        BY <1>0, <2>1 DEF FirstProcess
<1>5. CASE Restart
    <2>1. /\ ~ Serving /\ incidents' = incidents
          /\ \E n \in 0 .. Len(wal) : wal' = SubSeq(wal, 1, n)
        BY <1>5 DEF Restart, Serving
    <2>2. wal = << >> => wal' = << >>
        <3>1. SUFFICES ASSUME wal = << >>
                       PROVE  wal' = << >>
            OBVIOUS
        <3>2. wal \in Seq(Record) /\ Len(wal) = 0
            BY <3>1 DEF TypeOK
        <3>3. PICK n \in 0 .. Len(wal) : wal' = SubSeq(wal, 1, n)
            BY <2>1
        <3>4. wal' \in Seq(Record) /\ Len(wal') = 0
            BY <3>2, <3>3, PrefixFacts
        <3> QED
            BY <3>4, EmptySeq
    <2> QED
        BY <2>1, <2>2 DEF FirstProcess
<1>6. CASE ReplayStep
    BY <1>1, <1>6 DEF ReplayStep, ReplayRedo, ReplayCommit, RecoverDone,
                      Serving, fileVars
<1>7. CASE UNCHANGED vars
    BY <1>7 DEF vars, fileVars, commitVars, FirstProcess, Serving
<1> QED
    BY <1>0, <1>2, <1>3, <1>4, <1>5, <1>6, <1>7, StepKinds
    DEF FirstProcess, CommitStep

\* Without a crash, or with crashes at fault points only, the ids in the log
\* are behind the counter, and an active transaction's is in its own records.
LEMMA NextIdsFresh ==
    ASSUME CleanRestarts, TypeInv, TypeInv', DurabilityInv, OrderInv, OrderInv',
           LogInv, IdInv, [Next]_vars
    PROVE  IdsFresh'
<1> USE DEF TypeInv
<1>0. /\ WholeWrites /\ NoErrors /\ RecordsKnown
      /\ \A i \in 1 .. Len(wal) : wal[i].txn_id \in Nat
      /\ next_txn_id \in Nat /\ Len(wal) \in Nat /\ incidents \in Nat
    <2>1. WholeWrites /\ NoErrors /\ RecordsKnown
        BY CleanFacts DEF LogInv
    <2>2. next_txn_id \in Nat /\ incidents \in Nat
        BY EngineAssumption DEF TypeOK
    <2> QED
        BY <2>1, <2>2, LogTypes
<1> DEFINE Fresh(i) == wal[i].type # "TORN" =>
                /\ wal[i].txn_id < next_txn_id
                /\ \A t \in Txn : state[t] = "ACTIVE" /\ wal[i].txn_id = txn_id[t]
                                      => wal[i].writer = t
<1> SUFFICES ASSUME Untouched', Serving'
             PROVE  \A i \in 1 .. Len(wal') : Fresh(i)'
    BY DEF IdsFresh
<1>1. ASSUME incidents' = incidents, Serving
      PROVE  \A i \in 1 .. Len(wal) : Fresh(i)
    BY <1>1 DEF IdInv, IdsFresh, Untouched
<1>2. ASSUME UNCHANGED <<wal, next_txn_id, txn_id, incidents>>, Serving,
             \A t \in Txn : state'[t] = "ACTIVE" => state[t] = "ACTIVE"
      PROVE  \A i \in 1 .. Len(wal') : Fresh(i)'
    BY <1>1, <1>2
<1>3. ASSUME NEW u \in Txn, Call(u)
      PROVE  \A i \in 1 .. Len(wal') : Fresh(i)'
    <2>1. UNCHANGED <<wal, incidents>> /\ Serving
        BY <1>3, CallFacts
    <2>2. CASE Begin(u)
        <3>1. /\ state' = [state EXCEPT ![u] = "ACTIVE"]
              /\ txn_id' = [txn_id EXCEPT ![u] = next_txn_id]
              /\ next_txn_id' = next_txn_id + 1
            BY <2>2 DEF Begin
        <3>2. /\ txn_id'[u] = next_txn_id
              /\ \A t \in Txn \ {u} : state'[t] = state[t] /\ txn_id'[t] = txn_id[t]
            BY <3>1 DEF TypeOK
        <3> SUFFICES ASSUME NEW i \in 1 .. Len(wal), wal[i].type # "TORN"
                     PROVE  /\ wal[i].txn_id < next_txn_id'
                            /\ \A t \in Txn : state'[t] = "ACTIVE"
                                  /\ wal[i].txn_id = txn_id'[t]
                                  => wal[i].writer = t
            BY <2>1
        <3>3. Fresh(i)
            BY <1>1, <2>1
        <3> QED
            BY <1>0, <3>1, <3>2, <3>3
    <2>3. CASE ~ Begin(u)
        <3>1. /\ UNCHANGED <<next_txn_id, txn_id>>
              /\ \/ state' = state
                 \/ \E s \in {"ABORTED", "COMMITTED"} :
                       state' = [state EXCEPT ![u] = s]
            BY <1>3, <2>3
            DEF Call, Abort, GetWalk, CommitReadOnly, CommitConflict,
                CommitStart, Put, Delete, GetOpen, counterVars, txnVars
        <3>2. \A t \in Txn : state'[t] = "ACTIVE" => state[t] = "ACTIVE"
            BY <3>1 DEF TypeOK
        <3> QED
            BY <1>2, <2>1, <3>1, <3>2
    <2> QED
        BY <2>2, <2>3
<1>4. ASSUME NEW n, n = Len(wal), NEW c \in Txn, c = committer, stage = "redo",
             Len(wal') = n + 1, \A i \in 1 .. n : wal'[i] = wal[i],
             wal'[n + 1].txn_id = txn_id[c], wal'[n + 1].writer = c,
             UNCHANGED <<next_txn_id, txn_id, state, incidents>>
      PROVE  \A i \in 1 .. Len(wal') : Fresh(i)'
    <2>1. Serving /\ state[c] = "ACTIVE"
        BY <1>4 DEF Serving, DurabilityInv, CommitProgress
    <2>2. \A i \in 1 .. n : Fresh(i)
        BY <1>1, <1>4, <2>1
    <2>3. \A i \in 1 .. n : Fresh(i)'
        BY <1>4, <2>2
    <2>4. /\ txn_id[c] < next_txn_id
          /\ \A t \in Txn : state[t] = "ACTIVE" /\ txn_id[c] = txn_id[t] => c = t
        BY <2>1 DEF OrderInv, IdsOwned
    <2>5. \A i \in 1 .. n + 1 : i \in 1 .. n \/ i = n + 1
        BY <1>0, <1>4
    <2> QED
        BY <1>4, <2>3, <2>4, <2>5
<1>5. ASSUME NEW k \in Key, AppendRedo(k)
      PROVE  \A i \in 1 .. Len(wal') : Fresh(i)'
    <2>1. PICK n \in Nat, c \in Txn : n = Len(wal) /\ c = committer
        BY <1>0, <1>5, AppendRedoFacts
    <2>2. wal'[n + 1].txn_id = txn_id[c] /\ wal'[n + 1].writer = c
        BY <1>0, <1>5, <2>1, AppendRedoFacts, RedoRecordFacts
    <2>3. UNCHANGED txn_id
        BY <1>5 DEF AppendRedo, txnVars
    <2> QED
        BY <1>0, <1>4, <1>5, <2>1, <2>2, <2>3, AppendRedoFacts
<1>6. CASE AppendCommit
    <2>1. PICK n \in Nat, c \in Txn : n = Len(wal) /\ c = committer
        BY <1>0, <1>6, AppendCommitFacts
    <2>2. wal'[n + 1].txn_id = txn_id[c] /\ wal'[n + 1].writer = c
        BY <1>0, <1>6, <2>1, AppendCommitFacts DEF CommitRecord
    <2>3. UNCHANGED txn_id
        BY <1>6 DEF AppendCommit, txnVars
    <2> QED
        BY <1>0, <1>4, <1>6, <2>1, <2>2, <2>3, AppendCommitFacts
<1>7. CASE (\E k \in Key : Install(k)) \/ SyncWal \/ Ack \/ Return
    <2>1. /\ UNCHANGED <<wal, next_txn_id, txn_id, incidents>>
          /\ \/ state' = state
             \/ state' = [state EXCEPT ![committer] = "COMMITTED"]
          /\ Serving
        BY <1>7 DEF Install, SyncWal, Ack, Return, fileVars, counterVars,
                    txnVars, Serving
    <2>2. \A t \in Txn : state'[t] = "ACTIVE" => state[t] = "ACTIVE"
        BY <2>1 DEF TypeOK
    <2> QED
        BY <1>2, <2>1, <2>2
<1>8. CASE UNCHANGED vars
    BY <1>2, <1>8 DEF vars, fileVars, counterVars, commitVars, txnVars, Serving
<1>9. CASE RecoverDone
    <2>1. /\ UNCHANGED <<wal, next_txn_id, state, txn_id, incidents>>
          /\ stage = "replay" /\ scan > Len(wal)
        BY <1>9 DEF RecoverDone, fileVars, counterVars, txnVars
    <2>2. \A t \in Txn : state[t] # "ACTIVE"
        BY <2>1 DEF OrderInv, IdsOwned, Serving
    <2> SUFFICES ASSUME NEW i \in 1 .. Len(wal), wal[i].type # "TORN"
                 PROVE  wal[i].txn_id < next_txn_id
        BY <2>1, <2>2
    <2>3. FaultPointsOnly
        BY <1>0, <2>1 DEF IdInv, FirstProcess, Untouched, Serving
    <2>4. \A j \in 1 .. Len(wal) : wal[j].type = "COMMIT" =>
              wal[j].txn_id < next_txn_id
        <3>1. scan \in Nat
            BY DEF TypeOK
        <3> QED
            BY <1>0, <2>1, <3>1 DEF OrderInv, CountersPast
    <2>5. CASE Redo(i)
        <3>1. PICK t \in Txn : t = wal[i].writer
            BY RecordFacts
        <3>2. CommitLogged(t)
            BY <2>1, <2>3, <2>5, <3>1 DEF IdInv, NoOrphans
        <3>3. PICK j \in 1 .. Len(wal) : wal[j] = CommitRecord(t)
            BY <3>2 DEF CommitLogged
        <3>4. wal[j].type = "COMMIT" /\ wal[j].txn_id = txn_id[t]
            BY <3>3 DEF CommitRecord
        <3>5. wal[i] = RedoRecord(t, wal[i].key) /\ wal[i].key \in Key
            BY <1>0, <2>5, <3>1, RecordFacts DEF RecordsKnown
        <3>6. wal[i].txn_id = txn_id[t]
            BY <3>5, RedoRecordFacts
        <3> QED
            BY <2>4, <3>4, <3>6
    <2> QED
        BY <2>4, <2>5, RecordFacts
<1>10. ~ Ends /\ ~ Restart /\ ~ ReplayRedo /\ ~ ReplayCommit
    BY DEF Ends, Close, FaultPoint, Kill, PowerLoss, ProcessEnds, Restart,
           ReplayRedo, ReplayCommit, Serving, commitVars
<1> QED
    BY <1>0, <1>3, <1>5, <1>6, <1>7, <1>8, <1>9, <1>10, StepKinds DEF ReplayStep

LEMMA NextIdsSound ==
    ASSUME CleanRestarts, TypeInv, DurabilityInv, OrderInv, LogInv, IdInv,
           [Next]_vars
    PROVE  IdsSound'
<1> USE DEF TypeInv
<1>0. WholeWrites /\ NoErrors /\ IdsSound /\ IdsFresh
    BY CleanFacts DEF IdInv
<1>1. incidents \in 0 .. MaxIncidents /\ MaxIncidents \in Nat
    BY EngineAssumption DEF TypeOK
<1>2. ASSUME NoNewRecord, Untouched \/ ~ Serving
      PROVE  IdsSound'
    <2>1. \A i \in 1 .. Len(wal') : wal'[i].type # "TORN" =>
             i \in 1 .. Len(wal) /\ wal'[i] = wal[i]
        BY <1>2 DEF NoNewRecord
    <2> QED
        BY <1>0, <1>2, <2>1 DEF IdsSound
<1>3. ASSUME NEW n, n = Len(wal), NEW c \in Txn, c = committer, stage = "redo",
             Len(wal') = n + 1, \A i \in 1 .. n : wal'[i] = wal[i],
             wal'[n + 1].txn_id = txn_id[c], wal'[n + 1].writer = c,
             Untouched
      PROVE  IdsSound'
    <2>1. Serving /\ state[c] = "ACTIVE" /\ n \in Nat
        BY <1>3, LogTypes DEF Serving, DurabilityInv, CommitProgress
    <2>2. \A i \in 1 .. n : wal[i].type # "TORN" /\ wal[i].txn_id = txn_id[c]
              => wal[i].writer = c
        BY <1>0, <1>3, <2>1 DEF IdsFresh
    <2>3. \A i, j \in 1 .. n : /\ wal[i].type # "TORN" /\ wal[j].type # "TORN"
                               /\ wal[i].txn_id = wal[j].txn_id
                               => wal[i].writer = wal[j].writer
        BY <1>0, <1>3 DEF IdsSound
    <2>4. \A i \in 1 .. n + 1 : i \in 1 .. n \/ i = n + 1
        BY <2>1
    <2> SUFFICES ASSUME NEW i \in 1 .. n + 1, NEW j \in 1 .. n + 1,
                        wal'[i].type # "TORN", wal'[j].type # "TORN",
                        wal'[i].txn_id = wal'[j].txn_id
                 PROVE  wal'[i].writer = wal'[j].writer
        BY <1>3 DEF IdsSound
    <2> QED
        BY <1>3, <2>2, <2>3, <2>4
<1> SUFFICES ASSUME Untouched' \/ ~ Serving'
             PROVE  IdsSound'
    BY DEF IdsSound
<1>4. ASSUME NEW k \in Key, AppendRedo(k)
      PROVE  IdsSound'
    <2>1. PICK n \in Nat, c \in Txn : n = Len(wal) /\ c = committer
        BY <1>0, <1>4, AppendRedoFacts
    <2>2. wal'[n + 1].txn_id = txn_id[c] /\ wal'[n + 1].writer = c
        BY <1>0, <1>4, <2>1, AppendRedoFacts, RedoRecordFacts
    <2>3. Untouched
        BY <1>0, <1>4, AppendRedoFacts DEF Untouched, Serving
    <2> QED
        BY <1>0, <1>3, <1>4, <2>1, <2>2, <2>3, AppendRedoFacts
<1>5. CASE AppendCommit
    <2>1. PICK n \in Nat, c \in Txn : n = Len(wal) /\ c = committer
        BY <1>0, <1>5, AppendCommitFacts
    <2>2. wal'[n + 1].txn_id = txn_id[c] /\ wal'[n + 1].writer = c
        BY <1>0, <1>5, <2>1, AppendCommitFacts DEF CommitRecord
    <2>3. Untouched
        BY <1>0, <1>5, AppendCommitFacts DEF Untouched, Serving
    <2> QED
        BY <1>0, <1>3, <1>5, <2>1, <2>2, <2>3, AppendCommitFacts
<1>6. CASE ~ AppendCommit /\ \A k \in Key : ~ AppendRedo(k)
    <2>1. NoNewRecord
        BY <1>0, <1>6, NoNewRecordSteps
    <2>2. CASE Ends
        <3>1. incidents < MaxIncidents
            BY <2>2 DEF Ends, Close, FaultPoint, Kill, PowerLoss, Incident
        <3>2. Untouched
            BY <1>1, <3>1 DEF CleanRestarts, OneCrash, Untouched
        <3> QED
            BY <1>2, <2>1, <3>2
    <2>3. CASE Restart \/ ReplayStep
        <3>1. ~ Serving
            BY <2>3 DEF Restart, ReplayStep, ReplayRedo, ReplayCommit,
                        RecoverDone, Serving
        <3> QED
            BY <1>2, <2>1, <3>1
    <2>4. ASSUME NEW t \in Txn, Call(t)
          PROVE  Untouched
        BY <2>4, CallFacts DEF Untouched
    <2>5. CASE (\E k \in Key : Install(k)) \/ SyncWal \/ Ack \/ Return
        <3>1. incidents' = incidents /\ Serving'
            BY <2>5 DEF Install, SyncWal, Ack, Return, Serving
        <3> QED
            BY <1>2, <2>1, <3>1 DEF Untouched
    <2>6. CASE UNCHANGED vars
        <3>1. incidents' = incidents /\ Serving' = Serving
            BY <2>6 DEF vars, commitVars, Serving
        <3> QED
            BY <1>2, <2>1, <3>1 DEF Untouched
    <2> QED
        BY <1>0, <1>2, <1>6, <2>1, <2>2, <2>3, <2>4, <2>5, <2>6, StepKinds
<1> QED
    BY <1>4, <1>5, <1>6

LEMMA NextIdInv ==
    ASSUME CleanRestarts, TypeInv, TypeInv', DurabilityInv, OrderInv, OrderInv',
           LogInv, IdInv, [Next]_vars
    PROVE  IdInv'
    BY NextNoOrphans, NextFirstProcess, NextIdsFresh, NextIdsSound DEF IdInv

-----------------------------------------------------------------------------
\* What is in the catalog

\* k's list gets this version.
Installs(k, version) ==
    catalog' = [catalog EXCEPT ![k] = InstallVersion(@, version)]

\* Installing a version adds it, and of the others keeps all but end_ts.
LEMMA CatalogGains ==
    ASSUME TypeOK, NEW k \in Key, NEW version \in VersionBy(Txn),
           Installs(k, version)
    PROVE  \A j \in Key : \A i \in 1 .. Len(catalog'[j]) :
              \/ /\ i \in 1 .. Len(catalog[j])
                 /\ catalog'[j][i].writer = catalog[j][i].writer
                 /\ catalog'[j][i].begin_ts = catalog[j][i].begin_ts
              \/ j = k /\ i = Len(catalog[k]) + 1 /\ catalog'[j][i] = version
<1>1. /\ \A l \in Key : l # k => catalog'[l] = catalog[l]
      /\ Len(catalog'[k]) = Len(catalog[k]) + 1
      /\ catalog'[k][Len(catalog[k]) + 1] = version
      /\ \A l \in 1 .. Len(catalog[k]) :
            /\ catalog'[k][l].begin_ts = catalog[k][l].begin_ts
            /\ catalog'[k][l].writer = catalog[k][l].writer
    BY InstallInCatalog, ZenonT(30) DEF Installs
<1>2. Len(catalog[k]) \in Nat
    BY CatalogTypes
<1> QED
    BY <1>1, <1>2

\* An install is of a write of the committer.
LEMMA InstallSteps ==
    ASSUME TypeOK, NEW k \in Key, Install(k)
    PROVE  \E c \in Txn, version \in VersionBy(Txn) :
              /\ c = committer
              /\ version = NewVersion(commit_ts[c], c, write_set[c][k] = "del")
              /\ Installs(k, version)
<1>1. PICK c \in Txn : c = committer
    BY EngineAssumption DEF Install, TypeOK
<1>2. NewVersion(commit_ts[c], c, write_set[c][k] = "del") \in VersionBy(Txn)
    BY NewVersionFacts DEF TypeOK
<1> QED
    BY <1>1, <1>2 DEF Install, Installs

\* A replayed redo record is of a transaction with a COMMIT in the log.
LEMMA ReplaySteps ==
    ASSUME TypeInv, LogInv, IdInv, ReplayRedo, catalog' # catalog
    PROVE  \E t \in Txn, k \in Key, version \in VersionBy(Txn) :
              /\ scan \in 1 .. Len(wal) /\ Redo(scan)
              /\ wal[scan] = RedoRecord(t, k) /\ CommitLogged(t)
              /\ wal[scan].writer = t /\ k \in Written(t)
              /\ version = NewVersion(commit_ts[t], t, write_set[t][k] = "del")
              /\ Installs(k, version)
<1> USE DEF TypeInv
<1>1. /\ scan \in 1 .. Len(wal) /\ Redo(scan) /\ wal[scan].type # "TORN"
      /\ stage = "replay"
    <2>1. scan \in Nat \ {0} /\ Len(wal) \in Nat
        BY LogTypes DEF TypeOK
    <2> QED
        BY <2>1 DEF ReplayRedo, Redo
<1>2. PICK t \in Txn, k \in Key : t = wal[scan].writer /\ k = wal[scan].key
    BY <1>1, RecordFacts
<1>3. wal[scan] = RedoRecord(t, k) /\ k \in Written(t)
    BY <1>1, <1>2 DEF LogInv, RecordsKnown
<1>4. CommitLogged(t)
    <2>1. IsCommittedId(wal[scan].txn_id)
        BY DEF ReplayRedo
    <2>2. PICK i \in 1 .. Len(wal) :
            wal[i].type = "COMMIT" /\ wal[i].txn_id = wal[scan].txn_id
        BY <2>1 DEF IsCommittedId
    <2>3. wal[i].writer = t
        BY <1>1, <1>2, <2>2 DEF IdInv, IdsSound, Serving
    <2>4. wal[i] = CommitRecord(t)
        BY <2>2, <2>3 DEF LogInv, RecordsKnown
    <2> QED
        BY <2>4 DEF CommitLogged
<1> DEFINE version == NewVersion(commit_ts[t], t, write_set[t][k] = "del")
<1>5. version \in VersionBy(Txn)
    BY NewVersionFacts DEF TypeOK
<1>6. /\ wal[scan].commit_ts = commit_ts[t]
      /\ wal[scan].type = "REDO_DEL" <=> write_set[t][k] = "del"
    BY <1>3, RedoRecordFacts
<1>7. version = NewVersion(wal[scan].commit_ts, wal[scan].writer,
                           wal[scan].type = "REDO_DEL")
    BY <1>2, <1>6 DEF NewVersion
<1>8. Installs(k, version)
    <2> HIDE DEF version
    <2> QED
        BY <1>2, <1>7 DEF ReplayRedo, Installs
<1> QED
    BY <1>1, <1>2, <1>3, <1>4, <1>5, <1>8

\* While a process lives the log only grows, and not during a recovery.
LEMMA LiveLog ==
    ASSUME WholeWrites, NoErrors, TypeInv, [Next]_vars, ~ Ends, ~ Restart
    PROVE  /\ \A i \in 1 .. Len(wal) : i \in 1 .. Len(wal') /\ wal'[i] = wal[i]
           /\ stage' = "replay" =>
                stage = "replay" /\ UNCHANGED wal /\ scan <= scan'
           /\ stage' \in {"redo", "sync", "install", "ack"} => Serving
           /\ (Serving /\ Serving') \/ ReplayStep \/ UNCHANGED vars
<1> USE DEF TypeInv
<1>0. Len(wal) \in Nat /\ scan \in Nat
    BY LogTypes DEF TypeOK
<1>1. ASSUME NEW t \in Txn, Call(t)
      PROVE  UNCHANGED wal /\ Serving /\ Serving'
    BY <1>1, CallFacts
<1>2. ASSUME NEW k \in Key, AppendRedo(k)
      PROVE  /\ \A i \in 1 .. Len(wal) : i \in 1 .. Len(wal') /\ wal'[i] = wal[i]
             /\ Serving /\ Serving'
    BY <1>0, <1>2, AppendRedoFacts DEF Serving
<1>3. CASE AppendCommit
    BY <1>0, <1>3, AppendCommitFacts DEF Serving
<1>4. CASE (\E k \in Key : Install(k)) \/ SyncWal \/ Ack \/ Return
    BY <1>4 DEF Install, SyncWal, Ack, Return, fileVars, Serving
<1>5. CASE ReplayStep
    BY <1>0, <1>5 DEF ReplayStep, ReplayRedo, ReplayCommit, RecoverDone,
                      fileVars, commitVars
<1>6. CASE UNCHANGED vars
    BY <1>0, <1>6 DEF vars, fileVars, commitVars, Serving
<1> QED
    BY <1>1, <1>2, <1>3, <1>4, <1>5, <1>6, StepKinds DEF Serving

LEMMA LoggedWriterKept ==
    ASSUME NoErrors, TypeInv, RecordsKnown, [Next]_vars,
           NEW t \in Txn, CommitLogged(t)
    PROVE  WriterKept(t)
<1>1. PICK i \in 1 .. Len(wal) : wal[i] = CommitRecord(t)
    BY DEF CommitLogged
<1>2. wal[i].type # "TORN" /\ wal[i].writer = t
    BY <1>1 DEF CommitRecord
<1> QED
    BY <1>2, WritersKept

\* The catalog changes by an install and by a replayed record, and is lost.
LEMMA CatalogSteps ==
    ASSUME NoErrors, TypeInv, [Next]_vars
    PROVE  \/ UNCHANGED catalog
           \/ \E k \in Key : Install(k)
           \/ ReplayRedo
           \/ \A k \in Key : Len(catalog'[k]) = 0
<1>1. ASSUME NEW t \in Txn, Call(t)
      PROVE  UNCHANGED catalog
    BY <1>1, CallFacts
<1>2. CASE Ends \/ Restart
    BY <1>2 DEF Ends, Close, FaultPoint, Kill, PowerLoss, ProcessEnds, Restart
<1>3. CASE AppendCommit \/ (\E k \in Key : AppendRedo(k)) \/ SyncWal \/ Ack
           \/ Return \/ ReplayCommit \/ RecoverDone \/ UNCHANGED vars
    BY <1>3 DEF AppendCommit, AppendRedo, SyncWal, Ack, Return, ReplayCommit,
                RecoverDone, vars
<1> QED
    BY <1>1, <1>2, <1>3, StepKinds DEF ReplayStep

LEMMA NextCatalogKnown ==
    ASSUME CleanRestarts, TypeInv, DurabilityInv, OrderInv, LogInv, IdInv,
           VisInv, [Next]_vars
    PROVE  CatalogKnown'
<1> USE DEF TypeInv
<1>0. WholeWrites /\ NoErrors /\ RecordsKnown /\ CatalogKnown
    BY CleanFacts DEF LogInv, VisInv
<1> DEFINE Known(k, i) ==
        LET t == catalog[k][i].writer
        IN  /\ CommitLogged(t)
            /\ k \in Written(t)
            /\ catalog[k][i].begin_ts = commit_ts[t]
            /\ state[t] = "ACTIVE" => stage = "install"
            /\ stage = "replay" =>
                 \E j \in 1 .. Len(wal) : /\ j < scan
                                          /\ wal[j] = RedoRecord(t, k)
<1>1. CASE \A k \in Key : Len(catalog'[k]) = 0
    BY <1>1 DEF CatalogKnown
<1> SUFFICES ASSUME ~ Ends, ~ Restart
             PROVE  CatalogKnown'
    BY <1>1 DEF Ends, Close, FaultPoint, Kill, PowerLoss, ProcessEnds, Restart
<1>2. /\ \A i \in 1 .. Len(wal) : i \in 1 .. Len(wal') /\ wal'[i] = wal[i]
      /\ stage' = "replay" =>
           stage = "replay" /\ UNCHANGED wal /\ scan <= scan'
    BY <1>0, LiveLog
<1>3. ASSUME NEW k \in Key, NEW i \in 1 .. Len(catalog[k]),
             i \in 1 .. Len(catalog'[k]),
             catalog'[k][i].writer = catalog[k][i].writer,
             catalog'[k][i].begin_ts = catalog[k][i].begin_ts
      PROVE  Known(k, i)'
    <2>1. PICK t \in Txn : t = catalog[k][i].writer
        <3>1. catalog[k][i] \in VersionRecord
            BY DEF TypeOK
        <3> QED
            BY <3>1 DEF VersionRecord
    <2>2. /\ CommitLogged(t) /\ k \in Written(t)
          /\ catalog[k][i].begin_ts = commit_ts[t]
          /\ state[t] = "ACTIVE" => stage = "install"
          /\ stage = "replay" =>
               \E j \in 1 .. Len(wal) : j < scan /\ wal[j] = RedoRecord(t, k)
        BY <1>0, <2>1 DEF CatalogKnown
    <2>3. WriterKept(t)
        BY <1>0, <2>2, LoggedWriterKept
    <2>4. /\ Written(t)' = Written(t) /\ commit_ts'[t] = commit_ts[t]
          /\ \A l : RedoRecord(t, l)' = RedoRecord(t, l)
        BY <2>3, SameFacts DEF WriterKept, Same
    <2>5. CommitLogged(t)'
        BY <1>2, <2>2, <2>3, CommitLoggedStays DEF WriterKept
    <2>6. state'[t] = "ACTIVE" => stage' = "install"
        BY <2>2, <2>3 DEF WriterKept
    <2>7. stage' = "replay" =>
             \E j \in 1 .. Len(wal') : j < scan' /\ wal'[j] = RedoRecord(t, k)'
        <3>1. SUFFICES ASSUME stage' = "replay"
                       PROVE  \E j \in 1 .. Len(wal') :
                                 j < scan' /\ wal'[j] = RedoRecord(t, k)'
            OBVIOUS
        <3>2. PICK j \in 1 .. Len(wal) : j < scan /\ wal[j] = RedoRecord(t, k)
            BY <1>2, <2>2, <3>1
        <3>3. j < scan'
            <4>1. scan \in Nat /\ scan' \in Nat /\ j \in Int
                BY NextTypeOK, LogTypes, SMTT(30) DEF TypeOK
            <4> QED
                BY <1>2, <3>1, <3>2, <4>1
        <3> QED
            BY <1>2, <2>4, <3>1, <3>2, <3>3
    <2>8. t = catalog'[k][i].writer /\ catalog'[k][i].begin_ts = commit_ts'[t]
        BY <1>3, <2>1, <2>2, <2>4
    <2>9. k \in Written(t)'
        BY <2>2, <2>4
    <2> QED
        BY <2>5, <2>6, <2>7, <2>8, <2>9
<1>4. CASE UNCHANGED catalog
    BY <1>3, <1>4 DEF CatalogKnown
<1>5. ASSUME NEW k \in Key, Install(k)
      PROVE  CatalogKnown'
    <2>1. PICK c \in Txn, version \in VersionBy(Txn) :
            /\ c = committer
            /\ version = NewVersion(commit_ts[c], c, write_set[c][k] = "del")
            /\ Installs(k, version)
        BY <1>5, InstallSteps
    <2>0. \A j \in Key : \A i \in 1 .. Len(catalog'[j]) :
              \/ /\ i \in 1 .. Len(catalog[j])
                 /\ catalog'[j][i].writer = catalog[j][i].writer
                 /\ catalog'[j][i].begin_ts = catalog[j][i].begin_ts
              \/ j = k /\ i = Len(catalog[k]) + 1 /\ catalog'[j][i] = version
        BY <2>1, CatalogGains
    <2>2. /\ version.writer = c /\ version.begin_ts = commit_ts[c]
          /\ stage = "install" /\ stage' = "install" /\ k \in todo
          /\ UNCHANGED <<wal, commit_ts>> /\ Same(c)
        <3>1. Same(c)
            BY <1>5, OtherFacts DEF CommitStep
        <3> QED
            BY <1>5, <2>1, <3>1 DEF NewVersion, Install, fileVars, txnVars
    <2>3. k \in Written(c)'
        BY <2>1, <2>2, SameFacts DEF LogInv, CommitterWrites
    <2>4. CommitLogged(c)'
        <3>1. LoggedWithin(c, synced)
            BY <2>1, <2>2 DEF DurabilityInv, CommitProgress
        <3>2. synced \in Nat /\ synced <= Len(wal) /\ Len(wal) \in Nat
            BY LogTypes DEF TypeOK
        <3>3. CommitLogged(c)
            BY <3>1, <3>2 DEF LoggedWithin, CommitLogged
        <3> QED
            BY <1>2, <2>2, <3>3, CommitLoggedStays
    <2>5. ASSUME NEW l \in Key, NEW i \in 1 .. Len(catalog'[l])
          PROVE  Known(l, i)'
        <3>1. CASE l = k /\ catalog'[l][i] = version
            BY <2>2, <2>3, <2>4, <3>1
        <3>2. CASE /\ i \in 1 .. Len(catalog[l])
                   /\ catalog'[l][i].writer = catalog[l][i].writer
                   /\ catalog'[l][i].begin_ts = catalog[l][i].begin_ts
            BY <1>3, <3>2
        <3>3. \/ /\ i \in 1 .. Len(catalog[l])
                 /\ catalog'[l][i].writer = catalog[l][i].writer
                 /\ catalog'[l][i].begin_ts = catalog[l][i].begin_ts
              \/ l = k /\ catalog'[l][i] = version
            BY <2>0
        <3> HIDE DEF Known
        <3> QED
            BY <3>1, <3>2, <3>3
    <2> QED
        BY <2>5 DEF CatalogKnown
<1>6. CASE ReplayRedo /\ catalog' # catalog
    <2>1. PICK t \in Txn, k \in Key, version \in VersionBy(Txn) :
            /\ scan \in 1 .. Len(wal) /\ Redo(scan)
            /\ wal[scan] = RedoRecord(t, k) /\ CommitLogged(t)
            /\ wal[scan].writer = t /\ k \in Written(t)
            /\ version = NewVersion(commit_ts[t], t, write_set[t][k] = "del")
            /\ Installs(k, version)
        BY <1>6, ReplaySteps DEF LogInv
    <2>0. \A j \in Key : \A i \in 1 .. Len(catalog'[j]) :
              \/ /\ i \in 1 .. Len(catalog[j])
                 /\ catalog'[j][i].writer = catalog[j][i].writer
                 /\ catalog'[j][i].begin_ts = catalog[j][i].begin_ts
              \/ j = k /\ i = Len(catalog[k]) + 1 /\ catalog'[j][i] = version
        BY <2>1, CatalogGains
    <2>2. /\ version.writer = t /\ version.begin_ts = commit_ts[t]
          /\ stage = "replay" /\ scan' = scan + 1
          /\ UNCHANGED <<wal, state, commit_ts>> /\ Same(t)
        <3>1. Same(t)
            BY <1>6, OtherFacts DEF ReplayStep
        <3> QED
            BY <1>6, <2>1, <3>1 DEF NewVersion, ReplayRedo, fileVars, txnVars
    <2>3. k \in Written(t)' /\ RedoRecord(t, k)' = RedoRecord(t, k)
        BY <2>1, <2>2, SameFacts
    <2>4. CommitLogged(t)'
        BY <1>2, <2>1, <2>2, CommitLoggedStays
    <2>5. state'[t] # "ACTIVE"
        BY <2>2 DEF OrderInv, IdsOwned, Serving
    <2>6. \E j \in 1 .. Len(wal') : j < scan' /\ wal'[j] = RedoRecord(t, k)'
        <3>1. scan < scan + 1
            BY DEF TypeOK
        <3> QED
            BY <2>1, <2>2, <2>3, <3>1
    <2>7. ASSUME NEW l \in Key, NEW i \in 1 .. Len(catalog'[l])
          PROVE  Known(l, i)'
        <3>1. CASE l = k /\ catalog'[l][i] = version
            BY <2>2, <2>3, <2>4, <2>5, <2>6, <3>1
        <3>2. CASE /\ i \in 1 .. Len(catalog[l])
                   /\ catalog'[l][i].writer = catalog[l][i].writer
                   /\ catalog'[l][i].begin_ts = catalog[l][i].begin_ts
            BY <1>3, <3>2
        <3>3. \/ /\ i \in 1 .. Len(catalog[l])
                 /\ catalog'[l][i].writer = catalog[l][i].writer
                 /\ catalog'[l][i].begin_ts = catalog[l][i].begin_ts
              \/ l = k /\ catalog'[l][i] = version
            BY <2>0
        <3> HIDE DEF Known
        <3> QED
            BY <3>1, <3>2, <3>3
    <2> QED
        BY <2>7 DEF CatalogKnown
<1> QED
    BY <1>0, <1>1, <1>4, <1>5, <1>6, CatalogSteps

\* Nothing that is in the catalog of a serving process leaves it.
LEMMA CatalogKept ==
    ASSUME NoErrors, TypeInv, [Next]_vars, Serving, Serving'
    PROVE  \A t \in Txn, k \in Key :
              InCatalog(RedoRecord(t, k)) /\ Same(t) =>
                  InCatalog(RedoRecord(t, k))'
<1> USE DEF TypeInv
<1> SUFFICES ASSUME NEW t \in Txn, NEW k \in Key, Same(t),
                    InCatalog(RedoRecord(t, k))
             PROVE  InCatalog(RedoRecord(t, k))'
    OBVIOUS
<1>1. /\ RedoRecord(t, k)' = RedoRecord(t, k)
      /\ RedoRecord(t, k) \in Record
      /\ RedoRecord(t, k).type \in {"REDO_PUT", "REDO_DEL"}
    BY SameFacts, RedoRecordFacts
<1>2. PICK rec \in Record : rec = RedoRecord(t, k)
    BY <1>1
<1>3. SUFFICES \E j \in 1 .. Len(catalog'[rec.key]) :
                  /\ catalog'[rec.key][j].writer = rec.writer
                  /\ catalog'[rec.key][j].begin_ts = rec.commit_ts
                  /\ catalog'[rec.key][j].is_tombstone
                       = (rec.type = "REDO_DEL")
    BY <1>1, <1>2 DEF InCatalog
<1>4. CASE UNCHANGED catalog
    BY <1>2, <1>4 DEF InCatalog
<1>5. ASSUME NEW l \in Key, Install(l)
      PROVE  InCatalog(rec)'
    <2>1. PICK version \in VersionBy(Txn) : Installs(l, version)
        BY <1>5, InstallSteps
    <2>2. catalog' = [catalog EXCEPT ![l] = InstallVersion(@, version)]
        BY <2>1 DEF Installs
    <2>3. InCatalog(rec)
        BY <1>2
    <2> QED
        BY <1>1, <1>2, <2>2, <2>3, InstallStays
<1>6. CASE \E l \in Key : Install(l)
    BY <1>5, <1>6 DEF InCatalog
<1>7. CASE ~ (UNCHANGED catalog) /\ ~ \E l \in Key : Install(l)
    <2>1. ~ ReplayRedo
        BY DEF ReplayRedo, Serving
    <2>2. \A l \in Key : Len(catalog'[l]) = 0
        BY <1>7, <2>1, CatalogSteps
    <2>3. Ends \/ Restart
        <3>1. ASSUME NEW u \in Txn, Call(u)
              PROVE  UNCHANGED catalog
            BY <3>1, CallFacts
        <3>2. CASE AppendCommit \/ (\E l \in Key : AppendRedo(l)) \/ SyncWal
                   \/ Ack \/ Return \/ ReplayStep \/ UNCHANGED vars
            BY <1>7, <2>1, <3>2
            DEF AppendCommit, AppendRedo, SyncWal, Ack, Return, ReplayStep,
                ReplayCommit, RecoverDone, vars
        <3> QED
            BY <1>7, <3>1, <3>2, StepKinds
    <2> QED
        BY <2>3 DEF Ends, Close, FaultPoint, Kill, PowerLoss, ProcessEnds,
                    Restart, Serving
<1> QED
    BY <1>4, <1>6, <1>7

\* A process that goes on serving logs the COMMIT of its committer alone.
LEMMA NewCommits ==
    ASSUME NoErrors, TypeInv, [Next]_vars, Serving, Serving',
           NEW t \in Txn, Same(t), CommitLogged(t)', ~ CommitLogged(t)
    PROVE  AppendCommit /\ t = committer
<1> USE DEF TypeInv
<1>1. PICK i \in 1 .. Len(wal') : wal'[i] = CommitRecord(t)
    BY SameFacts DEF CommitLogged
<1>2. ASSUME i \in 1 .. Len(wal), wal'[i] = wal[i]
      PROVE  FALSE
    BY <1>1, <1>2 DEF CommitLogged
<1>3. wal'[i].type = "COMMIT" /\ wal'[i].writer = t
    BY <1>1 DEF CommitRecord
<1>4. ASSUME NEW k \in Key, AppendRedo(k)
      PROVE  FALSE
    <2>1. committer \in Txn
        BY <1>4, EngineAssumption DEF AppendRedo, TypeOK
    <2>2. RedoRecord(committer, k) \in Record
        BY <2>1, RecordTypesOK
    <2>3. \A j \in 1 .. Len(wal) : wal'[j] = wal[j]
        BY <1>4, <2>2, WalAppendFacts DEF AppendRedo
    <2>4. Len(wal') = Len(wal) + 1 /\ Len(wal) \in Nat
        BY <1>4, <2>2, WalAppendFacts, LogTypes DEF AppendRedo
    <2>5. wal'[Len(wal) + 1].type # "COMMIT"
        BY <1>4, <2>2, WalAppendFacts DEF AppendRedo, RedoRecord, Torn
    <2>6. i = Len(wal) + 1
        BY <1>2, <2>3, <2>4
    <2> QED
        BY <1>3, <2>5, <2>6
<1>5. CASE AppendCommit
    <2>1. committer \in Txn
        BY <1>5, EngineAssumption DEF AppendCommit, TypeOK
    <2>2. CommitRecord(committer) \in Record
        BY <2>1, RecordTypesOK
    <2>3. \A j \in 1 .. Len(wal) : wal'[j] = wal[j]
        BY <1>5, <2>2, WalAppendFacts DEF AppendCommit
    <2>4. Len(wal') = Len(wal) + 1 /\ Len(wal) \in Nat
        BY <1>5, <2>2, WalAppendFacts, LogTypes DEF AppendCommit
    <2>5. \/ wal'[Len(wal) + 1].writer = committer
          \/ wal'[Len(wal) + 1].type # "COMMIT"
        BY <1>5, <2>2, WalAppendFacts DEF AppendCommit, CommitRecord, Torn
    <2>6. i = Len(wal) + 1
        BY <1>2, <2>3, <2>4
    <2> QED
        BY <1>3, <1>5, <2>5, <2>6
<1>6. CASE UNCHANGED wal
    BY <1>1, <1>6 DEF CommitLogged
<1>7. ASSUME NEW u \in Txn, Call(u)
      PROVE  UNCHANGED wal
    BY <1>7, CallFacts
<1>8. CASE (\E k \in Key : Install(k)) \/ SyncWal \/ Ack \/ Return
           \/ ReplayStep \/ UNCHANGED vars
    <2>1. UNCHANGED wal
        BY <1>8 DEF Install, SyncWal, Ack, Return, ReplayStep, ReplayRedo,
                    ReplayCommit, RecoverDone, vars, fileVars
    <2> QED
        BY <1>6, <2>1
<1>9. ~ Ends /\ ~ Restart
    BY DEF Ends, Close, FaultPoint, Kill, PowerLoss, ProcessEnds, Restart,
           Serving
<1> QED
    BY <1>4, <1>5, <1>6, <1>7, <1>8, <1>9, StepKinds

\* A lost transaction of a serving process was lost before and is not touched.
LEMMA LostKept ==
    ASSUME NoErrors, TypeInv, [Next]_vars, Serving', NEW t \in Txn,
           state'[t] = "LOST"
    PROVE  Same(t) /\ state[t] = "LOST"
<1> USE DEF TypeInv
<1>1. ASSUME NEW u \in Txn, Call(u)
      PROVE  Same(t) /\ state[t] = "LOST"
    <2>1. CASE GetWalk(u) \/ \E k \in Key : GetOpen(u, k)
        BY <2>1 DEF GetWalk, GetOpen, txnVars, Same
    <2>2. CASE \E k \in Key : Put(u, k) \/ Delete(u, k)
        <3>1. UNCHANGED state /\ state[u] = "ACTIVE"
            BY <2>2 DEF Put, Delete, MayUse
        <3> QED
            BY <1>1, <3>1, CallFacts
    <2>3. CASE Begin(u) \/ Abort(u) \/ CommitReadOnly(u) \/ CommitConflict(u)
               \/ CommitStart(u)
        <3>1. \/ UNCHANGED state /\ state[u] = "ACTIVE"
              \/ \E s \in {"ACTIVE", "ABORTED", "COMMITTED"} :
                    state' = [state EXCEPT ![u] = s]
            BY <2>3 DEF Begin, Abort, CommitReadOnly, CommitConflict,
                        CommitStart, MayCommit, MayUse
        <3>2. u # t
            BY <3>1 DEF TypeOK
        <3> QED
            BY <1>1, <3>2, CallFacts
    <2> QED
        BY <1>1, <2>1, <2>2, <2>3 DEF Call
<1>2. CASE Ack
    <2>1. state' = [state EXCEPT ![committer] = "COMMITTED"]
        BY <1>2 DEF Ack
    <2>2. state[t] = "LOST"
        BY <2>1 DEF TypeOK
    <2> QED
        BY <1>2, <2>2, OtherFacts DEF CommitStep
<1>3. CASE AppendCommit \/ (\E k \in Key : AppendRedo(k) \/ Install(k))
           \/ SyncWal \/ Return \/ Restart \/ ReplayStep \/ UNCHANGED vars
    <2>1. UNCHANGED state
        BY <1>3 DEF AppendCommit, AppendRedo, Install, SyncWal, Return,
                    Restart, ReplayStep, ReplayRedo, ReplayCommit,
                    RecoverDone, vars, txnVars
    <2> QED
        BY <1>3, <2>1, OtherFacts DEF CommitStep
<1>4. ~ Ends
    BY DEF Ends, Close, FaultPoint, Kill, PowerLoss, ProcessEnds, Serving
<1> QED
    BY <1>1, <1>2, <1>3, <1>4, StepKinds

LEMMA NextLostReplayed ==
    ASSUME CleanRestarts, TypeInv, DurabilityInv, LogInv, LostReplayed,
           [Next]_vars
    PROVE  LostReplayed'
<1> USE DEF TypeInv
<1>0. NoErrors /\ TypeOK /\ CommitsComplete
    BY CleanFacts DEF LogInv
<1> SUFFICES ASSUME Serving', NEW t \in Txn, state'[t] = "LOST",
                    CommitLogged(t)', NEW k \in Key, k \in Written(t)'
             PROVE  InCatalog(RedoRecord(t, k))'
    BY DEF LostReplayed, Written
<1>1. Same(t) /\ state[t] = "LOST"
    BY <1>0, LostKept
<1>2. k \in Written(t) /\ RedoRecord(t, k)' = RedoRecord(t, k)
      /\ CommitRecord(t)' = CommitRecord(t)
    BY <1>1, SameFacts
<1>3. CASE Serving
    <2>1. CommitLogged(t)
        <3>1. SUFFICES ASSUME ~ CommitLogged(t)
                       PROVE  FALSE
            OBVIOUS
        <3>2. AppendCommit /\ t = committer
            BY <1>0, <1>1, <1>3, <3>1, NewCommits
        <3> QED
            BY <1>1, <3>2 DEF AppendCommit, DurabilityInv, CommitProgress
    <2> QED
        BY <1>0, <1>1, <1>2, <1>3, <2>1, CatalogKept DEF LostReplayed
<1>4. CASE ~ Serving
    <2>1. RecoverDone
        <3>1. ASSUME NEW u \in Txn, Call(u)
              PROVE  FALSE
            BY <1>4, <3>1, CallFacts
        <3> QED
            BY <1>0, <1>4, <3>1, StepKinds
            DEF AppendCommit, AppendRedo, Install, SyncWal, Ack, Return, Ends,
                Close, FaultPoint, Kill, PowerLoss, ProcessEnds, Restart,
                ReplayStep, ReplayRedo, ReplayCommit, Serving, vars, commitVars
    <2>2. /\ stage = "replay" /\ scan > Len(wal)
          /\ UNCHANGED <<wal, catalog>>
        BY <2>1 DEF RecoverDone, fileVars
    <2>3. PICK i \in 1 .. Len(wal) : wal[i] = CommitRecord(t)
        BY <1>2, <2>2 DEF CommitLogged
    <2>4. wal[i].type = "COMMIT" /\ wal[i].writer = t
          /\ wal[i].txn_id = txn_id[t]
        BY <2>3 DEF CommitRecord
    <2>5. RedoWithin(t, k, i)
        BY <1>0, <1>2, <2>4 DEF CommitsComplete
    <2>6. PICK j \in 1 .. i : wal[j] = RedoRecord(t, k)
        BY <2>5 DEF RedoWithin
    <2>7. j \in 1 .. Len(wal) /\ j < scan
        <3>1. Len(wal) \in Nat /\ scan \in Nat
            BY LogTypes DEF TypeOK
        <3> QED
            BY <2>2, <3>1
    <2>8. wal[j].type \in {"REDO_PUT", "REDO_DEL"} /\ wal[j].txn_id = txn_id[t]
        BY <2>6, RedoRecordFacts
    <2>9. IsCommittedId(wal[j].txn_id)
        BY <2>4, <2>8 DEF IsCommittedId
    <2>10. InCatalog(wal[j])
        BY <2>2, <2>7, <2>8, <2>9 DEF DurabilityInv, ReplayProgress
    <2>11. InCatalog(RedoRecord(t, k))
        BY <2>6, <2>10
    <2> QED
        BY <1>2, <2>2, <2>11 DEF InCatalog
<1> QED
    BY <1>3, <1>4

LEMMA NextVisInv ==
    ASSUME CleanRestarts, TypeInv, DurabilityInv, OrderInv, LogInv, IdInv,
           VisInv, [Next]_vars
    PROVE  VisInv'
    BY NextCatalogKnown, NextLostReplayed DEF VisInv

-----------------------------------------------------------------------------
\* First committer wins

\* Without a new redo record the old ones go on to be in the right order.
LEMMA LogWinsStays ==
    ASSUME CleanRestarts, TypeInv, DurabilityInv, LogInv, LogWins,
           [Next]_vars,
           NEW i \in 1 .. Len(wal), NEW j \in 1 .. Len(wal), i < j,
           wal'[i] = wal[i], wal'[j] = wal[j], Redo(i), Redo(j),
           wal[i].key = wal[j].key,
           NEW t \in Txn, NEW u \in Txn, t = wal[i].writer, u = wal[j].writer,
           t # u, CommitLogged(t)'
    PROVE  wal[i].commit_ts <= start_ts'[u]
<1> USE DEF TypeInv
<1>0. WholeWrites /\ NoErrors /\ RecordsKnown /\ CommitterAlone
    BY CleanFacts DEF LogInv
<1>1. WriterKept(t) /\ WriterKept(u)
    <2>1. wal[i].type # "TORN" /\ wal[j].type # "TORN"
        BY DEF Redo
    <2> QED
        BY <1>0, <2>1, WritersKept
<1>2. SUFFICES CommitLogged(t)
    BY <1>1 DEF LogWins, WriterKept
<1>3. CASE ~ AppendCommit /\ \A k \in Key : ~ AppendRedo(k)
    BY <1>0, <1>1, <1>3, NoNewRecordSteps, CommitNotLogged DEF WriterKept
<1>4. CASE AppendCommit \/ \E k \in Key : AppendRedo(k)
    <2> SUFFICES ASSUME ~ CommitLogged(t)
                 PROVE  FALSE
        OBVIOUS
    <2>1. Serving /\ Serving' /\ stage = "redo"
        BY <1>4 DEF AppendCommit, AppendRedo, Serving
    <2>2. t = committer
        BY <1>0, <1>1, <2>1, NewCommits DEF WriterKept
    <2>3. \A l \in i .. Len(wal) : wal[l].writer = committer
        BY <1>0, <2>1, <2>2 DEF CommitterAlone
    <2>4. j \in i .. Len(wal)
        <3>1. Len(wal) \in Nat
            BY LogTypes
        <3> QED
            BY <3>1
    <2> QED
        BY <2>2, <2>3, <2>4
<1> QED
    BY <1>3, <1>4

LEMMA NextLogWins ==
    ASSUME CleanRestarts, TypeInv, DurabilityInv, LogInv, WinInv, [Next]_vars
    PROVE  LogWins'
<1> USE DEF TypeInv
<1>0. /\ WholeWrites /\ NoErrors /\ RecordsKnown /\ LogWins /\ CommitterWins
      /\ CommitterWrites
    BY CleanFacts DEF LogInv, WinInv
<1> DEFINE Wins(i, j) ==
        /\ i < j /\ Redo(i) /\ Redo(j) /\ wal[i].key = wal[j].key
        /\ wal[i].writer # wal[j].writer /\ CommitLogged(wal[i].writer)
        => wal[i].commit_ts <= start_ts[wal[j].writer]
<1> SUFFICES \A i, j \in 1 .. Len(wal') : Wins(i, j)'
    BY DEF LogWins
<1>1. ASSUME NEW i \in 1 .. Len(wal), NEW j \in 1 .. Len(wal),
             wal'[i] = wal[i], wal'[j] = wal[j]
      PROVE  Wins(i, j)'
    <2> SUFFICES ASSUME Redo(i), Redo(j)
                 PROVE  Wins(i, j)'
        BY <1>1 DEF Redo
    <2>1. PICK t \in Txn, u \in Txn : t = wal[i].writer /\ u = wal[j].writer
        BY RecordFacts DEF Redo
    <2>2. ASSUME i < j, wal[i].key = wal[j].key, t # u, CommitLogged(t)'
          PROVE  wal[i].commit_ts <= start_ts'[u]
        BY <1>0, <1>1, <2>1, <2>2, LogWinsStays
    <2> QED
        BY <1>1, <2>1, <2>2
<1>2. CASE \A k \in Key : ~ AppendRedo(k)
    <2>1. \A i \in 1 .. Len(wal') : Redo(i)' =>
             i \in 1 .. Len(wal) /\ wal'[i] = wal[i]
        <3>1. CASE AppendCommit
            <4>1. /\ Len(wal') = Len(wal) + 1 /\ Len(wal) \in Nat
                  /\ \A i \in 1 .. Len(wal) : wal'[i] = wal[i]
                  /\ wal'[Len(wal) + 1].type = "COMMIT"
                BY <1>0, <3>1, AppendCommitFacts DEF CommitRecord
            <4> QED
                BY <4>1 DEF Redo
        <3>2. CASE ~ AppendCommit
            <4>1. NoNewRecord
                BY <1>0, <1>2, <3>2, NoNewRecordSteps
            <4> QED
                BY <4>1 DEF NoNewRecord, Redo
        <3> QED
            BY <3>1, <3>2
    <2> QED
        BY <1>1, <2>1
<1>3. ASSUME NEW k \in Key, AppendRedo(k)
      PROVE  \A i, j \in 1 .. Len(wal') : Wins(i, j)'
    <2>1. PICK n \in Nat, c \in Txn : n = Len(wal) /\ c = committer
        BY <1>0, <1>3, AppendRedoFacts
    <2>2. /\ Len(wal') = n + 1 /\ \A i \in 1 .. n : wal'[i] = wal[i]
          /\ wal'[n + 1].writer = c /\ wal'[n + 1].key = k
          /\ k \in todo /\ stage = "redo" /\ stage' = "redo"
        BY <1>0, <1>3, <2>1, AppendRedoFacts, RedoRecordFacts
    <2>3. UNCHANGED start_ts
        BY <1>3, OtherFacts DEF CommitStep
    <2>4. ASSUME NEW i \in 1 .. n
          PROVE  Wins(i, n + 1)'
        <3> SUFFICES ASSUME Redo(i), wal[i].key = k
                     PROVE  Wins(i, n + 1)'
            BY <2>2, <2>4 DEF Redo
        <3>1. PICK t \in Txn : t = wal[i].writer
            BY <2>1, RecordFacts DEF Redo
        <3>2. ASSUME t # c, CommitLogged(t)'
              PROVE  wal[i].commit_ts <= start_ts[c]
            <4>1. Same(t)
                BY <1>3, OtherFacts DEF CommitStep
            <4>2. Serving /\ Serving'
                BY <2>2 DEF Serving
            <4>3. CommitLogged(t)
                BY <1>0, <2>1, <3>2, <4>1, <4>2, NewCommits
            <4>4. k \in Written(c)
                BY <1>0, <2>1, <2>2 DEF CommitterWrites
            <4> QED
                BY <1>0, <2>1, <2>2, <3>1, <4>3, <4>4 DEF CommitterWins
        <3> QED
            BY <2>2, <2>3, <3>1, <3>2
    <2>5. \A i \in 1 .. n + 1 : i \in 1 .. n \/ i = n + 1
        OBVIOUS
    <2>6. ASSUME NEW i \in 1 .. n, NEW j \in 1 .. n
          PROVE  Wins(i, j)'
        BY <1>1, <2>1, <2>2
    <2>7. ASSUME NEW j \in 1 .. n + 1
          PROVE  Wins(n + 1, j)'
        OBVIOUS
    <2> HIDE DEF Wins
    <2> QED
        BY <2>2, <2>4, <2>5, <2>6, <2>7
<1> QED
    BY <1>2, <1>3

\* What the committer logs and installs comes after what the catalog has.
LEMMA NextCommitterWins ==
    ASSUME CleanRestarts, TypeInv, DurabilityInv, CatalogInv, LogInv, VisInv,
           WinInv, [Next]_vars
    PROVE  CommitterWins'
<1> USE DEF TypeInv
<1>0. /\ WholeWrites /\ NoErrors /\ RecordsKnown /\ CommitterWins
      /\ CommitterAlone /\ LostReplayed
    BY CleanFacts DEF LogInv, VisInv, WinInv
<1> DEFINE
      LogBefore(k) == \A i \in 1 .. Len(wal) :
          Redo(i) /\ wal[i].key = k /\ CommitLogged(wal[i].writer)
          => wal[i].commit_ts <= start_ts[committer]
      CatalogBefore(k) == \A i \in 1 .. Len(catalog[k]) :
          catalog[k][i].begin_ts <= start_ts[committer]
      Wins(k) == /\ stage = "redo" => LogBefore(k)
                 /\ stage \in {"redo", "sync"} \/ k \in todo => CatalogBefore(k)
<1>1. CommitterWins <=> (stage \in {"redo", "sync", "install"} =>
                            \A k \in Written(committer) : Wins(k))
    BY DEF CommitterWins
<1>2. CommitterWins' <=> (stage' \in {"redo", "sync", "install"} =>
                            \A k \in Written(committer)' : Wins(k)')
    BY DEF CommitterWins
<1>3. ASSUME UNCHANGED <<catalog, committer, start_ts>>, NEW k \in Key
      PROVE  CatalogBefore(k) => CatalogBefore(k)'
    BY <1>3
\* A record of an earlier log is covered by what was known of it.
<1>4. ASSUME NEW k \in Key, NEW i \in 1 .. Len(wal), wal'[i] = wal[i],
             Redo(i), wal[i].key = k, UNCHANGED <<committer, start_ts>>,
             ~ AppendCommit, Serving, Serving', LogBefore(k),
             CommitLogged(wal[i].writer)'
      PROVE  wal[i].commit_ts <= start_ts'[committer']
    <2>1. PICK t \in Txn : t = wal[i].writer
        BY <1>4, RecordFacts DEF Redo
    <2>2. Same(t)
        BY <1>0, <1>4, <2>1, WritersKept DEF WriterKept, Redo
    <2>3. CommitLogged(t)'
        BY <1>4, <2>1
    <2>4. CommitLogged(t)
        BY <1>0, <1>4, <2>2, <2>3, NewCommits
    <2> QED
        BY <1>4, <2>1, <2>4
<1>5. CASE /\ UNCHANGED <<wal, stage, committer, todo, catalog>>
           /\ stage \in {"redo", "sync", "install"}
    <2>1. PICK c \in Txn : c = committer
        BY <1>5, EngineAssumption DEF TypeOK
    <2>2. Same(c) /\ start_ts'[c] = start_ts[c]
        <3>1. ASSUME NEW t \in Txn, Call(t)
              PROVE  Same(c) /\ start_ts'[c] = start_ts[c]
            <4>1. state[c] = "ACTIVE"
                BY <1>5, <2>1 DEF DurabilityInv, CommitProgress
            <4> QED
                BY <2>1, <3>1, <4>1, CallFacts
        <3> QED
            BY <1>0, <3>1, OtherFacts, StepKinds DEF CommitStep
    <2>3. Written(c)' = Written(c)
        BY <2>2, SameFacts
    <2>4. ASSUME NEW k \in Key, LogBefore(k), stage = "redo"
          PROVE  LogBefore(k)'
        <3> SUFFICES ASSUME NEW i \in 1 .. Len(wal), Redo(i), wal[i].key = k,
                            CommitLogged(wal[i].writer)'
                     PROVE  wal[i].commit_ts <= start_ts[c]
            BY <1>5, <2>1, <2>2 DEF Redo
        <3>1. PICK t \in Txn : t = wal[i].writer
            BY RecordFacts DEF Redo
        <3>2. Same(t)
            BY <1>0, <3>1, WritersKept DEF WriterKept, Redo
        <3>3. CommitLogged(t)' /\ NoNewRecord
            BY <1>5, <3>1 DEF NoNewRecord
        <3>4. CommitLogged(t)
            BY <3>2, <3>3, CommitNotLogged
        <3> QED
            BY <2>1, <2>4, <3>1, <3>4
    <2>5. ASSUME NEW k \in Key, CatalogBefore(k)
          PROVE  CatalogBefore(k)'
        BY <1>5, <2>1, <2>2, <2>5
    <2>6. Written(c) \subseteq Key
        BY DEF Written
    <2> QED
        BY <1>0, <1>1, <1>2, <1>5, <2>1, <2>3, <2>4, <2>5, <2>6
<1>6. ASSUME NEW c \in Txn, CommitStart(c), stage = "idle"
      PROVE  CommitterWins'
    <2>1. /\ committer' = c /\ stage' = "redo" /\ ~ Conflicts(c) /\ Serving
          /\ UNCHANGED <<wal, catalog, start_ts>>
          /\ Written(c)' = Written(c) /\ Written(c) \subseteq Key
        BY <1>6 DEF CommitStart, MayCommit, Written, fileVars, Serving
    <2>2. ASSUME NEW k \in Written(c)
          PROVE  \A i \in 1 .. Len(catalog[k]) :
                    catalog[k][i].begin_ts <= start_ts[c]
        <3>1. k \in Key /\ catalog[k] \in Versions(Txn)
            BY <2>1, CatalogTypes
        <3>2. Len(catalog[k]) \in Nat
              /\ \A i \in 1 .. Len(catalog[k]) : catalog[k][i].begin_ts \in Nat
            BY <3>1, CatalogTypes
        <3> SUFFICES ASSUME NEW i \in 1 .. Len(catalog[k])
                     PROVE  catalog[k][i].begin_ts <= start_ts[c]
            OBVIOUS
        <3>3. catalog[k] # << >>
            BY <3>1, <3>2 DEF Versions
        <3>4. ~ (catalog[k][Len(catalog[k])].begin_ts > start_ts[c])
            BY <2>1, <3>3 DEF Conflicts, GetLatestCommitTs
        <3>5. InOrder(catalog[k])
            BY <3>1 DEF CatalogInv, CatalogInOrder
        <3>6. Len(catalog[k]) \in 1 .. Len(catalog[k]) /\ i <= Len(catalog[k])
            BY <3>2
        <3>7. catalog[k][i].begin_ts <= catalog[k][Len(catalog[k])].begin_ts
            BY <3>5, <3>6 DEF InOrder
        <3>8. start_ts[c] \in Nat
            BY DEF TypeOK
        <3> QED
            BY <3>2, <3>4, <3>6, <3>7, <3>8
    <2>3. ASSUME NEW k \in Written(c), NEW i \in 1 .. Len(wal), Redo(i),
                 wal[i].key = k, NEW t \in Txn, t = wal[i].writer,
                 CommitLogged(t)'
          PROVE  wal[i].commit_ts <= start_ts[c]
        <3>1. wal[i].type # "TORN"
            BY <2>3 DEF Redo
        <3>2. Same(t)
            BY <1>0, <2>3, <3>1, WritersKept DEF WriterKept
        <3>3. NoNewRecord
            BY <2>1 DEF NoNewRecord
        <3>4. CommitLogged(t)
            BY <2>3, <3>2, <3>3, CommitNotLogged
        <3>5. /\ k \in Written(t) /\ wal[i] = RedoRecord(t, k)
              /\ state[t] \in {"COMMITTED", "LOST"}
            BY <1>0, <1>6, <2>3, <3>1 DEF RecordsKnown
        <3>6. InCatalog(RedoRecord(t, k))
            <4>1. CASE state[t] = "COMMITTED"
                BY <2>1, <3>5, <4>1 DEF DurabilityInv, Acknowledged
            <4>2. CASE state[t] = "LOST"
                BY <1>0, <2>1, <3>4, <3>5, <4>2 DEF LostReplayed
            <4> QED
                BY <3>5, <4>1, <4>2
        <3>7. k \in Key /\ RedoRecord(t, k).key = k
            BY <2>1, RedoRecordFacts
        <3>8. \E j \in 1 .. Len(catalog[k]) :
                 catalog[k][j].begin_ts = wal[i].commit_ts
            BY <3>5, <3>6, <3>7 DEF InCatalog
        <3> QED
            BY <2>2, <3>8
    <2>4. ASSUME NEW k \in Written(c), NEW i \in 1 .. Len(wal), Redo(i),
                 wal[i].key = k, CommitLogged(wal[i].writer)'
          PROVE  wal[i].commit_ts <= start_ts[c]
        <3>1. PICK t \in Txn : t = wal[i].writer
            BY <2>4, RecordFacts DEF Redo
        <3>2. CommitLogged(t)'
            BY <2>1, <2>4, <3>1
        <3> QED
            BY <2>3, <2>4, <3>1, <3>2
    <2>5. ASSUME NEW k \in Written(c)
          PROVE  Wins(k)'
        <3>1. CatalogBefore(k)'
            BY <2>1, <2>2
        <3>2. LogBefore(k)'
            BY <2>1, <2>4 DEF Redo
        <3> QED
            BY <3>1, <3>2
    <2> HIDE DEF Wins
    <2> QED
        BY <1>2, <2>1, <2>5
<1>7. ASSUME NEW k \in Key, AppendRedo(k)
      PROVE  CommitterWins'
    <2>1. PICK n \in Nat, c \in Txn : n = Len(wal) /\ c = committer
        BY <1>0, <1>7, AppendRedoFacts
    <2>2. /\ Len(wal') = n + 1 /\ \A i \in 1 .. n : wal'[i] = wal[i]
          /\ wal'[n + 1].writer = c
          /\ stage = "redo" /\ stage' = "redo" /\ Serving /\ Serving'
          /\ UNCHANGED <<committer, catalog>>
        BY <1>0, <1>7, <2>1, AppendRedoFacts, RedoRecordFacts DEF Serving
    <2>3. Same(c) /\ UNCHANGED start_ts
        BY <1>7, OtherFacts DEF CommitStep
    <2>4. Written(c)' = Written(c) /\ Written(c) \subseteq Key
        BY <2>3, SameFacts DEF Written
    <2>5. ~ AppendCommit
        BY <2>2 DEF AppendCommit
    <2>6. ~ CommitLogged(c)'
        <3>1. SUFFICES ASSUME CommitLogged(c)'
                       PROVE  FALSE
            OBVIOUS
        <3>2. CommitLogged(c)
            BY <1>0, <2>2, <2>3, <2>5, <3>1, NewCommits
        <3>3. PICK i \in 1 .. Len(wal) : wal[i] = CommitRecord(c)
            BY <3>2 DEF CommitLogged
        <3>4. wal[i].type = "COMMIT" /\ wal[i].writer = c
            BY <3>3 DEF CommitRecord
        <3> QED
            BY <1>0, <2>1, <2>2, <3>4 DEF CommitterAlone, Redo
    <2>7. ASSUME NEW l \in Written(c)
          PROVE  Wins(l)'
        <3>1. l \in Key /\ LogBefore(l) /\ CatalogBefore(l)
            BY <1>0, <1>1, <2>1, <2>2, <2>4
        <3>2. CatalogBefore(l)'
            BY <1>3, <2>2, <2>3, <3>1
        <3>3. ASSUME NEW i \in 1 .. n + 1, Redo(i)', wal'[i].key = l,
                     CommitLogged(wal[i].writer)'
              PROVE  wal'[i].commit_ts <= start_ts'[committer']
            <4>1. CASE i = n + 1
                BY <2>2, <2>6, <3>3, <4>1
            <4>2. CASE i # n + 1
                <5>1. i \in 1 .. n
                    BY <4>2
                <5>2. wal'[i] = wal[i] /\ Redo(i) /\ wal[i].key = l
                    BY <2>2, <3>3, <5>1 DEF Redo
                <5> HIDE DEF LogBefore
                <5>3. CommitLogged(wal[i].writer)'
                    BY <3>3, <5>2
                <5> QED
                    BY <1>4, <2>1, <2>2, <2>3, <2>5, <3>1, <5>1, <5>2, <5>3
            <4> QED
                BY <4>1, <4>2
        <3>4. LogBefore(l)'
            BY <2>2, <3>3
        <3> QED
            BY <3>2, <3>4
    <2> HIDE DEF Wins
    <2> QED
        BY <1>2, <2>1, <2>2, <2>4, <2>7
<1>8. CASE AppendCommit \/ SyncWal
    <2>1. /\ stage \in {"redo", "sync"} /\ stage' \in {"sync", "install"}
          /\ UNCHANGED <<catalog, committer, start_ts, write_set>>
        BY <1>8 DEF AppendCommit, SyncWal, txnVars
    <2>2. Written(committer)' = Written(committer)
          /\ Written(committer) \subseteq Key
        BY <2>1 DEF Written
    <2>3. ASSUME NEW k \in Written(committer)
          PROVE  Wins(k)'
        <3>1. CatalogBefore(k) /\ k \in Key
            BY <1>0, <1>1, <2>1, <2>2
        <3>2. CatalogBefore(k)'
            BY <1>3, <2>1, <3>1
        <3> QED
            BY <2>1, <3>2
    <2> HIDE DEF Wins
    <2> QED
        BY <1>2, <2>2, <2>3
<1>9. ASSUME NEW k \in Key, Install(k)
      PROVE  CommitterWins'
    <2>1. /\ stage = "install" /\ stage' = "install" /\ todo' = todo \ {k}
          /\ UNCHANGED <<committer, start_ts, write_set>>
          /\ \A l \in Key : l # k => catalog'[l] = catalog[l]
        BY <1>9 DEF Install, txnVars, TypeOK
    <2>2. Written(committer)' = Written(committer)
          /\ Written(committer) \subseteq Key
        BY <2>1 DEF Written
    <2>3. ASSUME NEW l \in Written(committer)
          PROVE  Wins(l)'
        <3>1. l \in todo => CatalogBefore(l) /\ l \in Key
            BY <1>0, <1>1, <2>1, <2>2
        <3>2. l \in todo' => l # k /\ l \in todo
            BY <2>1
        <3> QED
            BY <2>1, <3>1, <3>2
    <2> HIDE DEF Wins
    <2> QED
        BY <1>2, <2>2, <2>3
<1>10. CASE stage' \notin {"redo", "sync", "install"}
    BY <1>2, <1>10
<1> HIDE DEF Wins
<1> QED
    BY <1>0, <1>5, <1>6, <1>7, <1>8, <1>9, <1>10, StageFacts

\* A version more is all right if its writer began after the one before it.
LEMMA InstallKeepsWins ==
    ASSUME TypeOK, FirstCommitterWins, NEW k \in Key,
           NEW version \in VersionBy(Txn), Installs(k, version),
           UNCHANGED start_ts,
           \A i \in 1 .. Len(catalog[k]) :
               catalog[k][i].begin_ts <= start_ts[version.writer]
    PROVE  FirstCommitterWins'
<1>1. /\ \A l \in Key : l # k => catalog'[l] = catalog[l]
      /\ Len(catalog'[k]) = Len(catalog[k]) + 1
      /\ catalog'[k][Len(catalog[k]) + 1] = version
      /\ \A i \in 1 .. Len(catalog[k]) :
            /\ catalog'[k][i].begin_ts = catalog[k][i].begin_ts
            /\ catalog'[k][i].writer = catalog[k][i].writer
    BY InstallInCatalog, ZenonT(30) DEF Installs
<1>2. PICK n \in Nat : n = Len(catalog[k])
    BY CatalogTypes
<1> SUFFICES ASSUME NEW l \in Key, NEW i \in 2 .. Len(catalog'[l])
             PROVE  catalog'[l][i - 1].begin_ts
                        <= start_ts[catalog'[l][i].writer]
    BY DEF FirstCommitterWins
<1>3. CASE l # k
    BY <1>1, <1>3 DEF FirstCommitterWins
<1>4. CASE l = k /\ i = n + 1
    <2>1. i - 1 \in 1 .. n
        BY <1>2, <1>4
    <2> QED
        BY <1>1, <1>2, <1>4, <2>1
<1>5. CASE l = k /\ i # n + 1
    <2>1. i - 1 \in 1 .. n /\ i \in 1 .. n /\ i \in 2 .. n
        BY <1>1, <1>2, <1>5
    <2> QED
        BY <1>1, <1>2, <1>5, <2>1 DEF FirstCommitterWins
<1> QED
    BY <1>3, <1>4, <1>5

LEMMA NextFirstCommitterWins ==
    ASSUME CleanRestarts, TypeInv, DurabilityInv, LogInv, IdInv, VisInv,
           WinInv, [Next]_vars
    PROVE  FirstCommitterWins'
<1> USE DEF TypeInv
<1>0. /\ NoErrors /\ RecordsKnown /\ RedoOnce /\ CommitterWrites
      /\ CatalogKnown /\ LogWins /\ CommitterWins /\ FirstCommitterWins
    BY CleanFacts DEF LogInv, VisInv, WinInv
<1>1. CASE UNCHANGED catalog
    <2> SUFFICES ASSUME NEW k \in Key, NEW i \in 2 .. Len(catalog[k])
                 PROVE  catalog[k][i - 1].begin_ts
                            <= start_ts'[catalog[k][i].writer]
        BY <1>1 DEF FirstCommitterWins
    <2>1. i \in 1 .. Len(catalog[k])
        BY CatalogTypes
    <2>2. PICK t \in Txn : t = catalog[k][i].writer
        <3>1. catalog[k][i] \in VersionRecord
            BY <2>1 DEF TypeOK
        <3> QED
            BY <3>1 DEF VersionRecord
    <2>3. CommitLogged(t)
        BY <1>0, <2>1, <2>2 DEF CatalogKnown
    <2>4. start_ts'[t] = start_ts[t]
        BY <1>0, <2>3, LoggedWriterKept DEF WriterKept
    <2> QED
        BY <1>0, <2>2, <2>4 DEF FirstCommitterWins
<1>2. ASSUME NEW k \in Key, Install(k)
      PROVE  FirstCommitterWins'
    <2>1. PICK c \in Txn, version \in VersionBy(Txn) :
            /\ c = committer
            /\ version = NewVersion(commit_ts[c], c, write_set[c][k] = "del")
            /\ Installs(k, version)
        BY <1>2, InstallSteps
    <2>2. version.writer = c /\ stage = "install" /\ k \in todo
        BY <1>2, <2>1 DEF NewVersion, Install
    <2>3. \A i \in 1 .. Len(catalog[k]) :
             catalog[k][i].begin_ts <= start_ts[version.writer]
        BY <1>0, <2>1, <2>2 DEF CommitterWins, CommitterWrites
    <2>4. UNCHANGED start_ts
        BY <1>2, OtherFacts DEF CommitStep
    <2> QED
        BY <1>0, <2>1, <2>3, <2>4, InstallKeepsWins
<1>3. CASE ReplayRedo /\ catalog' # catalog
    <2>1. PICK t \in Txn, k \in Key, version \in VersionBy(Txn) :
            /\ scan \in 1 .. Len(wal) /\ Redo(scan)
            /\ wal[scan] = RedoRecord(t, k) /\ CommitLogged(t)
            /\ wal[scan].writer = t /\ k \in Written(t)
            /\ version = NewVersion(commit_ts[t], t, write_set[t][k] = "del")
            /\ Installs(k, version)
        BY <1>3, ReplaySteps
    <2>2. version.writer = t /\ stage = "replay"
        BY <1>3, <2>1 DEF NewVersion, ReplayRedo
    <2>3. ASSUME NEW i \in 1 .. Len(catalog[k])
          PROVE  catalog[k][i].begin_ts <= start_ts[t]
        <3>1. PICK u \in Txn : u = catalog[k][i].writer
            <4>1. catalog[k][i] \in VersionRecord
                BY DEF TypeOK
            <4> QED
                BY <4>1 DEF VersionRecord
        <3>2. /\ CommitLogged(u)
              /\ catalog[k][i].begin_ts = commit_ts[u]
              /\ \E j \in 1 .. Len(wal) :
                    j < scan /\ wal[j] = RedoRecord(u, k)
            BY <1>0, <2>2, <3>1 DEF CatalogKnown
        <3>3. PICK j \in 1 .. Len(wal) : j < scan /\ wal[j] = RedoRecord(u, k)
            BY <3>2
        <3>4. /\ Redo(j) /\ wal[j].writer = u /\ wal[j].key = k
              /\ wal[j].commit_ts = commit_ts[u]
            BY <3>3, RedoRecordFacts DEF Redo
        <3>5. wal[scan].key = k
            BY <2>1, RedoRecordFacts
        <3>6. j # scan
            <4>1. scan \in Nat
                BY DEF TypeOK
            <4> QED
                BY <3>3, <4>1
        <3>7. u # t
            BY <1>0, <2>1, <3>4, <3>5, <3>6 DEF RedoOnce
        <3> QED
            BY <1>0, <2>1, <3>2, <3>3, <3>4, <3>5, <3>7 DEF LogWins
    <2>4. UNCHANGED start_ts
        BY <1>3, OtherFacts DEF ReplayStep
    <2> QED
        BY <1>0, <2>1, <2>2, <2>3, <2>4, InstallKeepsWins
<1>4. CASE \A k \in Key : Len(catalog'[k]) = 0
    BY <1>4 DEF FirstCommitterWins
<1> QED
    BY <1>0, <1>1, <1>2, <1>3, <1>4, CatalogSteps

LEMMA NextWinInv ==
    ASSUME CleanRestarts, TypeInv, DurabilityInv, CatalogInv, LogInv, IdInv,
           VisInv, WinInv, [Next]_vars
    PROVE  WinInv'
    BY NextLogWins, NextCommitterWins, NextFirstCommitterWins DEF WinInv

-----------------------------------------------------------------------------
\* The whole invariant, and what follows from it

CleanInv == LogInv /\ IdInv /\ VisInv /\ WinInv

LEMMA InitCleanInv == Init => CleanInv
<1> SUFFICES ASSUME Init
             PROVE  CleanInv
    OBVIOUS
<1>1. /\ Len(wal) = 0 /\ \A k \in Key : Len(catalog[k]) = 0
      /\ stage = "down" /\ wal = << >>
    BY DEF Init
<1>2. LogInv
    BY <1>1 DEF LogInv, RecordsKnown, RedoOnce, CommitsComplete,
                CommitterAlone, CommitterWrites
<1>3. IdInv
    BY <1>1 DEF IdInv, NoOrphans, FirstProcess, IdsFresh, IdsSound, Serving
<1>4. VisInv
    BY <1>1 DEF VisInv, CatalogKnown, LostReplayed, Serving
<1>5. WinInv
    BY <1>1 DEF WinInv, LogWins, CommitterWins, FirstCommitterWins
<1> QED
    BY <1>2, <1>3, <1>4, <1>5 DEF CleanInv

LEMMA CleanInvariant ==
    ASSUME CleanRestarts
    PROVE  Spec => [](DurabilityInv /\ CleanInv)
<1>1. Init => DurabilityInv /\ CleanInv
    BY InitDurabilityInv, InitCleanInv
<1>2. /\ TypeInv /\ TypeInv' /\ OrderInv /\ OrderInv' /\ CatalogInv
      /\ DurabilityInv /\ CleanInv /\ [Next]_vars
      => DurabilityInv' /\ CleanInv'
    BY CleanFacts, NextDurabilityInv, NextLogInv, NextIdInv, NextVisInv,
       NextWinInv DEF CleanInv
<1>3. Spec => []CatalogInv
    BY CleanFacts, CatalogInvariant
<1> QED
    BY <1>1, <1>2, <1>3, TypeInvariant, OrderInvariant, PTL DEF Spec

\* Who has a version in the catalog.
LEMMA VisitedFacts ==
    ASSUME TypeInv, CleanInv, NEW t \in Txn, NEW k \in Key, Visited(t, k)
    PROVE  /\ CommitLogged(t) /\ k \in Written(t)
           /\ state[t] \in {"ACTIVE", "COMMITTED", "LOST"}
           /\ state[t] = "ACTIVE" => t = committer /\ stage = "install"
<1>1. PICK i \in 1 .. Len(catalog[k]) : catalog[k][i].writer = t
    BY DEF Visited
<1>2. /\ CommitLogged(t) /\ k \in Written(t)
      /\ state[t] = "ACTIVE" => stage = "install"
    BY <1>1 DEF CleanInv, VisInv, CatalogKnown
<1>3. PICK j \in 1 .. Len(wal) : wal[j] = CommitRecord(t)
    BY <1>2 DEF CommitLogged
<1>4. wal[j].type # "TORN" /\ wal[j].writer = t
    BY <1>3 DEF CommitRecord
<1> QED
    BY <1>2, <1>4 DEF CleanInv, LogInv, RecordsKnown

LEMMA InvImpliesOnlyCommitted ==
    ASSUME TypeInv, CleanInv
    PROVE  OnlyCommittedInCatalog
<1> SUFFICES ASSUME NEW t \in Txn, NEW k \in Key, Visited(t, k)
             PROVE  \E i \in 1 .. Len(wal) :
                       wal[i].type = "COMMIT" /\ wal[i].writer = t
    BY DEF OnlyCommittedInCatalog
<1>1. PICK i \in 1 .. Len(wal) : wal[i] = CommitRecord(t)
    BY VisitedFacts DEF CommitLogged
<1> QED
    BY <1>1 DEF CommitRecord

LEMMA InvImpliesVisibleIsSynced ==
    ASSUME TypeInv, DurabilityInv, CleanInv
    PROVE  VisibleIsSynced
<1> SUFFICES ASSUME NEW t \in Txn, NEW k \in Key, Visited(t, k),
                    state[t] # "LOST"
             PROVE  CommitWithin(t, synced)
    BY DEF VisibleIsSynced
<1>1. LoggedWithin(t, synced)
    <2>1. CASE state[t] = "ACTIVE"
        BY <2>1, VisitedFacts DEF DurabilityInv, CommitProgress
    <2>2. CASE state[t] = "COMMITTED"
        BY <2>2, VisitedFacts DEF DurabilityInv, Acknowledged
    <2> QED
        BY <2>1, <2>2, VisitedFacts
<1>2. PICK i \in 1 .. synced : wal[i] = CommitRecord(t)
    BY <1>1 DEF LoggedWithin
<1>3. wal[i].type = "COMMIT" /\ wal[i].writer = t
    BY <1>2 DEF CommitRecord
<1> QED
    BY <1>3 DEF CommitWithin, DurabilityInv, LogWhole

LEMMA InvImpliesAtomicity ==
    ASSUME TypeInv, DurabilityInv, CleanInv
    PROVE  Atomicity
<1> SUFFICES ASSUME stage = "idle", NEW t \in Txn, NEW k \in Key,
                    Visited(t, k), NEW l \in Key, l \in Written(t)
             PROVE  Installed(t, l)
    BY DEF Atomicity, Written
<1>1. CommitLogged(t) /\ state[t] \in {"COMMITTED", "LOST"} /\ Serving
    BY VisitedFacts DEF Serving
<1>2. InCatalog(RedoRecord(t, l))
    <2>1. CASE state[t] = "COMMITTED"
        BY <1>1, <2>1 DEF DurabilityInv, Acknowledged
    <2>2. CASE state[t] = "LOST"
        BY <1>1, <2>2 DEF CleanInv, VisInv, LostReplayed
    <2> QED
        BY <1>1, <2>1, <2>2
<1>3. /\ RedoRecord(t, l).type = "REDO_DEL" <=> write_set[t][l] = "del"
      /\ RedoRecord(t, l).key = l /\ RedoRecord(t, l).writer = t
      /\ RedoRecord(t, l).commit_ts = commit_ts[t]
    BY RedoRecordFacts DEF TypeInv
<1> QED
    BY <1>2, <1>3 DEF InCatalog, Installed

(***************************************************************************)
(* If the store crashes only at the code's fault points, however often, or *)
(* only once, anywhere, and no append raises or is cut short, then every   *)
(* version that commit() or _recover put into the catalog has a COMMIT     *)
(* record of its own transaction in the log.  CleanRestarts cannot be      *)
(* dropped: with two kills the code shows a transaction that never         *)
(* committed (run ghost_redo).                                             *)
(***************************************************************************)
THEOREM CatalogIsCommitted ==
    ASSUME CleanRestarts
    PROVE  Spec => []OnlyCommittedInCatalog
<1>1. TypeInv /\ CleanInv => OnlyCommittedInCatalog
    BY InvImpliesOnlyCommitted
<1> QED
    BY <1>1, TypeInvariant, CleanInvariant, PTL

(***************************************************************************)
(* Under the same condition a commit is all or nothing, also across a      *)
(* crash: whenever nobody commits and nothing is replayed, a transaction   *)
(* with one version in the catalog has all the versions it asked for.      *)
(***************************************************************************)
THEOREM CommitsAreAtomic ==
    ASSUME CleanRestarts
    PROVE  Spec => []Atomicity
<1>1. TypeInv /\ DurabilityInv /\ CleanInv => Atomicity
    BY InvImpliesAtomicity
<1> QED
    BY <1>1, TypeInvariant, CleanInvariant, PTL

(***************************************************************************)
(* Under the same condition no version of a transaction that was rolled    *)
(* back, by its caller or by the conflict check of commit(), is ever in    *)
(* the catalog, and no recovery brings one back.                           *)
(***************************************************************************)
THEOREM AbortsAreFinal ==
    ASSUME CleanRestarts
    PROVE  Spec => []AbortedInvisible
<1>1. TypeInv /\ CleanInv => AbortedInvisible
    BY VisitedFacts DEF AbortedInvisible
<1> QED
    BY <1>1, TypeInvariant, CleanInvariant, PTL

(***************************************************************************)
(* Under the same condition a reader sees only what the disk has: a        *)
(* version that commit() installed, the commit still in progress included, *)
(* has its COMMIT record in the part of the log that an fdatasync covers.  *)
(***************************************************************************)
THEOREM ReadersSeeSynced ==
    ASSUME CleanRestarts
    PROVE  Spec => []VisibleIsSynced
<1>1. TypeInv /\ DurabilityInv /\ CleanInv => VisibleIsSynced
    BY InvImpliesVisibleIsSynced
<1> QED
    BY <1>1, TypeInvariant, CleanInvariant, PTL

(***************************************************************************)
(* Under the same condition the first committer wins: the writer of each   *)
(* version began after the version before it was committed, for any number *)
(* of threads, and in a catalog that a recovery rebuilt as well.           *)
(***************************************************************************)
THEOREM WritersDoNotOverlap ==
    ASSUME CleanRestarts
    PROVE  Spec => []FirstCommitterWins
<1>1. CleanInv => FirstCommitterWins
    BY DEF CleanInv, WinInv
<1> QED
    BY <1>1, CleanInvariant, PTL

-----------------------------------------------------------------------------
(***************************************************************************)
(* Snapshot isolation, across crashes.  A single caller's reads are        *)
(* explained by the log: of the transactions that wrote a key and whose    *)
(* COMMIT is in the log, the newest one up to start_ts is what the reader  *)
(* saw, in this process or an earlier one.  The catalog, whoever built it, *)
(* says the same of any snapshot, and so it repeats every read.            *)
(***************************************************************************)

\* The invariant

\* Whose reads have to be explained: those of a transaction that has, or may
\* still get, an outcome other than a rollback.
Settled(t) == state[t] \in {"ACTIVE", "COMMITTED"} \/ CommitLogged(t)

\* Who committed to k, up to a timestamp.
CommittedTo(k, ts) ==
    {u \in Txn : CommitLogged(u) /\ k \in Written(u) /\ commit_ts[u] <= ts}

\* v is what the newest of them left of k.
IsValue(k, ts, v) ==
    \/ CommittedTo(k, ts) = {} /\ v = None
    \/ \E u \in CommittedTo(k, ts) :
         /\ \A w \in CommittedTo(k, ts) : commit_ts[w] <= commit_ts[u]
         /\ v = IF write_set[u][k] = "del" THEN None ELSE u

ReadsKnown ==
    \A t \in Txn : Settled(t) =>
        \A k \in Key : \A v \in observed[t][k] : IsValue(k, start_ts[t], v)

\* Nobody has read before begin().
UnbornUnread ==
    \A t \in Txn : state[t] = "UNBORN" => \A k \in Key : observed[t][k] = {}

\* Between the two halves of a get nothing happens to the catalog.
OneReader ==
    \A t \in Txn : cursor[t] # Closed =>
        /\ stage = "idle" /\ state[t] = "ACTIVE"
        /\ cursor[t].n = Len(catalog[cursor[t].key])

\* A torn record is the last.
TornLast == \A i \in 1 .. Len(wal) : wal[i].type = "TORN" => i = Len(wal)

\* No crash that may still come takes this record from the log.
Stays(i) == FaultPointsOnly \/ incidents > 0 \/ i <= synced

\* A snapshot ends with a commit that stays.
StartsKnown ==
    \A t \in Txn : Settled(t) =>
        \/ start_ts[t] = 0
        \/ \E i \in 1 .. Len(wal) :
              /\ wal[i].type = "COMMIT" /\ start_ts[t] <= wal[i].commit_ts
              /\ Stays(i)

\* Transactions are lost by an incident.
NoneLost == incidents = 0 => \A t \in Txn : state[t] # "LOST"

\* Nobody's snapshot has the commit in progress.
StartsBehind ==
    stage \in {"redo", "sync", "install"} =>
        \A t \in Txn : Settled(t) => start_ts[t] < commit_ts[committer]

StartedBefore ==
    \A t \in Txn : CommitLogged(t) => start_ts[t] < commit_ts[t]

SnapInv ==
    /\ ReadsKnown /\ UnbornUnread /\ OneReader
    /\ TornLast /\ NoneLost /\ StartsKnown /\ StartsBehind /\ StartedBefore

-----------------------------------------------------------------------------
\* What stays in the log

\* A COMMIT is in the log since its transaction appended it.
LEMMA LoggedBefore ==
    ASSUME CleanRestarts, TypeInv, RecordsKnown, [Next]_vars, NEW u \in Txn,
           CommitLogged(u)'
    PROVE  CommitLogged(u) \/ (AppendCommit /\ u = committer)
<1> USE DEF TypeInv
<1>0. WholeWrites /\ NoErrors
    BY CleanFacts
<1>1. PICK i \in 1 .. Len(wal') : wal'[i] = CommitRecord(u)'
    BY DEF CommitLogged
<1>2. wal'[i].type = "COMMIT" /\ wal'[i].writer = u
    BY <1>1 DEF CommitRecord
<1>3. ASSUME i \in 1 .. Len(wal), wal'[i] = wal[i]
      PROVE  CommitLogged(u)
    <2>1. wal[i].type = "COMMIT" /\ wal[i].writer = u
        BY <1>2, <1>3
    <2>2. wal[i] = CommitRecord(u)
        BY <1>3, <2>1 DEF RecordsKnown
    <2> QED
        BY <1>3, <2>2 DEF CommitLogged
<1>4. CASE ~ AppendCommit /\ \A k \in Key : ~ AppendRedo(k)
    BY <1>0, <1>2, <1>3, <1>4, NoNewRecordSteps DEF NoNewRecord
<1>5. ASSUME NEW k \in Key, AppendRedo(k)
      PROVE  CommitLogged(u)
    <2>1. /\ Len(wal') = Len(wal) + 1 /\ Len(wal) \in Nat
          /\ \A j \in 1 .. Len(wal) : wal'[j] = wal[j]
          /\ wal'[Len(wal) + 1].type # "COMMIT"
        BY <1>0, <1>5, AppendRedoFacts, RedoRecordFacts
    <2>2. i \in 1 .. Len(wal)
        BY <1>2, <2>1
    <2> QED
        BY <1>3, <2>1, <2>2
<1>6. CASE AppendCommit
    <2>1. /\ Len(wal') = Len(wal) + 1 /\ Len(wal) \in Nat
          /\ \A j \in 1 .. Len(wal) : wal'[j] = wal[j]
          /\ wal'[Len(wal) + 1].writer = committer
        BY <1>0, <1>6, AppendCommitFacts DEF CommitRecord
    <2>2. i \in 1 .. Len(wal) \/ u = committer
        BY <1>2, <2>1
    <2> QED
        BY <1>3, <1>6, <2>1, <2>2
<1> QED
    BY <1>4, <1>5, <1>6

LEMMA NextTornLast ==
    ASSUME CleanRestarts, TypeInv, DurabilityInv, DurabilityInv', LogInv, IdInv,
           TornLast, [Next]_vars
    PROVE  TornLast'
<1> USE DEF TypeInv
<1>0. NoErrors
    BY CleanFacts
<1>1. CASE FaultPointsOnly
    <2>1. NoOrphans'
        BY NextNoOrphans DEF IdInv
    <2> QED
        BY <1>1, <2>1 DEF NoOrphans, TornLast
<1>2. CASE stage' # "down"
    BY <1>2 DEF DurabilityInv, LogWhole, TornLast
<1>3. CASE OneCrash /\ Ends
    <2>1. NoNewRecord
        BY <1>3, EndNoNewRecord DEF Ends
    <2>2. \A i \in 1 .. Len(wal) : wal[i].type # "TORN"
        <3>1. CASE stage # "down"
            BY <3>1 DEF DurabilityInv, LogWhole
        <3>2. CASE stage = "down"
            <4>1. PowerLoss
                BY <1>3, <3>2 DEF Ends, Close, FaultPoint, Kill
            <4>2. incidents = 0
                BY <1>3, <4>1, EngineAssumption
                DEF PowerLoss, Incident, OneCrash, TypeOK
            <4>3. wal = << >>
                BY <3>2, <4>2 DEF IdInv, FirstProcess, Serving
            <4> QED
                BY <4>3
        <3> QED
            BY <3>1, <3>2
    <2> QED
        BY <2>1, <2>2 DEF NoNewRecord, TornLast
<1>4. CASE ~ Ends /\ stage' = "down"
    <2>1. UNCHANGED vars
        BY <1>0, <1>4, CallFacts, StepKinds
        DEF AppendCommit, AppendRedo, Install, SyncWal, Ack, Return, Restart,
            ReplayStep, ReplayRedo, ReplayCommit, RecoverDone, commitVars,
            Serving
    <2> QED
        BY <2>1 DEF vars, fileVars, TornLast
<1> QED
    BY <1>1, <1>2, <1>3, <1>4 DEF CleanRestarts

\* No incident is forgotten.
LEMMA IncidentsGrow ==
    ASSUME CleanRestarts, TypeInv, [Next]_vars
    PROVE  incidents' = incidents \/ (Ends /\ incidents' = incidents + 1)
<1> USE DEF TypeInv
<1>0. WholeWrites /\ NoErrors
    BY CleanFacts
<1>1. ASSUME NEW k \in Key, AppendRedo(k)
      PROVE  incidents' = incidents
    BY <1>0, <1>1, AppendRedoFacts
<1>2. CASE AppendCommit
    BY <1>0, <1>2, AppendCommitFacts
<1>3. ASSUME NEW t \in Txn, Call(t)
      PROVE  incidents' = incidents
    BY <1>3, CallFacts
<1>4. CASE (\E k \in Key : Install(k)) \/ SyncWal \/ Ack \/ Return \/ Restart
           \/ ReplayStep \/ UNCHANGED vars
    BY <1>4 DEF Install, SyncWal, Ack, Return, Restart, ReplayStep, ReplayRedo,
                ReplayCommit, RecoverDone, vars
<1>5. CASE Ends
    BY <1>5 DEF Ends, Close, FaultPoint, Kill, PowerLoss, Incident
<1> QED
    BY <1>0, <1>1, <1>2, <1>3, <1>4, <1>5, StepKinds

LEMMA StaysKept ==
    ASSUME CleanRestarts, TypeInv, TypeInv', DurabilityInv, LogInv, IdInv,
           TornLast, [Next]_vars,
           NEW i \in 1 .. Len(wal), wal[i].type # "TORN", Stays(i)
    PROVE  i \in 1 .. Len(wal') /\ wal'[i] = wal[i] /\ Stays(i)'
<1> USE DEF TypeInv
<1>0. /\ WholeWrites /\ NoErrors /\ LogWhole /\ NoOrphans
      /\ Len(wal) \in Nat /\ Len(wal') \in Nat /\ synced \in Nat
      /\ synced' \in Nat /\ synced' <= Len(wal') /\ incidents \in Nat
    <2>1. Len(wal) \in Nat
        BY LogTypes
    <2>2. Len(wal') \in Nat /\ synced' \in Nat /\ synced' <= Len(wal')
        BY LenProperties DEF TypeOK
    <2> QED
        BY <2>1, <2>2, CleanFacts, EngineAssumption
        DEF DurabilityInv, IdInv, TypeOK
<1>1. synced <= synced'
    BY <1>0, NextKeepsSynced
<1>2. Stays(i)'
    <2>1. incidents > 0 => incidents' > 0
        BY <1>0, IncidentsGrow
    <2>2. i <= synced => i <= synced'
        BY <1>0, <1>1
    <2> QED
        BY <2>1, <2>2 DEF Stays
<1>3. CASE FaultPointsOnly
    BY <1>0, <1>2, <1>3, RecordsStay
<1>4. CASE OneCrash
    <2>1. CASE ~ Ends /\ ~ Restart
        BY <1>0, <1>2, <2>1, LiveLog
    <2>2. CASE Ends /\ ~ FaultPointsOnly
        <3>1. incidents = 0
            BY <1>4, <2>2, EngineAssumption
            DEF Ends, Close, FaultPoint, Kill, PowerLoss, Incident, OneCrash,
                TypeOK
        <3>2. i \in 1 .. synced
            BY <2>2, <3>1 DEF Stays
        <3>3. \A j \in 1 .. synced : wal'[j] = wal[j]
            BY <1>0, <2>2, EndFacts DEF Ends
        <3> QED
            BY <1>0, <1>1, <1>2, <3>2, <3>3
    <2>3. CASE Restart
        <3>1. PICK n \in 0 .. Len(wal) :
                IsValidPrefix(n) /\ wal' = SubSeq(wal, 1, n)
            BY <2>3 DEF Restart
        <3>2. Len(wal') = n /\ \A j \in 1 .. n : wal'[j] = wal[j]
            BY <3>1, PrefixFacts DEF TypeOK
        <3>3. n < Len(wal) => n + 1 = Len(wal)
            BY <1>0, <3>1 DEF IsValidPrefix, TornLast
        <3>4. n < Len(wal) => wal[n + 1].type = "TORN"
            BY <3>1 DEF IsValidPrefix
        <3>5. i \in 1 .. n
            BY <1>0, <3>3, <3>4
        <3> QED
            BY <1>2, <3>2, <3>5
    <2> QED
        BY <1>3, <2>1, <2>2, <2>3
<1> QED
    BY <1>3, <1>4 DEF CleanRestarts

-----------------------------------------------------------------------------
\* Snapshots

LEMMA CommitTypes ==
    ASSUME TypeOK
    PROVE  /\ \A t \in Txn : start_ts[t] \in Nat /\ commit_ts[t] \in Nat
           /\ \A i \in 1 .. Len(wal) : wal[i].commit_ts \in Nat
           /\ Len(wal) \in Nat /\ next_ts \in Nat /\ next_ts > 0
    BY LogTypes DEF TypeOK

\* Timestamps start with 1.
LEMMA LoggedIsPositive ==
    ASSUME TypeOK, StartedBefore, NEW u \in Txn, CommitLogged(u)
    PROVE  commit_ts[u] > 0
<1>1. start_ts[u] < commit_ts[u] /\ start_ts[u] \in Nat /\ commit_ts[u] \in Nat
    BY CommitTypes DEF StartedBefore
<1> QED
    BY <1>1

\* A commit in progress, and any that may come, is past every snapshot.
LEMMA SnapshotsBehind ==
    ASSUME TypeInv, DurabilityInv, OrderInv, CatalogInv, StartsKnown,
           NEW t \in Txn, Settled(t)
    PROVE  /\ Serving => start_ts[t] < next_ts
           /\ stage = "redo" => start_ts[t] < commit_ts[committer]
<1> USE DEF TypeInv
<1>1. /\ start_ts[t] \in Nat /\ Len(wal) \in Nat /\ next_ts \in Nat \ {0}
      /\ \A i \in 1 .. Len(wal) : wal[i].commit_ts \in Nat
    BY CommitTypes DEF TypeOK
<1>2. stage = "redo" => /\ commit_ts[committer] \in Nat
                        /\ commit_ts[committer] > 0
    <2> SUFFICES ASSUME stage = "redo"
                 PROVE  commit_ts[committer] \in Nat /\ commit_ts[committer] > 0
        OBVIOUS
    <2>1. Whole(Len(wal))
        BY DEF DurabilityInv, LogWhole, Whole
    <2>2. \/ commit_ts[committer] = 1
          \/ \E i \in 1 .. Len(wal) : wal[i].commit_ts + 1 = commit_ts[committer]
        BY <2>1 DEF CatalogInv, TurnFollows, Turn
    <2> QED
        BY <1>1, <2>2
<1>3. CASE start_ts[t] = 0
    BY <1>1, <1>2, <1>3
<1>4. CASE start_ts[t] # 0
    <2>1. PICK i \in 1 .. Len(wal) :
            wal[i].type = "COMMIT" /\ start_ts[t] <= wal[i].commit_ts
        BY <1>4 DEF StartsKnown
    <2>2. Serving => wal[i].commit_ts < next_ts
        BY <2>1 DEF OrderInv, CountersPast, Serving
    <2>3. stage = "redo" => wal[i].commit_ts < commit_ts[committer]
        BY <2>1 DEF OrderInv, CommitterLast
    <2> QED
        BY <1>1, <1>2, <2>1, <2>2, <2>3
<1> QED
    BY <1>3, <1>4

\* A transaction whose reads count was one before, with the same snapshot, or
\* it begins now.
LEMMA SettledKept ==
    ASSUME CleanRestarts, TypeInv, DurabilityInv, LogInv, [Next]_vars,
           NEW t \in Txn, Settled(t)'
    PROVE  \/ Settled(t) /\ start_ts'[t] = start_ts[t]
           \/ Begin(t)
<1> USE DEF TypeInv
<1>0. NoErrors /\ RecordsKnown
    BY CleanFacts DEF LogInv
<1>1. ASSUME CommitLogged(t)
      PROVE  Settled(t) /\ start_ts'[t] = start_ts[t]
    BY <1>0, <1>1, LoggedWriterKept DEF WriterKept, Settled
<1>2. CASE AppendCommit /\ t = committer
    BY <1>2, OtherFacts
    DEF AppendCommit, DurabilityInv, CommitProgress, Settled, CommitStep
<1>3. CASE state'[t] \in {"ACTIVE", "COMMITTED"}
    <2>1. ASSUME NEW u \in Txn, Call(u), ~ Begin(t)
          PROVE  state[t] = "ACTIVE" \/ state'[t] = state[t]
        <3>1. CASE u = t
            BY <2>1, <3>1
            DEF Call, Abort, GetWalk, CommitReadOnly, CommitConflict,
                CommitStart, Put, Delete, GetOpen, MayCommit, MayUse, txnVars
        <3>2. CASE u # t
            BY <2>1, <3>2, CallFacts
        <3> QED
            BY <3>1, <3>2
    <2>2. ASSUME NEW u \in Txn, Call(u), ~ Begin(t)
          PROVE  start_ts'[t] = start_ts[t]
        <3>1. CASE u = t
            BY <2>2, <3>1
            DEF Call, Abort, GetWalk, CommitReadOnly, CommitConflict,
                CommitStart, Put, Delete, GetOpen, txnVars
        <3>2. CASE u # t
            BY <2>2, <3>2, CallFacts
        <3> QED
            BY <3>1, <3>2
    <2>3. CASE Ack
        <3>1. committer \in Txn /\ state' = [state EXCEPT ![committer] = "COMMITTED"]
            BY <2>3, EngineAssumption DEF Ack, TypeOK
        <3>2. state[committer] = "ACTIVE"
            BY <2>3 DEF Ack, DurabilityInv, CommitProgress
        <3>3. state[t] \in {"ACTIVE", "COMMITTED"}
            BY <1>3, <3>1, <3>2 DEF TypeOK
        <3> QED
            BY <2>3, <3>3, OtherFacts DEF CommitStep, Settled
    <2>4. CASE Ends
        <3>1. state[t] \in {"ACTIVE", "COMMITTED"}
            BY <1>3, <2>4
            DEF Ends, Close, FaultPoint, Kill, PowerLoss, ProcessEnds
        <3> QED
            BY <2>4, <3>1, OtherFacts DEF Settled
    <2>5. CASE (\E k \in Key : AppendRedo(k) \/ Install(k)) \/ AppendCommit
               \/ SyncWal \/ Return \/ Restart \/ ReplayStep \/ UNCHANGED vars
        <3>1. UNCHANGED state
            BY <2>5 DEF AppendRedo, Install, AppendCommit, SyncWal, Return,
                        Restart, ReplayStep, ReplayRedo, ReplayCommit,
                        RecoverDone, vars, txnVars
        <3> QED
            BY <1>3, <2>5, <3>1, OtherFacts DEF CommitStep, Settled
    <2> QED
        BY <1>0, <1>3, <2>1, <2>2, <2>3, <2>4, <2>5, StepKinds DEF Settled
<1> QED
    BY <1>0, <1>1, <1>2, <1>3, LoggedBefore DEF Settled

LEMMA NextNoneLost ==
    ASSUME CleanRestarts, TypeInv, NoneLost, [Next]_vars
    PROVE  NoneLost'
<1> USE DEF TypeInv
<1>0. NoErrors /\ incidents \in Nat
    BY CleanFacts, EngineAssumption DEF TypeOK
<1> SUFFICES ASSUME incidents' = 0, NEW t \in Txn, state'[t] = "LOST"
             PROVE  incidents = 0 /\ state[t] = "LOST"
    BY DEF NoneLost
<1>1. incidents = 0 /\ ~ Ends
    BY <1>0, IncidentsGrow
       DEF Ends, Close, FaultPoint, Kill, PowerLoss, Incident
<1>2. CASE Serving'
    BY <1>0, <1>1, <1>2, LostKept
<1>3. CASE ~ Serving'
    <2>1. ASSUME NEW u \in Txn, Call(u)
          PROVE  FALSE
        BY <1>3, <2>1, CallFacts
    <2>2. Restart \/ ReplayStep \/ UNCHANGED vars
        BY <1>0, <1>1, <1>3, <2>1, StepKinds
        DEF AppendCommit, AppendRedo, Install, SyncWal, Ack, Return, Serving
    <2>3. UNCHANGED state
        BY <2>2 DEF Restart, ReplayStep, ReplayRedo, ReplayCommit, RecoverDone,
                    vars, txnVars
    <2> QED
        BY <1>1, <2>3
<1> QED
    BY <1>2, <1>3

LEMMA NextStartsKnown ==
    ASSUME SingleCaller, CleanRestarts, TypeInv, TypeInv', DurabilityInv,
           CatalogInv, LogInv, IdInv, TornLast, NoneLost, StartsKnown,
           [Next]_vars
    PROVE  StartsKnown'
<1> USE DEF TypeInv
<1> DEFINE Covers(t, i) == /\ wal[i].type = "COMMIT"
                           /\ start_ts[t] <= wal[i].commit_ts
                           /\ Stays(i)
<1> SUFFICES ASSUME NEW t \in Txn, Settled(t)', start_ts'[t] # 0
             PROVE  \E i \in 1 .. Len(wal') : Covers(t, i)'
    BY DEF StartsKnown
<1>1. CASE Settled(t) /\ start_ts'[t] = start_ts[t]
    <2>1. PICK i \in 1 .. Len(wal) : Covers(t, i)
        BY <1>1 DEF StartsKnown
    <2>2. i \in 1 .. Len(wal') /\ wal'[i] = wal[i] /\ Stays(i)'
        BY <2>1, StaysKept
    <2> QED
        BY <1>1, <2>1, <2>2
<1>2. CASE Begin(t)
    <2>1. /\ stage = "idle" /\ UNCHANGED <<wal, synced, incidents>>
          /\ start_ts'[t] = next_ts - 1
        BY <1>2 DEF Begin, MayCall, Snapshot, fileVars, TypeOK
    <2>2. PICK i \in 1 .. Len(wal) :
            wal[i].type = "COMMIT" /\ wal[i].commit_ts + 1 = next_ts
        <3>1. Turn = next_ts
            BY <2>1 DEF Turn
        <3>2. Whole(Len(wal))
            BY <2>1 DEF DurabilityInv, LogWhole, Whole
        <3>3. next_ts # 1
            BY <2>1
        <3> QED
            BY <2>1, <3>1, <3>2, <3>3 DEF CatalogInv, TurnFollows
    <2>3. wal[i].commit_ts \in Nat /\ next_ts \in Nat
        BY CommitTypes
    <2>4. start_ts'[t] <= wal[i].commit_ts
        BY <2>1, <2>2, <2>3
    <2>5. CASE Stays(i)
        BY <2>1, <2>2, <2>4, <2>5 DEF Stays
    <2>6. CASE ~ Stays(i)
        <3>1. incidents = 0
            BY <2>6, EngineAssumption DEF Stays, TypeOK
        <3>2. PICK u \in Txn : u = wal[i].writer
            BY <2>2, RecordFacts
        <3>3. /\ wal[i] = CommitRecord(u) /\ state[u] = "COMMITTED"
              /\ Written(u) # {}
            BY <2>1, <2>2, <3>1, <3>2 DEF LogInv, RecordsKnown, NoneLost
        <3>4. LoggedWithin(u, synced)
            BY <3>3 DEF DurabilityInv, Acknowledged
        <3>5. PICK j \in 1 .. synced : wal[j] = wal[i]
            BY <3>3, <3>4 DEF LoggedWithin
        <3>6. j \in 1 .. Len(wal)
            BY CommitTypes DEF TypeOK
        <3> QED
            BY <2>1, <2>2, <2>4, <3>5, <3>6 DEF Stays
    <2> QED
        BY <2>5, <2>6
<1> QED
    BY <1>1, <1>2, SettledKept

LEMMA NextStartsBehind ==
    ASSUME SingleCaller, CleanRestarts, TypeInv, DurabilityInv, OrderInv,
           CatalogInv, LogInv, StartsKnown, StartsBehind, [Next]_vars
    PROVE  StartsBehind'
<1> USE DEF TypeInv
<1>0. NoErrors
    BY CleanFacts
<1> SUFFICES ASSUME stage' \in {"redo", "sync", "install"},
                    NEW t \in Txn, Settled(t)'
             PROVE  start_ts'[t] < commit_ts'[committer']
    BY DEF StartsBehind
<1>1. ~ Begin(t)
    BY DEF Begin, MayCall, commitVars
<1>2. Settled(t) /\ start_ts'[t] = start_ts[t]
    BY <1>1, SettledKept
<1>3. ASSUME NEW c \in Txn, CommitStart(c)
      PROVE  start_ts'[t] < commit_ts'[committer']
    <2>1. committer' = c /\ commit_ts'[c] = next_ts /\ Serving
        BY <1>3 DEF CommitStart, MayCommit, TypeOK, Serving
    <2> QED
        BY <1>2, <2>1, SnapshotsBehind
<1>4. CASE /\ stage \in {"redo", "sync", "install"}
           /\ committer' = committer
           /\ commit_ts'[committer] = commit_ts[committer]
    BY <1>2, <1>4 DEF StartsBehind
<1>5. CASE AppendCommit \/ SyncWal \/ \E k \in Key : AppendRedo(k) \/ Install(k)
    <2>1. commit_ts' = commit_ts
        BY <1>5, OtherFacts DEF CommitStep
    <2> QED
        BY <1>4, <1>5, <2>1 DEF AppendCommit, SyncWal, AppendRedo, Install
<1>6. CASE UNCHANGED <<stage, committer>> /\ \A c \in Txn : ~ CommitStart(c)
    <2>1. PICK c \in Txn : c = committer
        BY <1>6, EngineAssumption DEF TypeOK
    <2>2. commit_ts'[c] = commit_ts[c]
        <3>1. ASSUME NEW u \in Txn, Call(u)
              PROVE  commit_ts'[c] = commit_ts[c]
            <4>1. state[c] = "ACTIVE"
                BY <1>6, <2>1 DEF DurabilityInv, CommitProgress
            <4> QED
                BY <2>1, <3>1, <4>1, CallFacts DEF Same
        <3> QED
            BY <1>0, <3>1, OtherFacts, StepKinds DEF CommitStep
    <2> QED
        BY <1>4, <1>6, <2>1, <2>2
<1> QED
    BY <1>0, <1>3, <1>5, <1>6, StageFacts

LEMMA NextStartedBefore ==
    ASSUME CleanRestarts, TypeInv, DurabilityInv, OrderInv, CatalogInv, LogInv,
           StartsKnown, StartedBefore, [Next]_vars
    PROVE  StartedBefore'
<1> USE DEF TypeInv
<1>0. NoErrors /\ RecordsKnown
    BY CleanFacts DEF LogInv
<1> SUFFICES ASSUME NEW t \in Txn, CommitLogged(t)'
             PROVE  start_ts'[t] < commit_ts'[t]
    BY DEF StartedBefore
<1>1. CASE CommitLogged(t)
    BY <1>0, <1>1, LoggedWriterKept DEF WriterKept, Same, StartedBefore
<1>2. CASE AppendCommit /\ t = committer
    <2>1. UNCHANGED <<start_ts, commit_ts>>
        BY <1>2, OtherFacts DEF CommitStep
    <2>2. stage = "redo" /\ Settled(t)
        BY <1>2 DEF AppendCommit, DurabilityInv, CommitProgress, Settled
    <2> QED
        BY <1>2, <2>1, <2>2, SnapshotsBehind
<1> QED
    BY <1>0, <1>1, <1>2, LoggedBefore

LEMMA NextUnbornUnread ==
    ASSUME CleanRestarts, TypeInv, OneReader, UnbornUnread, [Next]_vars
    PROVE  UnbornUnread'
<1> USE DEF TypeInv
<1>0. NoErrors
    BY CleanFacts
<1> SUFFICES ASSUME NEW t \in Txn, state'[t] = "UNBORN"
             PROVE  state[t] = "UNBORN" /\ observed'[t] = observed[t]
    BY DEF UnbornUnread
<1>1. ASSUME NEW u \in Txn, GetWalk(u)
      PROVE  state[t] = "UNBORN" /\ observed'[t] = observed[t]
    <2>1. UNCHANGED state /\ state[u] = "ACTIVE"
        BY <1>1 DEF GetWalk, OneReader, txnVars
    <2>2. u # t
        BY <2>1
    <2> QED
        BY <1>1, <2>1, <2>2 DEF GetWalk, TypeOK
<1>2. ASSUME NEW u \in Txn, Call(u), ~ GetWalk(u)
      PROVE  state[t] = "UNBORN" /\ observed'[t] = observed[t]
    <2>1. UNCHANGED observed
        BY <1>2 DEF Call, Begin, Abort, CommitReadOnly, CommitConflict,
                    CommitStart, Put, Delete, GetOpen, readVars
    <2>2. \/ UNCHANGED state
          \/ \E s \in {"ACTIVE", "ABORTED", "COMMITTED"} :
                state' = [state EXCEPT ![u] = s]
        BY <1>2 DEF Call, Begin, Abort, CommitReadOnly, CommitConflict,
                    CommitStart, Put, Delete, GetOpen, txnVars
    <2> QED
        BY <2>1, <2>2 DEF TypeOK
<1>3. CASE CommitStep
    <2>1. UNCHANGED observed
        BY <1>3 DEF CommitStep, AppendRedo, Install, AppendCommit, SyncWal, Ack,
                    Return, readVars
    <2>2. UNCHANGED state \/ state' = [state EXCEPT ![committer] = "COMMITTED"]
        BY <1>3 DEF CommitStep, AppendRedo, Install, AppendCommit, SyncWal, Ack,
                    Return, txnVars
    <2> QED
        BY <2>1, <2>2 DEF TypeOK
<1>4. CASE Ends \/ Restart \/ ReplayStep \/ UNCHANGED vars
    BY <1>4 DEF Ends, Close, FaultPoint, Kill, PowerLoss, ProcessEnds, Restart,
                ReplayStep, ReplayRedo, ReplayCommit, RecoverDone, vars,
                txnVars, readVars
<1> QED
    BY <1>0, <1>1, <1>2, <1>3, <1>4, StepKinds DEF CommitStep

LEMMA NextOneReader ==
    ASSUME SingleCaller, CleanRestarts, TypeInv, OneReader, [Next]_vars
    PROVE  OneReader'
<1> USE DEF TypeInv
<1>0. NoErrors
    BY CleanFacts
<1> SUFFICES ASSUME NEW t \in Txn, cursor'[t] # Closed
             PROVE  /\ stage' = "idle" /\ state'[t] = "ACTIVE"
                    /\ cursor'[t].n = Len(catalog'[cursor'[t].key])
    BY DEF OneReader
<1>1. CASE /\ cursor'[t] = cursor[t]
           /\ UNCHANGED <<stage, state, catalog>>
    BY <1>1 DEF OneReader
<1>2. ASSUME NEW u \in Txn, GetWalk(u)
      PROVE  cursor'[t] = cursor[t] /\ UNCHANGED <<stage, state, catalog>>
    BY <1>2 DEF GetWalk, TypeOK, commitVars, txnVars
<1>3. ASSUME NEW u \in Txn, NEW k \in Key, GetOpen(u, k)
      PROVE  /\ stage' = "idle" /\ state'[t] = "ACTIVE"
             /\ cursor'[t].n = Len(catalog'[cursor'[t].key])
    <2>1. /\ stage = "idle" /\ state[u] = "ACTIVE"
          /\ \A w \in Txn : cursor[w] = Closed
          /\ UNCHANGED <<stage, state, catalog>>
          /\ cursor' = [cursor EXCEPT ![u] = [key |-> k, n |-> Len(catalog[k])]]
        BY <1>3 DEF GetOpen, MayUse, MayCall, commitVars, txnVars
    <2>2. u = t
        BY <2>1 DEF TypeOK
    <2> QED
        BY <2>1, <2>2 DEF TypeOK
<1>4. ASSUME NEW u \in Txn, Call(u), ~ GetWalk(u),
             \A k \in Key : ~ GetOpen(u, k)
      PROVE  FALSE
    <2>1. cursor' = cursor /\ \A w \in Txn : cursor[w] = Closed
        BY <1>4 DEF Call, Begin, Abort, CommitReadOnly, CommitConflict,
                    CommitStart, Put, Delete, MayCommit, MayUse, MayCall,
                    readVars
    <2> QED
        BY <2>1
<1>5. CASE CommitStep \/ Restart \/ ReplayStep
    <2>1. stage # "idle" /\ cursor' = cursor
        BY <1>5 DEF CommitStep, AppendRedo, Install, AppendCommit, SyncWal, Ack,
                    Return, Restart, ReplayStep, ReplayRedo, ReplayCommit,
                    RecoverDone, readVars
    <2> QED
        BY <2>1 DEF OneReader
<1>6. CASE Ends
    BY <1>6 DEF Ends, Close, FaultPoint, Kill, PowerLoss, ProcessEnds
<1>7. CASE UNCHANGED vars
    BY <1>1, <1>7 DEF vars, readVars, commitVars, txnVars
<1> QED
    BY <1>0, <1>1, <1>2, <1>3, <1>4, <1>5, <1>6, <1>7, StepKinds
    DEF Call, CommitStep

-----------------------------------------------------------------------------
\* Values

\* The commits a snapshot has are the same after a step as before it.
LEMMA CommittedToKept ==
    ASSUME CleanRestarts, TypeInv, TypeInv', DurabilityInv, OrderInv,
           CatalogInv, LogInv, IdInv, TornLast, StartsKnown, StartedBefore,
           [Next]_vars, NEW t \in Txn, Settled(t), NEW ts \in Nat, ts = start_ts[t],
           NEW k \in Key
    PROVE  /\ CommittedTo(k, ts)' = CommittedTo(k, ts)
           /\ \A u \in CommittedTo(k, ts) : Same(u)
<1> USE DEF TypeInv
<1>0. NoErrors /\ RecordsKnown
    BY CleanFacts DEF LogInv
<1>1. ASSUME NEW u \in Txn, u \in CommittedTo(k, ts)
      PROVE  Same(u) /\ u \in CommittedTo(k, ts)'
    <2>1. CommitLogged(u) /\ k \in Written(u) /\ commit_ts[u] <= ts
        BY <1>1 DEF CommittedTo
    <2>2. Same(u)
        BY <1>0, <2>1, LoggedWriterKept DEF WriterKept
    <2>3. PICK p \in 1 .. Len(wal) : wal[p] = CommitRecord(u)
        BY <2>1 DEF CommitLogged
    <2>4. wal[p].type = "COMMIT" /\ wal[p].commit_ts = commit_ts[u]
        BY <2>3 DEF CommitRecord
    <2>5. start_ts[t] # 0
        <3>1. commit_ts[u] > 0
            BY <2>1, LoggedIsPositive
        <3> QED
            BY <2>1, <3>1, CommitTypes
    <2>6. PICK i \in 1 .. Len(wal) :
            /\ wal[i].type = "COMMIT" /\ start_ts[t] <= wal[i].commit_ts
            /\ Stays(i)
        BY <2>5 DEF StartsKnown
    <2>7. p <= i
        <3> SUFFICES ASSUME i < p
                     PROVE  FALSE
            BY CommitTypes
        <3>1. wal[i].commit_ts < wal[p].commit_ts
            BY <2>4, <2>6 DEF OrderInv, CommitsOrdered
        <3>2. wal[p].commit_ts <= wal[i].commit_ts
            <4>1. /\ wal[p].commit_ts \in Nat /\ wal[i].commit_ts \in Nat
                  /\ commit_ts[u] \in Nat /\ start_ts[t] \in Nat
                BY CommitTypes
            <4> QED
                BY <2>1, <2>4, <2>6, <4>1
        <3> QED
            BY <3>1, <3>2, CommitTypes
    <2>8. Stays(p)
        <3>1. synced \in Nat
            BY DEF TypeOK
        <3> QED
            BY <2>6, <2>7, <3>1 DEF Stays
    <2>9. p \in 1 .. Len(wal') /\ wal'[p] = wal[p]
        BY <2>4, <2>8, StaysKept
    <2>10. CommitLogged(u)'
        BY <2>2, <2>3, <2>9, SameFacts DEF CommitLogged
    <2>11. k \in Written(u)' /\ commit_ts'[u] <= ts
        BY <2>1, <2>2, SameFacts DEF Same
    <2> QED
        BY <2>2, <2>10, <2>11 DEF CommittedTo
<1>2. ASSUME NEW u \in Txn, u \in CommittedTo(k, ts)'
      PROVE  u \in CommittedTo(k, ts)
    <2>1. CommitLogged(u)' /\ k \in Written(u)' /\ commit_ts'[u] <= ts
        BY <1>2 DEF CommittedTo
    <2>2. CASE CommitLogged(u)
        <3>1. Same(u)
            BY <1>0, <2>2, LoggedWriterKept DEF WriterKept
        <3>2. k \in Written(u) /\ commit_ts[u] <= ts
            BY <2>1, <3>1, SameFacts DEF Same
        <3> QED
            BY <2>2, <3>2 DEF CommittedTo
    <2>3. CASE AppendCommit /\ u = committer
        <3>1. commit_ts' = commit_ts /\ stage = "redo"
            BY <2>3, OtherFacts DEF CommitStep, AppendCommit
        <3>2. ts < commit_ts[u]
            BY <2>3, <3>1, SnapshotsBehind
        <3>3. commit_ts[u] \in Nat
            BY CommitTypes
        <3> QED
            BY <2>1, <3>1, <3>2, <3>3
    <2> QED
        BY <1>0, <2>1, <2>2, <2>3, LoggedBefore
<1>3. CommittedTo(k, ts) \subseteq Txn /\ CommittedTo(k, ts)' \subseteq Txn
    BY DEF CommittedTo
<1> QED
    BY <1>1, <1>2, <1>3

LEMMA IsValueKept ==
    ASSUME CleanRestarts, TypeInv, TypeInv', DurabilityInv, OrderInv,
           CatalogInv, LogInv, IdInv, TornLast, StartsKnown, StartedBefore,
           [Next]_vars, NEW t \in Txn, Settled(t), NEW ts \in Nat, ts = start_ts[t],
           NEW k \in Key, NEW v, IsValue(k, ts, v)
    PROVE  IsValue(k, ts, v)'
<1>1. CommittedTo(k, ts)' = CommittedTo(k, ts)
      /\ CommittedTo(k, ts) \subseteq Txn
    BY CommittedToKept DEF CommittedTo
<1>2. \A u \in CommittedTo(k, ts) :
         /\ commit_ts'[u] = commit_ts[u]
         /\ write_set'[u][k] = write_set[u][k]
    BY CommittedToKept DEF Same
<1> QED
    BY <1>1, <1>2 DEF IsValue

\* There is only one such value.
LEMMA IsValueUnique ==
    ASSUME TypeInv, OrderInv, NEW k \in Key, NEW ts \in Nat, NEW v, NEW w,
           IsValue(k, ts, v), IsValue(k, ts, w)
    PROVE  v = w
<1>1. CASE CommittedTo(k, ts) = {}
    BY <1>1 DEF IsValue
<1>2. CASE CommittedTo(k, ts) # {}
    <2>1. PICK a \in CommittedTo(k, ts) :
            /\ \A u \in CommittedTo(k, ts) : commit_ts[u] <= commit_ts[a]
            /\ v = IF write_set[a][k] = "del" THEN None ELSE a
        BY <1>2 DEF IsValue
    <2>2. PICK b \in CommittedTo(k, ts) :
            /\ \A u \in CommittedTo(k, ts) : commit_ts[u] <= commit_ts[b]
            /\ w = IF write_set[b][k] = "del" THEN None ELSE b
        BY <1>2 DEF IsValue
    <2>3. a \in Txn /\ b \in Txn /\ CommitLogged(a) /\ CommitLogged(b)
        BY DEF CommittedTo
    <2>4. commit_ts[a] = commit_ts[b]
        <3>1. commit_ts[a] \in Nat /\ commit_ts[b] \in Nat
            BY <2>3 DEF TypeInv, TypeOK
        <3> QED
            BY <2>1, <2>2, <3>1
    <2>5. PICK i \in 1 .. Len(wal) : wal[i] = CommitRecord(a)
        BY <2>3 DEF CommitLogged
    <2>6. PICK j \in 1 .. Len(wal) : wal[j] = CommitRecord(b)
        BY <2>3 DEF CommitLogged
    <2>7. /\ wal[i].type = "COMMIT" /\ wal[j].type = "COMMIT"
          /\ wal[i].writer = a /\ wal[j].writer = b
          /\ wal[i].commit_ts = wal[j].commit_ts
          /\ wal[i].commit_ts \in Nat
        <3>1. wal[i].commit_ts \in Nat
            BY LogTypes DEF TypeInv
        <3> QED
            BY <2>4, <2>5, <2>6, <3>1 DEF CommitRecord
    <2>8. i = j
        BY <2>7 DEF OrderInv, CommitsOrdered
    <2> QED
        BY <2>1, <2>2, <2>7, <2>8
<1> QED
    BY <1>1, <1>2

-----------------------------------------------------------------------------
\* What the catalog says of a snapshot

\* The first m versions of k are those up to ts.
UpTo(k, ts, m) ==
    /\ m \in 0 .. Len(catalog[k])
    /\ \A i \in 1 .. Len(catalog[k]) : i <= m <=> catalog[k][i].begin_ts <= ts

LEMMA SomeUpTo ==
    ASSUME TypeOK, NEW k \in Key, InOrder(catalog[k]), NEW ts \in Nat
    PROVE  \E m \in 0 .. Len(catalog[k]) : UpTo(k, ts, m)
<1> DEFINE n == Len(catalog[k])
           early == {i \in 1 .. n : catalog[k][i].begin_ts <= ts}
<1>1. n \in Nat /\ \A i \in 1 .. n : catalog[k][i].begin_ts \in Nat
    BY CatalogTypes
<1>2. CASE early = {}
    <2>1. \A i \in 1 .. n : ~ (i <= 0) /\ ~ (catalog[k][i].begin_ts <= ts)
        BY <1>1, <1>2
    <2>2. UpTo(k, ts, 0)
        BY <1>1, <2>1 DEF UpTo
    <2> QED
        BY <1>1, <2>2
<1>3. CASE early # {}
    <2>1. PICK m \in early : \A j \in early : j <= m
        BY <1>1, <1>3, NewestFacts
    <2>2. m \in 1 .. n /\ catalog[k][m].begin_ts <= ts
        OBVIOUS
    <2>3. ASSUME NEW i \in 1 .. n, i <= m
          PROVE  catalog[k][i].begin_ts <= ts
        <3>1. catalog[k][i].begin_ts <= catalog[k][m].begin_ts
            BY <2>2, <2>3 DEF InOrder
        <3> QED
            BY <1>1, <2>2, <3>1
    <2>4. ASSUME NEW i \in 1 .. n, catalog[k][i].begin_ts <= ts
          PROVE  i <= m
        BY <2>1, <2>4
    <2>5. UpTo(k, ts, m)
        BY <1>1, <2>2, <2>3, <2>4 DEF UpTo
    <2> QED
        BY <1>1, <2>2, <2>5
<1> QED
    BY <1>2, <1>3

\* get_visible finds the last of them.
LEMMA ReadIsResult ==
    ASSUME TypeOK, NEW k \in Key, InOrder(catalog[k]), NEW ts \in Nat,
           NEW m \in 0 .. Len(catalog[k]), UpTo(k, ts, m)
    PROVE  Read(k, ts) = ResultAt(k, m)
<1> DEFINE n == Len(catalog[k])
           places == VisibleAt(catalog[k], n, ts)
<1>1. n \in Nat /\ \A i \in 1 .. n : catalog[k][i].begin_ts \in Nat
    BY CatalogTypes
<1>2. \A i \in places : i \in 1 .. n /\ i <= m
    BY DEF VisibleAt, Visible, UpTo
<1>3. CASE m = 0
    <2>1. places = {}
        BY <1>1, <1>2, <1>3
    <2> QED
        BY <1>3, <2>1 DEF Read, ReadResult, ResultAt
<1>4. CASE m # 0
    <2>1. m \in 1 .. n
        BY <1>1, <1>4
    <2>2. catalog[k][m].end_ts = 0 \/ catalog[k][m].end_ts > ts
        <3>1. CASE m = n
            BY <2>1, <3>1 DEF InOrder
        <3>2. CASE m # n
            <4>1. m + 1 \in 1 .. n /\ ~ (m + 1 <= m)
                BY <1>1, <2>1, <3>2
            <4>2. ~ (catalog[k][m + 1].begin_ts <= ts)
                BY <4>1 DEF UpTo
            <4>3. catalog[k][m].end_ts = catalog[k][m + 1].begin_ts
                BY <2>1, <3>2 DEF InOrder
            <4> QED
                BY <1>1, <4>1, <4>2, <4>3
        <3> QED
            BY <3>1, <3>2
    <2>3. m \in places
        BY <2>1, <2>2 DEF VisibleAt, Visible, UpTo
    <2>4. places \subseteq 1 .. n
        BY <1>2
    <2>5. NewestOf(places) \in places /\ m <= NewestOf(places)
        BY <1>1, <2>3, <2>4, NewestFacts
    <2>6. NewestOf(places) = m
        <3> HIDE DEF places
        <3> QED
            BY <1>1, <1>2, <2>1, <2>5
    <2>7. places # {}
        BY <2>3
    <2> HIDE DEF places
    <2>8. Read(k, ts) = IF catalog[k][m].is_tombstone
                        THEN None ELSE catalog[k][m].writer
        <3>1. Read(k, ts) =
                IF places = {} \/ catalog[k][NewestOf(places)].is_tombstone
                THEN None ELSE catalog[k][NewestOf(places)].writer
            BY DEF Read, ReadResult, places
        <3> QED
            BY <2>6, <2>7, <3>1
    <2> QED
        BY <1>4, <2>8 DEF ResultAt
<1> QED
    BY <1>3, <1>4

\* If the catalog has all the commits up to ts, that is their value.
LEMMA ResultIsValue ==
    ASSUME TypeOK, StartedBefore, CatalogKnown, FirstCommitterWins,
           NEW k \in Key, InOrder(catalog[k]), NEW ts \in Nat,
           NEW m \in 0 .. Len(catalog[k]), UpTo(k, ts, m),
           \A u \in CommittedTo(k, ts) : InCatalog(RedoRecord(u, k))
    PROVE  IsValue(k, ts, ResultAt(k, m))
<1> DEFINE n == Len(catalog[k])
<1>1. n \in Nat /\ \A i \in 1 .. n : catalog[k][i].begin_ts \in Nat
    BY CatalogTypes
<1>2. ASSUME NEW u \in CommittedTo(k, ts)
      PROVE  \E j \in 1 .. n :
                /\ j <= m /\ catalog[k][j].begin_ts = commit_ts[u]
                /\ catalog[k][j].writer = u
                /\ catalog[k][j].is_tombstone = (write_set[u][k] = "del")
    <2>1. u \in Txn /\ commit_ts[u] <= ts
        BY DEF CommittedTo
    <2>2. /\ RedoRecord(u, k).key = k /\ RedoRecord(u, k).writer = u
          /\ RedoRecord(u, k).commit_ts = commit_ts[u]
          /\ RedoRecord(u, k).type = "REDO_DEL" <=> write_set[u][k] = "del"
        BY <2>1, RedoRecordFacts
    <2>3. PICK j \in 1 .. n :
            /\ catalog[k][j].begin_ts = commit_ts[u]
            /\ catalog[k][j].writer = u
            /\ catalog[k][j].is_tombstone = (write_set[u][k] = "del")
        BY <2>2 DEF InCatalog
    <2> QED
        BY <2>1, <2>3 DEF UpTo
<1>3. CASE m = 0
    <2>1. CommittedTo(k, ts) = {}
        BY <1>1, <1>2, <1>3
    <2> QED
        BY <1>3, <2>1 DEF IsValue, ResultAt
<1>4. CASE m # 0
    <2>1. m \in 1 .. n /\ catalog[k][m].begin_ts <= ts
        BY <1>1, <1>4 DEF UpTo
    <2>2. PICK t \in Txn : t = catalog[k][m].writer
        <3>1. catalog[k][m] \in VersionRecord
            BY <2>1 DEF TypeOK
        <3> QED
            BY <3>1 DEF VersionRecord
    <2>3. /\ CommitLogged(t) /\ k \in Written(t)
          /\ catalog[k][m].begin_ts = commit_ts[t]
        BY <2>1, <2>2 DEF CatalogKnown
    <2>4. t \in CommittedTo(k, ts)
        BY <2>1, <2>3 DEF CommittedTo
    <2>5. ASSUME NEW w \in CommittedTo(k, ts)
          PROVE  commit_ts[w] <= commit_ts[t]
        <3>1. PICK j \in 1 .. n :
                j <= m /\ catalog[k][j].begin_ts = commit_ts[w]
            BY <1>2
        <3> QED
            BY <2>1, <2>3, <3>1 DEF InOrder
    <2>6. catalog[k][m].is_tombstone = (write_set[t][k] = "del")
        <3>1. PICK j \in 1 .. n :
                /\ j <= m /\ catalog[k][j].begin_ts = commit_ts[t]
                /\ catalog[k][j].is_tombstone = (write_set[t][k] = "del")
            BY <1>2, <2>4
        <3>2. j = m
            <4> SUFFICES ASSUME j # m
                         PROVE  FALSE
                OBVIOUS
            <4>1. m \in 2 .. n /\ m - 1 \in 1 .. n /\ j <= m - 1
                BY <1>1, <2>1, <3>1
            <4>2. catalog[k][m - 1].begin_ts <= start_ts[t]
                BY <2>2, <4>1 DEF FirstCommitterWins
            <4>3. start_ts[t] < commit_ts[t]
                BY <2>3 DEF StartedBefore
            <4>4. catalog[k][j].begin_ts <= catalog[k][m - 1].begin_ts
                BY <4>1 DEF InOrder
            <4>5. /\ catalog[k][m - 1].begin_ts \in Nat /\ start_ts[t] \in Nat
                  /\ commit_ts[t] \in Nat
                BY <1>1, <4>1, CommitTypes
            <4> QED
                BY <3>1, <4>2, <4>3, <4>4, <4>5
        <3> QED
            BY <3>1, <3>2
    <2>7. ResultAt(k, m) = IF write_set[t][k] = "del" THEN None ELSE t
        BY <1>4, <2>2, <2>6 DEF ResultAt
    <2> QED
        BY <2>4, <2>5, <2>7 DEF IsValue
<1> QED
    BY <1>3, <1>4

\* A serving process has in its catalog what a snapshot has.
LEMMA SnapshotServed ==
    ASSUME TypeInv, DurabilityInv, CleanInv, StartsBehind, Serving,
           NEW t \in Txn, Settled(t), NEW k \in Key
    PROVE  \A u \in CommittedTo(k, start_ts[t]) : InCatalog(RedoRecord(u, k))
<1> SUFFICES ASSUME NEW u \in Txn, CommitLogged(u), k \in Written(u),
                    commit_ts[u] <= start_ts[t]
             PROVE  InCatalog(RedoRecord(u, k))
    BY DEF CommittedTo
<1>1. PICK i \in 1 .. Len(wal) : wal[i] = CommitRecord(u)
    BY DEF CommitLogged
<1>2. wal[i].type = "COMMIT" /\ wal[i].writer = u
    BY <1>1 DEF CommitRecord
<1>3. /\ state[u] \in {"ACTIVE", "COMMITTED", "LOST"}
      /\ state[u] = "ACTIVE" =>
           u = committer /\ stage \in {"redo", "sync", "install"}
    BY <1>2 DEF CleanInv, LogInv, RecordsKnown
<1>4. state[u] # "ACTIVE"
    <2> SUFFICES ASSUME state[u] = "ACTIVE"
                 PROVE  FALSE
        OBVIOUS
    <2>1. start_ts[t] < commit_ts[u]
        BY <1>3 DEF StartsBehind
    <2>2. start_ts[t] \in Nat /\ commit_ts[u] \in Nat
        BY DEF TypeInv, TypeOK
    <2> QED
        BY <2>1, <2>2
<1>5. CASE state[u] = "COMMITTED"
    BY <1>5 DEF DurabilityInv, Acknowledged
<1>6. CASE state[u] = "LOST"
    BY <1>6 DEF CleanInv, VisInv, LostReplayed
<1> QED
    BY <1>3, <1>4, <1>5, <1>6

LEMMA ReadIsValue ==
    ASSUME TypeInv, DurabilityInv, CatalogInv, CleanInv, StartsBehind,
           StartedBefore, Serving, NEW t \in Txn, Settled(t), NEW k \in Key
    PROVE  IsValue(k, start_ts[t], Read(k, start_ts[t]))
<1>1. /\ TypeOK /\ InOrder(catalog[k]) /\ CatalogKnown /\ FirstCommitterWins
      /\ start_ts[t] \in Nat
    BY DEF TypeInv, TypeOK, CatalogInv, CatalogInOrder, CleanInv, VisInv, WinInv
<1>2. PICK m \in 0 .. Len(catalog[k]) : UpTo(k, start_ts[t], m)
    BY <1>1, SomeUpTo
<1>3. Read(k, start_ts[t]) = ResultAt(k, m)
    BY <1>1, <1>2, ReadIsResult
<1>4. IsValue(k, start_ts[t], ResultAt(k, m))
    BY <1>1, <1>2, SnapshotServed, ResultIsValue
<1> QED
    BY <1>3, <1>4

-----------------------------------------------------------------------------
\* What was read

\* Only the second half of a get returns something.
LEMMA ObservedSteps ==
    ASSUME NoErrors, [Next]_vars, \A u \in Txn : ~ GetWalk(u)
    PROVE  UNCHANGED observed
<1>1. ASSUME NEW u \in Txn, Call(u)
      PROVE  UNCHANGED observed
    BY <1>1 DEF Call, Begin, Abort, CommitReadOnly, CommitConflict,
                CommitStart, Put, Delete, GetOpen, readVars
<1>2. CASE CommitStep
    BY <1>2 DEF CommitStep, AppendRedo, Install, AppendCommit, SyncWal, Ack,
                Return, readVars
<1>3. CASE Ends \/ Restart \/ ReplayStep \/ UNCHANGED vars
    BY <1>3 DEF Ends, Close, FaultPoint, Kill, PowerLoss, ProcessEnds, Restart,
                ReplayStep, ReplayRedo, ReplayCommit, RecoverDone, vars,
                readVars
<1> QED
    BY <1>1, <1>2, <1>3, StepKinds DEF CommitStep

LEMMA NextReadsKnown ==
    ASSUME CleanRestarts, TypeInv, TypeInv', DurabilityInv, OrderInv,
           CatalogInv, CleanInv, SnapInv, [Next]_vars
    PROVE  ReadsKnown'
<1> USE DEF TypeInv
<1>0. NoErrors /\ LogInv /\ IdInv
    BY CleanFacts DEF CleanInv
<1> SUFFICES ASSUME NEW t \in Txn, Settled(t)', NEW k \in Key,
                    NEW v, v \in observed'[t][k]
             PROVE  IsValue(k, start_ts[t], v)'
    BY DEF ReadsKnown
<1>1. CASE Begin(t)
    <2>1. observed'[t][k] = observed[t][k] /\ state[t] = "UNBORN"
        BY <1>1 DEF Begin, readVars
    <2> QED
        BY <2>1 DEF SnapInv, UnbornUnread
<1>2. CASE Settled(t) /\ start_ts'[t] = start_ts[t]
    <2>1. PICK ts \in Nat : ts = start_ts[t]
        BY DEF TypeOK
    <2>2. IsValue(k, ts, v)
        <3>1. CASE v \in observed[t][k]
            BY <1>2, <2>1, <3>1 DEF SnapInv, ReadsKnown
        <3>2. ASSUME v \notin observed[t][k], NEW u \in Txn, GetWalk(u)
              PROVE  IsValue(k, ts, v)
            <4>1. PICK l \in Key : l = cursor[u].key
                BY <3>2 DEF CursorOK, GetWalk
            <4>2. /\ stage = "idle" /\ cursor[u].n = Len(catalog[l])
                BY <3>2, <4>1 DEF GetWalk, SnapInv, OneReader
            <4>3. observed' = [observed EXCEPT ![u][l] =
                                 @ \cup {Read(l, start_ts[u])}]
                BY <3>2, <4>1, <4>2 DEF GetWalk, Read
            <4>4. u = t /\ l = k /\ v = Read(k, start_ts[t])
                <5>1. observed \in [Txn -> [Key -> SUBSET (Txn \cup {None})]]
                    BY DEF TypeOK
                <5> HIDE DEF TypeInv
                <5> QED
                    BY <3>2, <4>3, <5>1
            <4>5. Serving
                BY <4>2 DEF Serving
            <4> QED
                BY <1>2, <2>1, <4>4, <4>5, ReadIsValue DEF SnapInv
        <3> QED
            BY <1>0, <3>1, <3>2, ObservedSteps
    <2>3. IsValue(k, ts, v)'
        BY <1>0, <1>2, <2>1, <2>2, IsValueKept DEF SnapInv
    <2>4. start_ts'[t] = ts
        BY <1>2, <2>1
    <2> QED
        BY <2>3, <2>4 DEF IsValue, CommittedTo
<1> QED
    BY <1>0, <1>1, <1>2, SettledKept

-----------------------------------------------------------------------------
\* The whole invariant

LEMMA InitSnapInv == Init => SnapInv
<1> SUFFICES ASSUME Init
             PROVE  SnapInv
    OBVIOUS
<1>1. /\ Len(wal) = 0 /\ stage = "down"
      /\ \A t \in Txn : /\ state[t] = "UNBORN" /\ cursor[t] = Closed
                        /\ \A k \in Key : observed[t][k] = {}
    BY DEF Init
<1>2. \A t \in Txn : ~ Settled(t) /\ ~ CommitLogged(t)
    BY <1>1 DEF Settled, CommitLogged
<1> QED
    BY <1>1, <1>2
    DEF SnapInv, ReadsKnown, UnbornUnread, OneReader, TornLast, NoneLost,
        StartsKnown, StartsBehind, StartedBefore

LEMMA NextSnapInv ==
    ASSUME SingleCaller, CleanRestarts, TypeInv, TypeInv', DurabilityInv,
           DurabilityInv', OrderInv, CatalogInv, CleanInv, SnapInv, [Next]_vars
    PROVE  SnapInv'
<1>1. LogInv /\ IdInv
    BY DEF CleanInv
<1>2. ReadsKnown'
    BY NextReadsKnown
<1>3. UnbornUnread' /\ OneReader'
    BY NextUnbornUnread, NextOneReader DEF SnapInv
<1>4. TornLast' /\ NoneLost'
    BY <1>1, NextTornLast, NextNoneLost DEF SnapInv
<1>5. StartsKnown'
    BY <1>1, NextStartsKnown DEF SnapInv
<1>6. StartsBehind'
    BY <1>1, NextStartsBehind DEF SnapInv
<1>7. StartedBefore'
    BY <1>1, NextStartedBefore DEF SnapInv
<1> QED
    BY <1>2, <1>3, <1>4, <1>5, <1>6, <1>7 DEF SnapInv

LEMMA SnapInvariant ==
    ASSUME SingleCaller, CleanRestarts
    PROVE  Spec => [](/\ TypeInv /\ DurabilityInv /\ OrderInv /\ CatalogInv
                      /\ CleanInv /\ SnapInv)
<1>1. Init => SnapInv
    BY InitSnapInv
<1>2. /\ TypeInv /\ TypeInv' /\ DurabilityInv /\ DurabilityInv' /\ OrderInv
      /\ CatalogInv /\ CleanInv /\ SnapInv /\ [Next]_vars
      => SnapInv'
    BY NextSnapInv
<1>3. Spec => []CatalogInv
    BY CleanFacts, CatalogInvariant
<1> QED
    BY <1>1, <1>2, <1>3, TypeInvariant, OrderInvariant, CleanInvariant, PTL
    DEF Spec

-----------------------------------------------------------------------------
\* What follows from it

LEMMA InvImpliesSnapshotReads ==
    ASSUME TypeInv, DurabilityInv, OrderInv, CatalogInv, CleanInv, SnapInv
    PROVE  SnapshotReads
<1> SUFFICES ASSUME NEW t \in Txn, NEW k \in Key, Serving,
                    state[t] \in {"ACTIVE", "COMMITTED"},
                    NEW v \in observed[t][k]
             PROVE  v = Read(k, start_ts[t])
    BY DEF SnapshotReads
<1>1. PICK ts \in Nat : ts = start_ts[t]
    BY DEF TypeInv, TypeOK
<1>2. Settled(t)
    BY DEF Settled
<1>3. IsValue(k, ts, v)
    BY <1>1, <1>2 DEF SnapInv, ReadsKnown
<1>4. IsValue(k, ts, Read(k, start_ts[t]))
    BY <1>1, <1>2, ReadIsValue DEF SnapInv
<1> QED
    BY <1>3, <1>4, IsValueUnique

\* A catalog that has a version has what its writer's snapshot has, even
\* while a recovery is filling it.
LEMMA PredecessorsServed ==
    ASSUME TypeInv, DurabilityInv, CatalogInv, CleanInv, SnapInv,
           NEW k \in Key, NEW i \in 1 .. Len(catalog[k]),
           NEW t \in Txn, t = catalog[k][i].writer
    PROVE  \A u \in CommittedTo(k, start_ts[t]) : InCatalog(RedoRecord(u, k))
<1> USE DEF TypeInv
<1>1. CommitLogged(t) /\ k \in Written(t) /\ Settled(t)
    BY DEF CleanInv, VisInv, CatalogKnown, Settled
<1>2. CASE Serving
    BY <1>1, <1>2, SnapshotServed DEF SnapInv
<1>3. CASE stage = "replay"
    <2>1. PICK w \in 1 .. Len(wal) : w < scan /\ wal[w] = RedoRecord(t, k)
        BY <1>3 DEF CleanInv, VisInv, CatalogKnown
    <2>2. /\ Redo(w) /\ wal[w].key = k /\ wal[w].writer = t
          /\ wal[w].commit_ts = commit_ts[t]
        BY <2>1, RedoRecordFacts DEF Redo
    <2> SUFFICES ASSUME NEW u \in Txn, CommitLogged(u), k \in Written(u),
                        commit_ts[u] <= start_ts[t]
                 PROVE  InCatalog(RedoRecord(u, k))
        BY DEF CommittedTo
    <2>3. PICK p \in 1 .. Len(wal) : wal[p] = CommitRecord(u)
        BY DEF CommitLogged
    <2>4. /\ wal[p].type = "COMMIT" /\ wal[p].writer = u
          /\ wal[p].txn_id = txn_id[u]
        BY <2>3 DEF CommitRecord
    <2>5. PICK x \in 1 .. p : wal[x] = RedoRecord(u, k)
        BY <2>4 DEF CleanInv, LogInv, CommitsComplete, RedoWithin
    <2>6. /\ Redo(x) /\ wal[x].key = k /\ wal[x].writer = u
          /\ wal[x].txn_id = txn_id[u]
        BY <2>5, RedoRecordFacts DEF Redo
    <2>7. x \in 1 .. Len(wal) /\ x \in Nat /\ w \in Nat /\ scan \in Nat
        BY CommitTypes DEF TypeOK
    <2>8. x < w
        <3>1. /\ start_ts[t] < commit_ts[t] /\ start_ts[u] < commit_ts[u]
              /\ start_ts[t] \in Nat /\ commit_ts[t] \in Nat
              /\ start_ts[u] \in Nat /\ commit_ts[u] \in Nat
            BY <1>1, CommitTypes DEF SnapInv, StartedBefore
        <3>2. u # t
            BY <3>1
        <3>3. ~ (w < x)
            <4> SUFFICES ASSUME w < x
                         PROVE  FALSE
                OBVIOUS
            <4>1. wal[w].commit_ts <= start_ts[u]
                BY <1>1, <2>2, <2>6, <2>7, <3>2 DEF CleanInv, WinInv, LogWins
            <4> QED
                BY <2>2, <3>1, <4>1
        <3> QED
            BY <2>2, <2>6, <2>7, <3>2, <3>3
    <2>9. x < scan
        BY <2>1, <2>7, <2>8
    <2>10. IsCommittedId(wal[x].txn_id)
        BY <2>4, <2>6 DEF IsCommittedId
    <2> QED
        BY <1>3, <2>5, <2>6, <2>7, <2>9, <2>10
        DEF DurabilityInv, ReplayProgress, Redo
<1>4. CASE stage = "down"
    BY <1>4 DEF CatalogInv, CatalogBehind
<1> QED
    BY <1>2, <1>3, <1>4 DEF Serving

LEMMA InvImpliesNoLostUpdate ==
    ASSUME TypeInv, DurabilityInv, OrderInv, CatalogInv, CleanInv, SnapInv
    PROVE  NoLostUpdate
<1> SUFFICES ASSUME NEW k \in Key, NEW i \in 1 .. Len(catalog[k]),
                    NEW v \in observed[catalog[k][i].writer][k]
             PROVE  v = ResultAt(k, i - 1)
    BY DEF NoLostUpdate
<1> DEFINE n == Len(catalog[k])
           m == i - 1
<1>1. n \in Nat /\ \A j \in 1 .. n : catalog[k][j].begin_ts \in Nat
    BY CatalogTypes DEF TypeInv
<1>2. PICK t \in Txn : t = catalog[k][i].writer
    <2>1. catalog[k][i] \in VersionRecord
        BY DEF TypeInv, TypeOK
    <2> QED
        BY <2>1 DEF VersionRecord
<1>3. /\ CommitLogged(t) /\ Settled(t)
      /\ catalog[k][i].begin_ts = commit_ts[t]
    BY <1>2 DEF CleanInv, VisInv, CatalogKnown, Settled
<1>4. PICK ts \in Nat : ts = start_ts[t]
    BY DEF TypeInv, TypeOK
<1>5. /\ TypeOK /\ InOrder(catalog[k]) /\ CatalogKnown /\ FirstCommitterWins
      /\ StartedBefore
    BY DEF TypeInv, CatalogInv, CatalogInOrder, CleanInv, VisInv, WinInv,
           SnapInv
<1>6. m \in 0 .. n
    BY <1>1
<1>7. ASSUME NEW j \in 1 .. n, j <= m
      PROVE  catalog[k][j].begin_ts <= ts
    <2>1. i \in 2 .. n /\ m \in 1 .. n
        BY <1>1, <1>7
    <2>2. catalog[k][m].begin_ts <= ts
        BY <1>2, <1>4, <1>5, <2>1 DEF FirstCommitterWins
    <2>3. catalog[k][j].begin_ts <= catalog[k][m].begin_ts
        BY <1>5, <1>7, <2>1 DEF InOrder
    <2> QED
        BY <1>1, <2>1, <2>2, <2>3
<1>8. ASSUME NEW j \in 1 .. n, ~ (j <= m)
      PROVE  ~ (catalog[k][j].begin_ts <= ts)
    <2>1. i <= j
        BY <1>1, <1>8
    <2>2. catalog[k][i].begin_ts <= catalog[k][j].begin_ts
        BY <1>5, <2>1 DEF InOrder
    <2>3. ts < catalog[k][i].begin_ts
        BY <1>3, <1>4, <1>5 DEF StartedBefore
    <2>4. catalog[k][i].begin_ts \in Nat /\ catalog[k][j].begin_ts \in Nat
        BY <1>1
    <2> QED
        BY <2>2, <2>3, <2>4
<1>9. UpTo(k, ts, m)
    BY <1>6, <1>7, <1>8 DEF UpTo
<1>10. \A u \in CommittedTo(k, ts) : InCatalog(RedoRecord(u, k))
    BY <1>2, <1>4, PredecessorsServed
<1>11. IsValue(k, ts, ResultAt(k, m))
    BY <1>5, <1>6, <1>9, <1>10, ResultIsValue
<1>12. IsValue(k, ts, v)
    BY <1>2, <1>3, <1>4 DEF SnapInv, ReadsKnown
<1> QED
    BY <1>11, <1>12, IsValueUnique

(***************************************************************************)
(* A snapshot does not move.  If one caller makes all the calls, and the   *)
(* store crashes as in CleanRestarts, then whatever Engine.get answered    *)
(* from the catalog is what it would answer for the same transaction now,  *)
(* in this process or in a later one that rebuilt the catalog.             *)
(* SingleCaller cannot be dropped: begin() takes no lock and may hand out  *)
(* a snapshot with a commit that is not yet installed (run                 *)
(* update_in_commit).                                                      *)
(***************************************************************************)
THEOREM SnapshotsDoNotMove ==
    ASSUME SingleCaller, CleanRestarts
    PROVE  Spec => []SnapshotReads
<1>1. /\ TypeInv /\ DurabilityInv /\ OrderInv /\ CatalogInv /\ CleanInv
      /\ SnapInv
      => SnapshotReads
    BY InvImpliesSnapshotReads
<1> QED
    BY <1>1, SnapInvariant, PTL

(***************************************************************************)
(* No update is lost, under the same conditions: if a transaction read a   *)
(* key and wrote it, then in the key's list its version comes right after  *)
(* the one it had read, at every moment, also while a recovery is filling  *)
(* the catalog.  Without SingleCaller the code loses one (run              *)
(* update_in_commit).                                                      *)
(***************************************************************************)
THEOREM NothingIsLost ==
    ASSUME SingleCaller, CleanRestarts
    PROVE  Spec => []NoLostUpdate
<1>1. /\ TypeInv /\ DurabilityInv /\ OrderInv /\ CatalogInv /\ CleanInv
      /\ SnapInv
      => NoLostUpdate
    BY InvImpliesNoLostUpdate
<1> QED
    BY <1>1, SnapInvariant, PTL

-----------------------------------------------------------------------------
(***************************************************************************)
(* Engine implements SnapshotStore, for a single caller and the crashes of *)
(* CleanRestarts: each step of the engine, of its recovery and of its      *)
(* failures is a step of the store, or changes nothing a caller can see.   *)
(***************************************************************************)

\* A get goes to the catalog only for a key its transaction has not written.
GetsUnwritten ==
    \A t \in Txn : cursor[t] # Closed => write_set[t][cursor[t].key] = "none"

\* Before the first crash, every COMMIT but that of the commit that is about
\* to sync is on the disk.
CommitsSynced ==
    incidents = 0 => \A i \in 1 .. Len(wal) : wal[i].type = "COMMIT" =>
        i <= synced \/ (stage = "sync" /\ wal[i].writer = committer)

EngineInv ==
    /\ TypeInv /\ DurabilityInv /\ OrderInv /\ CatalogInv /\ CleanInv /\ SnapInv
    /\ GetsUnwritten /\ CommitsSynced

(***************************************************************************)
(* The commits that happened have the timestamps 1 .. n, and the store's   *)
(* sequence has them at these places.                                      *)
(***************************************************************************)
Numbered(n) ==
    /\ StoreCommits \in Seq([writer : Txn, writes : [Key -> Ops]])
    /\ Len(StoreCommits) = n
    /\ \A t \in Txn : Happened(t) =>
         /\ commit_ts[t] \in 1 .. n
         /\ StoreCommits[commit_ts[t]] = [writer |-> t, writes |-> write_set[t]]
    /\ \A i \in 1 .. n : \E t \in Txn : Happened(t) /\ commit_ts[t] = i

AllNumbered == \E n \in Nat : Numbered(n)

-----------------------------------------------------------------------------
\* Timestamps number the commits

\* A bounded set of positive numbers, with the predecessor of each, is an
\* initial segment.
LEMMA Segment ==
    ASSUME NEW D \in SUBSET Nat, NEW m \in Nat,
           \A d \in D : /\ 1 <= d /\ d <= m
                        /\ d = 1 \/ d - 1 \in D
    PROVE  \E n \in Nat : D = 1 .. n
<1> DEFINE Bounds == {b \in Nat : \A d \in D : d <= b}
<1>1. PICK n \in Bounds : \A b \in Bounds : <<b, n>> \notin OpToRel(<, Nat)
    <2>1. m \in Bounds /\ Bounds \subseteq Nat
        OBVIOUS
    <2> QED
        BY <2>1, NatLessThanWellFounded, WFMin
<1>2. n \in Nat /\ \A d \in D : d <= n
    BY <1>1
<1>3. \A b \in Bounds : ~ (b < n)
    BY <1>1, <1>2 DEF OpToRel
<1>4. CASE n = 0
    <2>1. D = {}
        BY <1>2, <1>4
    <2> QED
        BY <2>1, <1>4
<1>5. CASE n > 0
    <2>1. n - 1 \in Nat /\ n - 1 \notin Bounds
        BY <1>2, <1>3, <1>5
    <2>2. n \in D
        <3>1. PICK d \in D : ~ (d <= n - 1)
            BY <2>1
        <3>2. d = n
            BY <1>2, <2>1, <3>1
        <3> QED
            BY <3>2
    <2> DEFINE Gaps == {g \in Nat : g < n /\ n - g \notin D}
    <2>3. Gaps = {}
        <3> SUFFICES ASSUME Gaps # {}
                     PROVE  FALSE
            OBVIOUS
        <3>1. PICK g \in Gaps : \A h \in Gaps : <<h, g>> \notin OpToRel(<, Nat)
            BY NatLessThanWellFounded, WFMin
        <3>2. g \in Nat /\ g < n /\ n - g \notin D /\ g # 0
            <4>1. g \in Nat /\ g < n /\ n - g \notin D
                BY <3>1
            <4>2. n - 0 = n
                BY <1>2
            <4> QED
                BY <2>2, <4>1, <4>2
        <3>3. g - 1 \in Nat /\ g - 1 < g /\ g - 1 < n
            BY <1>2, <3>2
        <3>4. g - 1 \notin Gaps
            BY <3>1, <3>2, <3>3 DEF OpToRel
        <3>5. n - (g - 1) \in D
            BY <3>3, <3>4
        <3>6. n - (g - 1) = 1 \/ (n - (g - 1)) - 1 \in D
            BY <3>5
        <3>7. (n - (g - 1)) - 1 = n - g /\ n - (g - 1) # 1
            BY <1>2, <3>2
        <3> QED
            BY <3>2, <3>6, <3>7
    <2>4. ASSUME NEW i \in 1 .. n
          PROVE  i \in D
        <3>1. n - i \in Nat /\ n - i < n /\ n - (n - i) = i
            BY <1>2
        <3> QED
            BY <2>3, <3>1
    <2>5. D \subseteq 1 .. n
        BY <1>2
    <2> QED
        BY <1>2, <2>4, <2>5
<1> QED
    BY <1>2, <1>4, <1>5

LEMMA HappenedMeans ==
    ASSUME TypeInv, RecordsKnown, NEW t \in Txn
    PROVE  Happened(t) <=>
             CommitLogged(t) /\ (stage = "sync" => t # committer)
<1>1. ASSUME NEW i \in 1 .. Len(wal), wal[i].type = "COMMIT", wal[i].writer = t
      PROVE  wal[i] = CommitRecord(t)
    BY <1>1 DEF RecordsKnown
<1>2. CommitRecord(t).type = "COMMIT" /\ CommitRecord(t).writer = t
    BY DEF CommitRecord
<1> QED
    BY <1>1, <1>2 DEF Happened, CommitLogged

LEMMA HappenedMeansNext ==
    ASSUME TypeInv', RecordsKnown', NEW t \in Txn
    PROVE  Happened(t)' <=>
             CommitLogged(t)' /\ (stage' = "sync" => t # committer')
<1>1. ASSUME NEW i \in 1 .. Len(wal'), wal'[i].type = "COMMIT",
             wal'[i].writer = t
      PROVE  wal'[i] = CommitRecord(t)'
    BY <1>1 DEF RecordsKnown, CommitRecord
<1>2. CommitRecord(t)'.type = "COMMIT" /\ CommitRecord(t)'.writer = t
    BY DEF CommitRecord
<1> QED
    BY <1>1, <1>2 DEF Happened, CommitLogged

\* A COMMIT record of the log is of some transaction, which it says.
LEMMA CommitOf ==
    ASSUME TypeInv, RecordsKnown, NEW i \in 1 .. Len(wal),
           wal[i].type = "COMMIT"
    PROVE  \E t \in Txn : /\ wal[i] = CommitRecord(t) /\ CommitLogged(t)
                          /\ wal[i].commit_ts = commit_ts[t]
                          /\ wal[i].writer = t
<1>1. wal[i].writer \in Txn
    BY RecordFacts DEF TypeInv
<1>2. PICK t \in Txn : t = wal[i].writer
    BY <1>1
<1>3. wal[i] = CommitRecord(t)
    BY <1>2 DEF RecordsKnown
<1>4. CommitRecord(t).commit_ts = commit_ts[t]
    BY DEF CommitRecord
<1> QED
    BY <1>2, <1>3, <1>4 DEF CommitLogged

\* No two commits have the same timestamp.
LEMMA CommitsApart ==
    ASSUME TypeInv, OrderInv, NEW t \in Txn, NEW u \in Txn,
           CommitLogged(t), CommitLogged(u), commit_ts[t] = commit_ts[u]
    PROVE  t = u
<1>1. PICK i \in 1 .. Len(wal) : wal[i] = CommitRecord(t)
    BY DEF CommitLogged
<1>2. PICK j \in 1 .. Len(wal) : wal[j] = CommitRecord(u)
    BY DEF CommitLogged
<1>3. /\ wal[i].type = "COMMIT" /\ wal[i].writer = t
      /\ wal[i].commit_ts = commit_ts[t]
      /\ wal[j].type = "COMMIT" /\ wal[j].writer = u
      /\ wal[j].commit_ts = commit_ts[u]
    BY <1>1, <1>2 DEF CommitRecord
<1>4. ~ (i < j) /\ ~ (j < i)
    <2>1. commit_ts[t] \in Nat /\ commit_ts[u] \in Nat
        BY CommitTypes DEF TypeInv
    <2> QED
        BY <1>3, <2>1 DEF OrderInv, CommitsOrdered
<1>5. i = j
    BY <1>4
<1> QED
    BY <1>3, <1>5

\* Up to a COMMIT the log is whole.
LEMMA WholeToCommit ==
    ASSUME TypeInv, TornLast, NEW j \in 1 .. Len(wal), wal[j].type # "TORN"
    PROVE  Whole(j)
<1> SUFFICES ASSUME NEW i \in 1 .. j, wal[i].type = "TORN"
             PROVE  FALSE
    BY DEF Whole
<1>1. Len(wal) \in Nat
    BY CommitTypes DEF TypeInv
<1>2. i \in 1 .. Len(wal)
    BY <1>1
<1>3. i = Len(wal)
    BY <1>2 DEF TornLast
<1> QED
    BY <1>1, <1>3

\* Timestamps of commits have no gap.
LEMMA CommitBefore ==
    ASSUME EngineInv, NEW t \in Txn, CommitLogged(t)
    PROVE  /\ commit_ts[t] \in Nat /\ commit_ts[t] > 0
           /\ \/ commit_ts[t] = 1
              \/ \E u \in Txn : /\ CommitLogged(u)
                                /\ commit_ts[u] + 1 = commit_ts[t]
<1>0. /\ TypeInv /\ TypeOK /\ RecordsKnown /\ TornLast /\ StartedBefore
      /\ LogOrdered
    BY DEF EngineInv, TypeInv, CleanInv, LogInv, SnapInv, CatalogInv
<1>1. PICK j \in 1 .. Len(wal) : wal[j] = CommitRecord(t)
    BY DEF CommitLogged
<1>2. wal[j].type = "COMMIT" /\ wal[j].commit_ts = commit_ts[t]
    BY <1>1 DEF CommitRecord
<1>3. Whole(j)
    BY <1>0, <1>2, WholeToCommit
<1>4. \/ wal[j].commit_ts = 1
      \/ \E i \in 1 .. j : /\ wal[i].type = "COMMIT"
                           /\ wal[i].commit_ts + 1 = wal[j].commit_ts
    BY <1>0, <1>3 DEF LogOrdered
<1>5. ASSUME NEW i \in 1 .. j, wal[i].type = "COMMIT",
             wal[i].commit_ts + 1 = wal[j].commit_ts
      PROVE  \E u \in Txn : CommitLogged(u) /\ commit_ts[u] + 1 = commit_ts[t]
    <2>1. i \in 1 .. Len(wal)
        BY <1>0, CommitTypes
    <2>2. PICK u \in Txn : CommitLogged(u) /\ wal[i].commit_ts = commit_ts[u]
        BY <1>0, <1>5, <2>1, CommitOf
    <2> QED
        BY <1>2, <1>5, <2>2
<1>6. commit_ts[t] \in Nat /\ commit_ts[t] > 0
    BY <1>0, CommitTypes, LoggedIsPositive
<1> QED
    BY <1>2, <1>4, <1>5, <1>6

\* They are bounded.
LEMMA CommitsBounded ==
    ASSUME EngineInv
    PROVE  \E m \in Nat : \A t \in Txn : CommitLogged(t) => commit_ts[t] <= m
<1>0. /\ TypeInv /\ TypeOK /\ TornLast /\ LogOrdered /\ Len(wal) \in Nat
    BY CommitTypes DEF EngineInv, TypeInv, SnapInv, CatalogInv
<1>1. PICK n \in 0 .. Len(wal) :
          /\ n > 0 => Whole(n)
          /\ \A i \in 1 .. Len(wal) : wal[i].type = "COMMIT" => i <= n
    <2>1. CASE Len(wal) = 0
        BY <1>0, <2>1
    <2>2. CASE Len(wal) > 0 /\ wal[Len(wal)].type # "TORN"
        <3>1. Whole(Len(wal))
            BY <1>0, <2>2, WholeToCommit
        <3> QED
            BY <1>0, <3>1
    <2>3. CASE Len(wal) > 0 /\ wal[Len(wal)].type = "TORN"
        <3>1. Whole(Len(wal) - 1)
            BY <1>0, <2>3 DEF Whole, TornLast
        <3>2. \A i \in 1 .. Len(wal) :
                  wal[i].type = "COMMIT" => i <= Len(wal) - 1
            <4> SUFFICES ASSUME NEW i \in 1 .. Len(wal),
                                wal[i].type = "COMMIT"
                         PROVE  i # Len(wal)
                BY <1>0
            <4> QED
                BY <2>3
        <3> QED
            BY <1>0, <2>3, <3>1, <3>2
    <2> QED
        BY <1>0, <2>1, <2>2, <2>3
<1>2. CASE n = 0
    <2>1. \A t \in Txn : ~ CommitLogged(t)
        <3> SUFFICES ASSUME NEW t \in Txn, NEW i \in 1 .. Len(wal),
                            wal[i] = CommitRecord(t)
                     PROVE  FALSE
            BY DEF CommitLogged
        <3>1. wal[i].type = "COMMIT"
            BY DEF CommitRecord
        <3> QED
            BY <1>1, <1>2, <3>1
    <2> QED
        BY <2>1
<1>3. CASE n > 0
    <2>1. n \in 1 .. Len(wal) /\ wal[n].commit_ts \in Nat
        BY <1>0, <1>3, CommitTypes
    <2>2. PICK m \in Nat : m = wal[n].commit_ts
        BY <2>1
    <2>3. \A i \in 1 .. n : wal[i].commit_ts <= m
        BY <1>0, <1>1, <1>3, <2>1, <2>2 DEF LogOrdered
    <2>4. ASSUME NEW t \in Txn, CommitLogged(t)
          PROVE  commit_ts[t] <= m
        <3>1. PICK i \in 1 .. Len(wal) : wal[i] = CommitRecord(t)
            BY <2>4 DEF CommitLogged
        <3>2. wal[i].type = "COMMIT" /\ wal[i].commit_ts = commit_ts[t]
            BY <3>1 DEF CommitRecord
        <3>3. i \in 1 .. n
            BY <1>1, <3>2
        <3> QED
            BY <2>3, <3>2, <3>3
    <2> QED
        BY <2>4
<1> QED
    BY <1>0, <1>2, <1>3

\* A commit that is about to sync has the latest timestamp.
LEMMA SyncIsLast ==
    ASSUME EngineInv, stage = "sync"
    PROVE  /\ committer \in Txn /\ CommitLogged(committer)
           /\ \A t \in Txn : CommitLogged(t) =>
                commit_ts[t] <= commit_ts[committer]
<1>0. /\ TypeOK /\ CountersPast /\ TurnFollows /\ CommitProgress
    BY DEF EngineInv, TypeInv, OrderInv, CatalogInv, DurabilityInv
<1>1. PICK c \in Txn : c = committer
    BY <1>0 DEF TypeOK
<1>2. CommitLogged(c)
    BY <1>0, <1>1 DEF CommitProgress, LoggedWithin, CommitLogged
<1>3. next_ts = commit_ts[c] + 1
    BY <1>0, <1>1 DEF TurnFollows
<1>4. ASSUME NEW t \in Txn, CommitLogged(t)
      PROVE  commit_ts[t] <= commit_ts[c]
    <2>1. PICK i \in 1 .. Len(wal) : wal[i] = CommitRecord(t)
        BY <1>4 DEF CommitLogged
    <2>2. wal[i].type = "COMMIT" /\ wal[i].commit_ts = commit_ts[t]
        BY <2>1 DEF CommitRecord
    <2>3. wal[i].commit_ts < next_ts
        BY <1>0, <2>2 DEF CountersPast
    <2>4. commit_ts[t] \in Nat /\ commit_ts[c] \in Nat
        BY <1>0, CommitTypes
    <2> QED
        BY <1>3, <2>2, <2>3, <2>4
<1> QED
    BY <1>1, <1>2, <1>4

\* So the timestamps of what happened have no gap, either.
LEMMA HappenedBefore ==
    ASSUME EngineInv, NEW t \in Txn, Happened(t)
    PROVE  /\ commit_ts[t] \in Nat /\ commit_ts[t] > 0
           /\ \/ commit_ts[t] = 1
              \/ \E u \in Txn : Happened(u) /\ commit_ts[u] + 1 = commit_ts[t]
<1>0. TypeInv /\ TypeOK /\ RecordsKnown
    BY DEF EngineInv, TypeInv, CleanInv, LogInv
<1>1. CommitLogged(t)
    BY <1>0, HappenedMeans
<1>2. commit_ts[t] \in Nat /\ commit_ts[t] > 0
    BY <1>1, CommitBefore
<1>3. ASSUME NEW u \in Txn, CommitLogged(u), commit_ts[u] + 1 = commit_ts[t]
      PROVE  Happened(u)
    <2>1. stage = "sync" => u # committer
        <3> SUFFICES ASSUME stage = "sync", u = committer
                     PROVE  FALSE
            OBVIOUS
        <3>1. commit_ts[t] <= commit_ts[u]
            BY <1>1, SyncIsLast
        <3>2. commit_ts[u] \in Nat
            BY <1>0, CommitTypes
        <3> QED
            BY <1>2, <1>3, <3>1, <3>2
    <2> QED
        BY <1>0, <1>3, <2>1, HappenedMeans
<1> QED
    BY <1>1, <1>2, <1>3, CommitBefore

LEMMA CommitterIs ==
    ASSUME EngineInv, NEW t \in Txn, Happened(t)
    PROVE  Committer(commit_ts[t]) = t
<1>0. TypeInv /\ OrderInv /\ RecordsKnown
    BY DEF EngineInv, CleanInv, LogInv
<1>1. ASSUME NEW u \in Txn, Happened(u), commit_ts[u] = commit_ts[t]
      PROVE  u = t
    <2>1. CommitLogged(t) /\ CommitLogged(u)
        BY <1>0, <1>1, HappenedMeans
    <2> QED
        BY <1>0, <1>1, <2>1, CommitsApart
<1> QED
    BY <1>1 DEF Committer

\* A function on 1 .. n is a sequence.
LEMMA FunctionIsSequence ==
    ASSUME NEW S, NEW n \in Nat, NEW s \in [1 .. n -> S]
    PROVE  s \in Seq(S) /\ Len(s) = n
<1>1. s \in Seq(S)
    BY SeqDef
<1>2. Len(s) \in Nat /\ DOMAIN s = 1 .. Len(s) /\ DOMAIN s = 1 .. n
    BY <1>1, LenProperties
<1>3. ~ (Len(s) < n) /\ ~ (n < Len(s))
    <2>1. CASE Len(s) < n
        BY <1>2, <2>1, n \in 1 .. n, n \notin 1 .. Len(s)
    <2>2. CASE n < Len(s)
        BY <1>2, <2>2, Len(s) \in 1 .. Len(s), Len(s) \notin 1 .. n
    <2> QED
        BY <2>1, <2>2
<1> QED
    BY <1>1, <1>2, <1>3

LEMMA InvNumbers == EngineInv => AllNumbered
<1> SUFFICES ASSUME EngineInv
             PROVE  AllNumbered
    OBVIOUS
<1>0. TypeInv /\ TypeOK /\ RecordsKnown
    BY DEF EngineInv, TypeInv, CleanInv, LogInv
<1> DEFINE D == {commit_ts[t] : t \in {u \in Txn : Happened(u)}}
           Entry(x) == [writer |-> Committer(x),
                        writes |-> write_set[Committer(x)]]
<1>1. PICK n \in Nat : D = 1 .. n
    <2>1. PICK m \in Nat : \A t \in Txn : CommitLogged(t) => commit_ts[t] <= m
        BY CommitsBounded
    <2>2. ASSUME NEW d \in D
          PROVE  /\ d \in Nat /\ 1 <= d /\ d <= m
                 /\ d = 1 \/ d - 1 \in D
        <3>1. PICK t \in Txn : Happened(t) /\ commit_ts[t] = d
            OBVIOUS
        <3>2. d \in Nat /\ 1 <= d
            BY <3>1, HappenedBefore
        <3>3. d <= m
            BY <1>0, <2>1, <3>1, HappenedMeans
        <3>4. d = 1 \/ \E u \in Txn : Happened(u) /\ commit_ts[u] + 1 = d
            BY <3>1, HappenedBefore
        <3>5. ASSUME NEW u \in Txn, Happened(u), commit_ts[u] + 1 = d
              PROVE  d - 1 \in D
            <4>1. commit_ts[u] \in D /\ commit_ts[u] \in Nat
                BY <1>0, <3>5, CommitTypes
            <4>2. commit_ts[u] = d - 1
                BY <3>2, <3>5, <4>1
            <4> QED
                BY <4>1, <4>2
        <3> HIDE DEF D
        <3> QED
            BY <3>2, <3>3, <3>4, <3>5
    <2> HIDE DEF D
    <2> QED
        BY <2>2, Segment
<1>2. \A x \in 1 .. n : \E t \in Txn : Happened(t) /\ commit_ts[t] = x
    BY <1>1
<1>3. \A t \in Txn : Happened(t) => commit_ts[t] \in 1 .. n
    BY <1>1
<1>4. StoreCommits = [x \in 1 .. n |-> Entry(x)]
    BY <1>1 DEF StoreCommits
<1>5. ASSUME NEW x \in 1 .. n
      PROVE  Entry(x) \in [writer : Txn, writes : [Key -> Ops]]
    <2>1. Committer(x) \in Txn
        BY <1>2 DEF Committer
    <2>2. write_set[Committer(x)] \in [Key -> Ops]
        BY <1>0, <2>1 DEF TypeOK
    <2> QED
        BY <2>1, <2>2
<1> HIDE DEF D, Entry
<1>6. /\ StoreCommits \in Seq([writer : Txn, writes : [Key -> Ops]])
      /\ Len(StoreCommits) = n
    <2>1. StoreCommits \in [1 .. n -> [writer : Txn, writes : [Key -> Ops]]]
        BY <1>4, <1>5
    <2> QED
        BY <2>1, FunctionIsSequence
<1>7. ASSUME NEW t \in Txn, Happened(t)
      PROVE  StoreCommits[commit_ts[t]]
               = [writer |-> t, writes |-> write_set[t]]
    BY <1>3, <1>4, <1>7, CommitterIs DEF Entry
<1> QED
    BY <1>2, <1>3, <1>6, <1>7 DEF AllNumbered, Numbered

LEMMA InvNumbersNext == EngineInv' => AllNumbered'
    BY InvNumbers, PTL

-----------------------------------------------------------------------------
\* The invariant is inductive

LEMMA NextGetsUnwritten ==
    ASSUME NoErrors, TypeInv, GetsUnwritten, [Next]_vars
    PROVE  GetsUnwritten'
<1> SUFFICES ASSUME NEW t \in Txn, cursor'[t] # Closed
             PROVE  write_set'[t][cursor'[t].key] = "none"
    BY DEF GetsUnwritten, Closed
<1>0. /\ cursor \in [Txn -> [key : Key \cup {None}, n : Nat]]
      /\ write_set \in [Txn -> [Key -> Ops]]
    BY DEF TypeInv, TypeOK
<1>1. CASE cursor'[t] = cursor[t] /\ write_set'[t] = write_set[t]
    BY <1>1 DEF GetsUnwritten
<1>2. ASSUME NEW k \in Key, GetOpen(t, k)
      PROVE  write_set'[t][cursor'[t].key] = "none"
    <2>1. cursor'[t].key = k
        BY <1>0, <1>2 DEF GetOpen
    <2> QED
        BY <1>2, <2>1 DEF GetOpen, txnVars
<1>3. ASSUME NEW u \in Txn, Call(u)
      PROVE  \/ cursor'[t] = cursor[t] /\ write_set'[t] = write_set[t]
             \/ \E k \in Key : GetOpen(t, k)
    <2>1. CASE GetWalk(u)
        <3>1. u # t
            BY <1>0, <2>1 DEF GetWalk
        <3> QED
            BY <1>0, <2>1, <3>1 DEF GetWalk, txnVars
    <2>2. ASSUME NEW k \in Key, GetOpen(u, k)
          PROVE  \/ cursor'[t] = cursor[t] /\ write_set'[t] = write_set[t]
                 \/ \E j \in Key : GetOpen(t, j)
        <3>1. CASE u = t
            BY <2>2, <3>1
        <3>2. CASE u # t
            BY <1>0, <2>2, <3>2 DEF GetOpen, txnVars
        <3> QED
            BY <3>1, <3>2
    <2>3. CASE \/ Begin(u) \/ CommitReadOnly(u) \/ CommitStart(u)
        BY <2>3 DEF Begin, CommitReadOnly, CommitStart, readVars
    <2>4. CASE \/ Abort(u) \/ CommitConflict(u)
               \/ \E k \in Key : Put(u, k) \/ Delete(u, k)
        <3>1. cursor' = cursor /\ cursor[u] = Closed
            BY <2>4 DEF Abort, CommitConflict, Put, Delete, readVars, MayUse,
                        MayCall, MayCommit
        <3>2. u # t
            BY <3>1
        <3>3. write_set'[t] = write_set[t]
            BY <1>0, <2>4, <3>2 DEF Abort, CommitConflict, Put, Delete
        <3> QED
            BY <3>1, <3>3
    <2> QED
        BY <1>3, <2>1, <2>2, <2>3, <2>4 DEF Call
<1>4. CASE CommitStep \/ Ends \/ Restart \/ ReplayStep \/ UNCHANGED vars
    <2>1. UNCHANGED write_set
        BY <1>4, OtherFacts
    <2>2. CASE Ends
        BY <2>2 DEF Ends, Close, FaultPoint, Kill, PowerLoss, ProcessEnds
    <2>3. CASE ~ Ends
        BY <1>1, <1>4, <2>1, <2>3
        DEF CommitStep, AppendRedo, Install, AppendCommit, SyncWal, Ack, Return,
            Restart, ReplayStep, ReplayRedo, ReplayCommit, RecoverDone, vars,
            readVars
    <2> QED
        BY <2>2, <2>3
<1> QED
    BY <1>1, <1>2, <1>3, <1>4, StepKinds DEF CommitStep

LEMMA NextCommitsSynced ==
    ASSUME CleanRestarts, TypeInv, TypeInv', FirstProcess, CommitsSynced,
           [Next]_vars
    PROVE  CommitsSynced'
<1>0. NoErrors /\ WholeWrites /\ TypeOK /\ Len(wal) \in Nat
    BY CleanFacts, CommitTypes DEF TypeInv
<1> SUFFICES ASSUME incidents' = 0
             PROVE  CommitsSynced'
    BY DEF CommitsSynced
<1>1. incidents = 0 /\ ~ Ends
    <2>1. incidents \in Nat
        BY DEF TypeInv, TypeOK
    <2>2. Ends => incidents' = incidents + 1
        BY DEF Ends, Close, FaultPoint, Kill, PowerLoss, Incident
    <2> QED
        BY <2>1, <2>2, IncidentsGrow
<1>2. CASE UNCHANGED <<wal, synced>> /\ stage # "sync"
    BY <1>1, <1>2 DEF CommitsSynced
<1>3. CASE UNCHANGED <<wal, synced, stage, committer>>
    BY <1>1, <1>3 DEF CommitsSynced
<1>4. ASSUME NEW t \in Txn, Call(t)
      PROVE  CommitsSynced'
    <2>1. /\ UNCHANGED <<wal, synced>>
          /\ UNCHANGED <<stage, committer>> \/ stage = "idle"
        BY <1>4, CallFacts
    <2> QED
        BY <1>2, <1>3, <2>1
<1>5. ASSUME NEW k \in Key, AppendRedo(k)
      PROVE  CommitsSynced'
    <2>1. /\ stage = "redo" /\ Len(wal') = Len(wal) + 1 /\ synced' = synced
          /\ \A i \in 1 .. Len(wal) : wal'[i] = wal[i]
          /\ wal'[Len(wal) + 1].type # "COMMIT"
        <3>1. PICK c \in Txn : c = committer
            BY <1>0, <1>5, AppendRedoFacts
        <3>2. RedoRecord(c, k).type # "COMMIT"
            BY <1>0, RedoRecordFacts
        <3>3. wal'[Len(wal) + 1] = RedoRecord(c, k)
            BY <1>0, <1>5, <3>1, AppendRedoFacts
        <3> QED
            BY <1>0, <1>5, <3>2, <3>3, AppendRedoFacts
    <2> SUFFICES ASSUME NEW i \in 1 .. Len(wal'), wal'[i].type = "COMMIT"
                 PROVE  i <= synced'
        BY DEF CommitsSynced
    <2>2. i \in 1 .. Len(wal)
        BY <1>0, <2>1
    <2> QED
        BY <1>1, <2>1, <2>2 DEF CommitsSynced
<1>6. CASE AppendCommit
    <2>1. /\ stage = "redo" /\ Len(wal') = Len(wal) + 1 /\ synced' = synced
          /\ \A i \in 1 .. Len(wal) : wal'[i] = wal[i]
          /\ wal'[Len(wal) + 1].writer = committer
          /\ stage' = "sync" /\ committer' = committer
        BY <1>0, <1>6, AppendCommitFacts DEF CommitRecord
    <2> SUFFICES ASSUME NEW i \in 1 .. Len(wal'), wal'[i].type = "COMMIT"
                 PROVE  i <= synced' \/ wal'[i].writer = committer'
        BY <2>1 DEF CommitsSynced
    <2>2. i \in 1 .. Len(wal) \/ i = Len(wal) + 1
        BY <1>0, <2>1
    <2> QED
        BY <1>1, <2>1, <2>2 DEF CommitsSynced
<1>7. CASE SyncWal
    <2>1. synced' = Len(wal) /\ wal' = wal
        BY <1>7 DEF SyncWal
    <2> QED
        BY <1>0, <2>1 DEF CommitsSynced
<1>8. CASE Ack \/ Return \/ \E k \in Key : Install(k)
    BY <1>2, <1>8 DEF Ack, Return, Install, fileVars
<1>9. CASE Restart \/ ReplayStep
    <2>1. wal = << >>
        BY <1>1, <1>9 DEF FirstProcess, Serving, Restart, ReplayStep, ReplayRedo,
                          ReplayCommit, RecoverDone
    <2>2. Len(wal') = 0
        <3>1. CASE Restart
            BY <1>0, <2>1, <3>1, PrefixFacts DEF Restart, TypeOK
        <3>2. CASE ReplayStep
            BY <2>1, <3>2 DEF ReplayStep, ReplayRedo, ReplayCommit, RecoverDone,
                              fileVars
        <3> QED
            BY <1>9, <3>1, <3>2
    <2> QED
        BY <2>2 DEF CommitsSynced
<1>10. CASE UNCHANGED vars
    BY <1>3, <1>10 DEF vars, fileVars, commitVars
<1> QED
    BY <1>0, <1>1, <1>4, <1>5, <1>6, <1>7, <1>8, <1>9, <1>10, StepKinds

LEMMA EngineInvariant ==
    ASSUME SingleCaller, CleanRestarts
    PROVE  Spec => []EngineInv
<1>1. Init => GetsUnwritten /\ CommitsSynced
    BY DEF Init, GetsUnwritten, CommitsSynced, Closed
<1>2. /\ TypeInv /\ TypeInv' /\ CleanInv /\ GetsUnwritten /\ CommitsSynced
      /\ [Next]_vars
      => GetsUnwritten' /\ CommitsSynced'
    BY CleanFacts, NextGetsUnwritten, NextCommitsSynced DEF CleanInv, IdInv
<1> QED
    BY <1>1, <1>2, SnapInvariant, PTL DEF Spec, EngineInv

-----------------------------------------------------------------------------
\* What a step adds to the commits

\* What happened stays: no crash that may still come takes its COMMIT.
LEMMA HappenedStays ==
    ASSUME CleanRestarts, EngineInv, EngineInv', [Next]_vars, NEW t \in Txn,
           Happened(t)
    PROVE  Happened(t)' /\ Same(t)
<1>0. /\ TypeInv /\ TypeOK /\ TypeInv' /\ DurabilityInv /\ LogInv /\ IdInv
      /\ RecordsKnown /\ RecordsKnown' /\ CommitterAlone /\ TornLast
      /\ CommitsSynced /\ NoErrors /\ WholeWrites
    BY CleanFacts DEF EngineInv, TypeInv, CleanInv, LogInv, SnapInv
<1>1. CommitLogged(t) /\ (stage = "sync" => t # committer)
    BY <1>0, HappenedMeans
<1>2. Same(t)
    BY <1>0, <1>1, LoggedWriterKept DEF WriterKept
<1>3. PICK i \in 1 .. Len(wal) : wal[i] = CommitRecord(t)
    BY <1>1 DEF CommitLogged
<1>4. wal[i].type = "COMMIT" /\ wal[i].writer = t
    BY <1>3 DEF CommitRecord
<1>5. Stays(i)
    <2>1. incidents \in Nat
        BY <1>0 DEF TypeOK
    <2> QED
        BY <1>0, <1>1, <1>4, <2>1 DEF CommitsSynced, Stays
<1>6. i \in 1 .. Len(wal') /\ wal'[i] = wal[i]
    BY <1>0, <1>4, <1>5, StaysKept
<1>7. CommitLogged(t)'
    <2>1. CommitRecord(t)' = CommitRecord(t)
        BY <1>2, SameFacts
    <2> QED
        BY <1>3, <1>6, <2>1 DEF CommitLogged
<1>8. stage' = "sync" => t # committer'
    <2>1. CASE AppendCommit
        <3>1. stage = "redo" /\ committer' = committer
            BY <1>0, <2>1, AppendCommitFacts
        <3>2. t # committer
            BY <1>0, <1>4, <3>1 DEF CommitterAlone, Redo
        <3> QED
            BY <3>1, <3>2
    <2>2. CASE UNCHANGED <<stage, committer>>
        BY <1>1, <2>2
    <2> QED
        BY <1>0, <2>1, <2>2, StageFacts
<1>9. Happened(t)' <=> CommitLogged(t)' /\ (stage' = "sync" => t # committer')
    BY <1>0, HappenedMeansNext
<1> QED
    BY <1>2, <1>7, <1>8, <1>9

\* Only one commit can become one that happened, when it has synced or when
\* its process ends.
LEMMA HappenedSince ==
    ASSUME CleanRestarts, EngineInv, EngineInv', [Next]_vars, NEW t \in Txn,
           Happened(t)', ~ Happened(t)
    PROVE  /\ stage = "sync" /\ t = committer /\ Same(t)
           /\ stage' = "sync" => committer' # committer
<1>0. /\ TypeInv /\ TypeOK /\ TypeInv' /\ RecordsKnown /\ RecordsKnown'
      /\ NoErrors /\ WholeWrites
    BY CleanFacts DEF EngineInv, TypeInv, CleanInv, LogInv
<1>1. CommitLogged(t)' /\ (stage' = "sync" => t # committer')
    BY <1>0, HappenedMeansNext
<1>2. CommitLogged(t)
    <2>1. CASE AppendCommit /\ t = committer
        BY <1>0, <1>1, <2>1, AppendCommitFacts
    <2> QED
        BY <1>0, <1>1, <2>1, LoggedBefore
<1>3. stage = "sync" /\ t = committer
    BY <1>0, <1>2, HappenedMeans
<1>4. Same(t)
    BY <1>0, <1>2, LoggedWriterKept DEF WriterKept
<1> QED
    BY <1>1, <1>3, <1>4

LEMMA CommitsKept ==
    ASSUME CleanRestarts, EngineInv, EngineInv', [Next]_vars,
           \A t \in Txn : Happened(t)' => Happened(t)
    PROVE  StoreCommits' = StoreCommits
<1>1. PICK n \in Nat : Numbered(n)
    BY InvNumbers DEF AllNumbered
<1>2. PICK m \in Nat : Numbered(m)'
    BY InvNumbersNext DEF AllNumbered
<1>3. \A t \in Txn : /\ Happened(t)' <=> Happened(t)
                     /\ Happened(t) => commit_ts'[t] = commit_ts[t]
                                       /\ write_set'[t] = write_set[t]
    BY HappenedStays DEF Same
<1>4. \A i \in 1 .. n : i \in 1 .. m /\ StoreCommits'[i] = StoreCommits[i]
    <2> SUFFICES ASSUME NEW i \in 1 .. n
                 PROVE  i \in 1 .. m /\ StoreCommits'[i] = StoreCommits[i]
        OBVIOUS
    <2>1. PICK t \in Txn : Happened(t) /\ commit_ts[t] = i
        BY <1>1 DEF Numbered
    <2>2. StoreCommits[i] = [writer |-> t, writes |-> write_set[t]]
        BY <1>1, <2>1 DEF Numbered
    <2>3. /\ i \in 1 .. m
          /\ StoreCommits'[i] = [writer |-> t, writes |-> write_set'[t]]
        BY <1>2, <1>3, <2>1 DEF Numbered
    <2> QED
        BY <1>3, <2>1, <2>2, <2>3
<1>5. \A i \in 1 .. m : i \in 1 .. n
    <2> SUFFICES ASSUME NEW i \in 1 .. m
                 PROVE  i \in 1 .. n
        OBVIOUS
    <2>1. PICK t \in Txn : Happened(t)' /\ commit_ts'[t] = i
        BY <1>2 DEF Numbered
    <2> QED
        BY <1>1, <1>3, <2>1 DEF Numbered
<1>6. n = m
    <2>1. CASE n < m
        BY <1>5, <2>1, m \in 1 .. m
    <2>2. CASE m < n
        BY <1>4, <2>2, n \in 1 .. n
    <2> QED
        BY <2>1, <2>2
<1>7. /\ StoreCommits \in Seq([writer : Txn, writes : [Key -> Ops]])
      /\ StoreCommits' \in Seq([writer : Txn, writes : [Key -> Ops]])
      /\ Len(StoreCommits) = n /\ Len(StoreCommits') = m
    BY <1>1, <1>2 DEF Numbered
<1> QED
    BY <1>4, <1>6, <1>7, SeqEqual

\* The commit that is about to sync becomes the next one.
LEMMA CommitAppended ==
    ASSUME CleanRestarts, EngineInv, EngineInv', [Next]_vars,
           NEW c \in Txn, c = committer, stage = "sync", Happened(c)'
    PROVE  StoreCommits'
             = Append(StoreCommits, [writer |-> c, writes |-> write_set[c]])
<1>0. TypeInv /\ TypeOK /\ OrderInv /\ RecordsKnown
    BY DEF EngineInv, TypeInv, CleanInv, LogInv
<1>1. PICK n \in Nat : Numbered(n)
    BY InvNumbers DEF AllNumbered
<1>2. PICK m \in Nat : Numbered(m)'
    BY InvNumbersNext DEF AllNumbered
<1>3. CommitLogged(c) /\ ~ Happened(c)
    BY <1>0, SyncIsLast, HappenedMeans
<1>4. \A t \in Txn :
          /\ Happened(t)' <=> Happened(t) \/ t = c
          /\ Happened(t) \/ t = c => commit_ts'[t] = commit_ts[t]
                                     /\ write_set'[t] = write_set[t]
    BY <1>3, HappenedStays, HappenedSince DEF Same
<1>5. commit_ts[c] = n + 1
    <2>1. commit_ts[c] \in Nat /\ commit_ts[c] > 0
        BY <1>3, CommitBefore
    <2>2. ~ (commit_ts[c] <= n)
        <3> SUFFICES ASSUME commit_ts[c] \in 1 .. n
                     PROVE  FALSE
            BY <2>1
        <3>1. PICK t \in Txn : Happened(t) /\ commit_ts[t] = commit_ts[c]
            BY <1>1 DEF Numbered
        <3>2. CommitLogged(t)
            BY <1>0, <3>1, HappenedMeans
        <3> QED
            BY <1>0, <1>3, <3>1, <3>2, CommitsApart
    <2>3. ASSUME NEW u \in Txn, CommitLogged(u), commit_ts[u] + 1 = commit_ts[c]
          PROVE  commit_ts[c] <= n + 1
        <3>1. commit_ts[u] \in Nat
            BY <1>0, CommitTypes
        <3>2. u # c
            BY <2>1, <2>3
        <3>3. Happened(u)
            BY <1>0, <2>3, <3>2, HappenedMeans
        <3>4. commit_ts[u] \in 1 .. n
            BY <1>1, <3>3 DEF Numbered
        <3> QED
            BY <2>3, <3>1, <3>4
    <2>4. commit_ts[c] = 1 \/ commit_ts[c] <= n + 1
        BY <1>3, <2>3, CommitBefore
    <2> QED
        BY <2>1, <2>2, <2>4
<1>6. m = n + 1
    <2>1. n + 1 \in 1 .. m
        <3>1. Happened(c)' /\ commit_ts'[c] = n + 1
            BY <1>4, <1>5
        <3>2. commit_ts'[c] \in 1 .. m
            BY <1>2, <3>1 DEF Numbered
        <3> QED
            BY <3>1, <3>2
    <2>2. PICK t \in Txn : Happened(t)' /\ commit_ts'[t] = m
        BY <1>2, <2>1, m \in 1 .. m DEF Numbered
    <2>3. m \in 1 .. n \/ m = n + 1
        BY <1>1, <1>4, <1>5, <2>2 DEF Numbered
    <2> QED
        BY <2>1, <2>3
<1> DEFINE e == [writer |-> c, writes |-> write_set[c]]
           S == [writer : Txn, writes : [Key -> Ops]]
<1>7. /\ StoreCommits \in Seq(S) /\ Len(StoreCommits) = n
      /\ StoreCommits' \in Seq(S) /\ Len(StoreCommits') = n + 1
      /\ e \in S
    <2>1. e \in S
        BY <1>0 DEF TypeOK
    <2> QED
        BY <1>1, <1>2, <1>6, <2>1 DEF Numbered
<1>8. ASSUME NEW i \in 1 .. n
      PROVE  StoreCommits'[i] = StoreCommits[i]
    <2>1. PICK t \in Txn : Happened(t) /\ commit_ts[t] = i
        BY <1>1 DEF Numbered
    <2>2. StoreCommits[i] = [writer |-> t, writes |-> write_set[t]]
        BY <1>1, <2>1 DEF Numbered
    <2>3. StoreCommits'[i] = [writer |-> t, writes |-> write_set'[t]]
        BY <1>2, <1>4, <2>1 DEF Numbered
    <2> QED
        BY <1>4, <2>1, <2>2, <2>3
<1>9. StoreCommits'[n + 1] = e
    <2>1. StoreCommits'[commit_ts'[c]] = [writer |-> c, writes |-> write_set'[c]]
        BY <1>2 DEF Numbered
    <2> QED
        BY <1>4, <1>5, <2>1
<1> HIDE DEF e, S
<1>10. /\ Append(StoreCommits, e) \in Seq(S)
       /\ Len(Append(StoreCommits, e)) = n + 1
       /\ \A i \in 1 .. n : Append(StoreCommits, e)[i] = StoreCommits[i]
       /\ Append(StoreCommits, e)[n + 1] = e
    BY <1>7, AppendFacts
<1>11. \A i \in 1 .. n + 1 : StoreCommits'[i] = Append(StoreCommits, e)[i]
    BY <1>8, <1>9, <1>10
<1> QED
    BY <1>7, <1>10, <1>11, SeqEqual DEF e

-----------------------------------------------------------------------------
\* What the store's operators say of the engine

LEMMA EntryOf ==
    ASSUME NEW n \in Nat, Numbered(n), NEW t \in Txn, Happened(t)
    PROVE  /\ commit_ts[t] \in 1 .. n
           /\ StoreCommits[commit_ts[t]].writer = t
           /\ StoreCommits[commit_ts[t]].writes = write_set[t]
<1>1. /\ commit_ts[t] \in 1 .. n
      /\ StoreCommits[commit_ts[t]] = [writer |-> t, writes |-> write_set[t]]
    BY DEF Numbered
<1> QED
    BY <1>1

LEMMA HasCommittedMeans ==
    ASSUME EngineInv, NEW t \in Txn
    PROVE  Store!HasCommitted(t) <=> Happened(t)
<1>1. PICK n \in Nat : Numbered(n)
    BY InvNumbers DEF AllNumbered
<1>2. Len(StoreCommits) = n
    BY <1>1 DEF Numbered
<1>3. ASSUME Happened(t)
      PROVE  Store!HasCommitted(t)
    <2>1. /\ commit_ts[t] \in 1 .. n
          /\ StoreCommits[commit_ts[t]].writer = t
        BY <1>1, <1>3, EntryOf
    <2> QED
        BY <1>2, <2>1 DEF Store!HasCommitted
<1>4. ASSUME NEW i \in 1 .. n, StoreCommits[i].writer = t
      PROVE  Happened(t)
    <2>1. PICK u \in Txn : Happened(u) /\ commit_ts[u] = i
        BY <1>1 DEF Numbered
    <2>2. StoreCommits[i].writer = u
        BY <1>1, <2>1, EntryOf
    <2> QED
        BY <1>4, <2>1, <2>2
<1> QED
    BY <1>2, <1>3, <1>4 DEF Store!HasCommitted

\* next_ts is the number of the next commit, when none is in progress.
LEMMA NextNumber ==
    ASSUME EngineInv, stage = "idle", NEW n \in Nat, Numbered(n)
    PROVE  next_ts = n + 1
<1>0. /\ TypeInv /\ TypeOK /\ RecordsKnown /\ LogWhole /\ TurnFollows
      /\ CountersPast /\ next_ts \in Nat /\ next_ts > 0
    BY CommitTypes
    DEF EngineInv, TypeInv, CleanInv, LogInv, DurabilityInv, CatalogInv, OrderInv
<1>1. \A t \in Txn : Happened(t) <=> CommitLogged(t)
    BY <1>0, HappenedMeans
<1>2. n < next_ts
    <2>1. CASE n = 0
        BY <1>0, <2>1
    <2>2. CASE n > 0
        <3>1. PICK t \in Txn : Happened(t) /\ commit_ts[t] = n
            BY <2>2, n \in 1 .. n DEF Numbered
        <3>2. PICK i \in 1 .. Len(wal) : wal[i] = CommitRecord(t)
            BY <1>1, <3>1 DEF CommitLogged
        <3>3. wal[i].type = "COMMIT" /\ wal[i].commit_ts = n
            BY <3>1, <3>2 DEF CommitRecord
        <3> QED
            BY <1>0, <3>3 DEF CountersPast
    <2> QED
        BY <2>1, <2>2
<1>3. next_ts <= n + 1
    <2>1. Whole(Len(wal)) /\ Turn = next_ts
        BY <1>0 DEF LogWhole, Whole, Turn
    <2>2. \/ next_ts = 1
          \/ \E i \in 1 .. Len(wal) : /\ wal[i].type = "COMMIT"
                                      /\ wal[i].commit_ts + 1 = next_ts
        BY <1>0, <2>1 DEF TurnFollows
    <2>3. ASSUME NEW i \in 1 .. Len(wal), wal[i].type = "COMMIT",
                 wal[i].commit_ts + 1 = next_ts
          PROVE  next_ts <= n + 1
        <3>1. PICK t \in Txn : CommitLogged(t) /\ wal[i].commit_ts = commit_ts[t]
            BY <1>0, <2>3, CommitOf
        <3>2. commit_ts[t] \in 1 .. n
            BY <1>1, <3>1 DEF Numbered
        <3> QED
            BY <2>3, <3>1, <3>2
    <2> QED
        BY <2>2, <2>3
<1> QED
    BY <1>0, <1>2, <1>3

\* Who wrote k up to a timestamp, by the log and by the store.
LEMMA WritersAre ==
    ASSUME EngineInv, NEW n \in Nat, Numbered(n), NEW ts \in Nat, ts <= n,
           NEW k \in Key
    PROVE  /\ \A i \in Store!WritersOf(k, ts) : \E t \in Txn :
                /\ Happened(t) /\ commit_ts[t] = i /\ i \in 1 .. ts
                /\ k \in Written(t)
           /\ \A t \in Txn : /\ Happened(t) /\ k \in Written(t)
                             /\ commit_ts[t] <= ts
                             => commit_ts[t] \in Store!WritersOf(k, ts)
<1>1. ASSUME NEW i \in Store!WritersOf(k, ts)
      PROVE  \E t \in Txn :
                /\ Happened(t) /\ commit_ts[t] = i /\ i \in 1 .. ts
                /\ k \in Written(t)
    <2>1. i \in 1 .. ts /\ i \in 1 .. n /\ StoreCommits[i].writes[k] # "none"
        BY DEF Store!WritersOf
    <2>2. PICK t \in Txn : Happened(t) /\ commit_ts[t] = i
        BY <2>1 DEF Numbered
    <2>3. StoreCommits[i].writes = write_set[t]
        BY <2>2, EntryOf
    <2>4. k \in Written(t)
        BY <2>1, <2>3 DEF Written
    <2> QED
        BY <2>1, <2>2, <2>4
<1>2. ASSUME NEW t \in Txn, Happened(t), k \in Written(t), commit_ts[t] <= ts
      PROVE  commit_ts[t] \in Store!WritersOf(k, ts)
    <2>1. /\ commit_ts[t] \in 1 .. ts
          /\ StoreCommits[commit_ts[t]].writes = write_set[t]
        BY <1>2, EntryOf
    <2>2. write_set[t][k] # "none"
        BY <1>2 DEF Written
    <2> QED
        BY <2>1, <2>2 DEF Store!WritersOf
<1> QED
    BY <1>1, <1>2

\* What a snapshot has of a key, by the log, is its value in the store.
LEMMA ValueMeans ==
    ASSUME EngineInv, stage # "sync", NEW n \in Nat, Numbered(n),
           NEW ts \in Nat, ts <= n, NEW k \in Key, NEW v, IsValue(k, ts, v)
    PROVE  v = Store!Value(k, ts)
<1>0. /\ TypeInv /\ TypeOK /\ RecordsKnown
      /\ \A t \in Txn : commit_ts[t] \in Nat
    BY CommitTypes DEF EngineInv, TypeInv, CleanInv, LogInv
<1> DEFINE found == Store!WritersOf(k, ts)
           newest == CHOOSE i \in found : \A j \in found : j <= i
<1>1. \A t \in Txn : t \in CommittedTo(k, ts) <=>
          Happened(t) /\ k \in Written(t) /\ commit_ts[t] <= ts
    BY <1>0, HappenedMeans DEF CommittedTo
<1>2. \A i \in found : \E t \in CommittedTo(k, ts) : commit_ts[t] = i
    <2> SUFFICES ASSUME NEW i \in found
                 PROVE  \E t \in CommittedTo(k, ts) : commit_ts[t] = i
        OBVIOUS
    <2>1. PICK t \in Txn : /\ Happened(t) /\ commit_ts[t] = i
                           /\ i \in 1 .. ts /\ k \in Written(t)
        BY WritersAre
    <2> QED
        BY <1>1, <2>1
<1>3. \A t \in CommittedTo(k, ts) : commit_ts[t] \in found
    BY <1>1, WritersAre DEF CommittedTo
<1>4. Store!Value(k, ts) =
          IF found = {} \/ StoreCommits[newest].writes[k] = "del"
          THEN None ELSE StoreCommits[newest].writer
    BY DEF Store!Value
<1>5. CASE CommittedTo(k, ts) = {} /\ v = None
    <2>1. found = {}
        BY <1>2, <1>5
    <2> QED
        BY <1>4, <1>5, <2>1
<1>6. ASSUME NEW u \in CommittedTo(k, ts),
             \A w \in CommittedTo(k, ts) : commit_ts[w] <= commit_ts[u],
             v = IF write_set[u][k] = "del" THEN None ELSE u
      PROVE  v = Store!Value(k, ts)
    <2>1. u \in Txn /\ Happened(u)
        BY <1>1 DEF CommittedTo
    <2>2. PICK i \in found : i = commit_ts[u]
        BY <1>3
    <2>3. \A j \in found : j \in Nat /\ j <= i
        <3> SUFFICES ASSUME NEW j \in found
                     PROVE  j \in Nat /\ j <= i
            OBVIOUS
        <3>1. PICK t \in CommittedTo(k, ts) : commit_ts[t] = j
            BY <1>2
        <3>2. t \in Txn
            BY DEF CommittedTo
        <3> QED
            BY <1>0, <1>6, <2>2, <3>1, <3>2
    <2> HIDE DEF found
    <2>4. newest \in found /\ \A j \in found : j <= newest
        BY <2>2, <2>3
    <2>5. newest = i
        <3> HIDE DEF newest
        <3> QED
            BY <2>2, <2>3, <2>4
    <2>6. /\ StoreCommits[newest].writer = u
          /\ StoreCommits[newest].writes = write_set[u]
        BY <2>1, <2>2, <2>5, EntryOf
    <2>7. found # {}
        BY <2>2
    <2> HIDE DEF newest
    <2> QED
        BY <1>4, <1>6, <2>6, <2>7
<1> QED
    BY <1>5, <1>6 DEF IsValue

\* The conflict check of commit() is the store's, also when a crash comes
\* before the record has synced.
LEMMA SyncIsFirst ==
    ASSUME EngineInv, stage = "sync"
    PROVE  Store!FirstCommitter(committer)
<1>0. /\ TypeInv /\ TypeOK /\ RecordsKnown /\ CommitProgress /\ CommitterWrites
      /\ CommitterWins /\ Acknowledged /\ LostReplayed /\ StartsBehind
      /\ Serving
    BY DEF EngineInv, TypeInv, CleanInv, LogInv, DurabilityInv, WinInv, VisInv,
           SnapInv, Serving
<1>1. PICK c \in Txn : c = committer
    BY <1>0 DEF TypeOK
<1>2. PICK n \in Nat : Numbered(n)
    BY InvNumbers DEF AllNumbered
<1>3. state[c] = "ACTIVE" /\ Written(c) # {}
    BY <1>0, <1>1 DEF CommitProgress, CommitterWrites
<1>4. ~ Store!HasCommitted(c)
    BY <1>0, <1>1, HappenedMeans, HasCommittedMeans
<1>5. start_ts[c] \in Nat /\ start_ts[c] <= n
    <2>1. start_ts[c] < commit_ts[c]
        BY <1>0, <1>1, <1>3 DEF StartsBehind, Settled
    <2>2. start_ts[c] \in Nat /\ commit_ts[c] \in Nat
        BY <1>0, CommitTypes
    <2>3. commit_ts[c] <= n + 1
        <3>1. CommitLogged(c)
            BY <1>1, SyncIsLast
        <3>2. commit_ts[c] = 1 \/ \E u \in Txn : /\ CommitLogged(u)
                                                 /\ commit_ts[u] + 1 = commit_ts[c]
            BY <3>1, CommitBefore
        <3>3. ASSUME NEW u \in Txn, CommitLogged(u),
                     commit_ts[u] + 1 = commit_ts[c]
              PROVE  commit_ts[c] <= n + 1
            <4>1. commit_ts[u] \in Nat
                BY <1>0, CommitTypes
            <4>2. u # c
                BY <2>2, <3>3
            <4>3. Happened(u)
                BY <1>0, <1>1, <3>3, <4>2, HappenedMeans
            <4>4. commit_ts[u] \in 1 .. n
                BY <1>2, <4>3, EntryOf
            <4> QED
                BY <3>3, <4>1, <4>4
        <3> QED
            BY <3>2, <3>3
    <2> QED
        BY <2>1, <2>2, <2>3
<1>6. ASSUME NEW k \in Written(c)
      PROVE  Store!WritersOf(k, n) = Store!WritersOf(k, start_ts[c])
    <2>0. k \in Key
        BY DEF Written
    <2>1. ASSUME NEW i \in Store!WritersOf(k, n)
          PROVE  i \in Store!WritersOf(k, start_ts[c])
        <3>1. PICK t \in Txn : /\ Happened(t) /\ commit_ts[t] = i
                               /\ k \in Written(t)
            BY <1>2, <2>0, <2>1, WritersAre, n <= n
        <3>2. CommitLogged(t) /\ t # c
            BY <1>0, <1>1, <3>1, HappenedMeans
        <3>3. state[t] \in {"COMMITTED", "LOST"}
            <4>1. PICK j \in 1 .. Len(wal) : wal[j] = CommitRecord(t)
                BY <3>2 DEF CommitLogged
            <4>2. wal[j].type = "COMMIT" /\ wal[j].writer = t
                BY <4>1 DEF CommitRecord
            <4> QED
                BY <1>0, <1>1, <3>2, <4>2 DEF RecordsKnown
        <3>4. InCatalog(RedoRecord(t, k))
            <4>1. CASE state[t] = "COMMITTED"
                BY <1>0, <3>1, <4>1 DEF Acknowledged
            <4>2. CASE state[t] = "LOST"
                BY <1>0, <3>1, <3>2, <4>2 DEF LostReplayed
            <4> QED
                BY <3>3, <4>1, <4>2
        <3>5. /\ RedoRecord(t, k).key = k
              /\ RedoRecord(t, k).commit_ts = commit_ts[t]
            BY DEF RedoRecord
        <3>6. PICK j \in 1 .. Len(catalog[k]) :
                  catalog[k][j].begin_ts = commit_ts[t]
            BY <3>4, <3>5 DEF InCatalog
        <3>7. commit_ts[t] <= start_ts[c]
            BY <1>0, <1>1, <3>6 DEF CommitterWins
        <3> QED
            BY <1>2, <1>5, <2>0, <3>1, <3>7, WritersAre
    <2>2. Store!WritersOf(k, start_ts[c]) \subseteq Store!WritersOf(k, n)
        BY <1>5 DEF Store!WritersOf
    <2> QED
        BY <2>1, <2>2
<1>7. Len(StoreCommits) = n /\ Store!Touched(c) = Written(c)
    BY <1>2 DEF Numbered, Store!Touched, Written
<1> QED
    BY <1>1, <1>3, <1>4, <1>6, <1>7 DEF Store!FirstCommitter

-----------------------------------------------------------------------------
\* Every step is one of the store

LEMMA QuietCommits ==
    ASSUME CleanRestarts, EngineInv, EngineInv', [Next]_vars,
           stage = "sync" => stage' = "sync" /\ committer' = committer
    PROVE  StoreCommits' = StoreCommits
    BY HappenedSince, CommitsKept

\* A get returns the value of its key in the snapshot.
LEMMA GetImplements ==
    ASSUME EngineInv, NEW t \in Txn, GetWalk(t), UNCHANGED StoreCommits
    PROVE  \E k \in Key : Store!Read(t, k)
<1>0. /\ TypeInv /\ TypeOK /\ CursorOK /\ DurabilityInv /\ OrderInv /\ CatalogInv
      /\ CleanInv /\ OneReader /\ StartsBehind /\ StartedBefore /\ StartsKnown
    BY DEF EngineInv, TypeInv, SnapInv
<1>1. PICK k \in Key : k = cursor[t].key
    BY <1>0 DEF CursorOK, GetWalk
<1>2. /\ stage = "idle" /\ state[t] = "ACTIVE" /\ cursor[t].n = Len(catalog[k])
    BY <1>0, <1>1 DEF GetWalk, OneReader
<1>3. Serving /\ Settled(t)
    BY <1>2 DEF Serving, Settled
<1>4. write_set[t][k] = "none"
    BY <1>1 DEF EngineInv, GetsUnwritten, GetWalk
<1>5. PICK n \in Nat : Numbered(n)
    BY InvNumbers DEF AllNumbered
<1>6. PICK ts \in Nat : ts = start_ts[t]
    BY <1>0 DEF TypeOK
<1>7. ts <= n
    <2>1. ts < next_ts
        BY <1>0, <1>3, <1>6, SnapshotsBehind
    <2> QED
        BY <1>2, <1>5, <2>1, NextNumber
<1>8. IsValue(k, ts, Read(k, ts))
    BY <1>0, <1>3, <1>6, ReadIsValue
<1>9. Read(k, ts) = Store!Value(k, ts)
    BY <1>2, <1>5, <1>7, <1>8, ValueMeans
<1>10. observed' = [observed EXCEPT ![t][k] = @ \cup {Read(k, ts)}]
    BY <1>1, <1>2, <1>6 DEF GetWalk, Read
<1>11. UNCHANGED <<start_ts, state, write_set>>
    BY DEF GetWalk, txnVars
<1> QED
    BY <1>2, <1>4, <1>6, <1>9, <1>10, <1>11 DEF Store!Read

LEMMA CallImplements ==
    ASSUME SingleCaller, CleanRestarts, EngineInv, EngineInv', [Next]_vars,
           NEW t \in Txn, Call(t)
    PROVE  [Store!Next]_(Store!vars)
<1>0. TypeInv /\ TypeOK /\ RecordsKnown
    BY DEF EngineInv, TypeInv, CleanInv, LogInv
<1>1. UNCHANGED StoreCommits
    <2>1. stage = "sync" => stage' = "sync" /\ committer' = committer
        BY <1>0, CallFacts
    <2> QED
        BY <2>1, QuietCommits
<1>2. MayUse(t) => ~ Store!HasCommitted(t)
    <2> SUFFICES ASSUME MayUse(t), Store!HasCommitted(t)
                 PROVE  FALSE
        OBVIOUS
    <2>1. state[t] = "ACTIVE" /\ t # committer
        BY DEF MayUse, MayCall
    <2>2. CommitLogged(t)
        BY <1>0, HasCommittedMeans, HappenedMeans
    <2>3. PICK i \in 1 .. Len(wal) : wal[i] = CommitRecord(t)
        BY <2>2 DEF CommitLogged
    <2>4. wal[i].type = "COMMIT" /\ wal[i].writer = t
        BY <2>3 DEF CommitRecord
    <2> QED
        BY <1>0, <2>1, <2>4 DEF RecordsKnown
<1>3. CASE Begin(t)
    <2>1. stage = "idle" /\ start_ts' = [start_ts EXCEPT ![t] = next_ts - 1]
        BY <1>3 DEF Begin, MayCall, Snapshot
    <2>2. PICK n \in Nat : Numbered(n)
        BY InvNumbers DEF AllNumbered
    <2>3. next_ts - 1 = Len(StoreCommits)
        <3>1. next_ts = n + 1
            BY <2>1, <2>2, NextNumber
        <3>2. Len(StoreCommits) = n
            BY <2>2 DEF Numbered
        <3> QED
            BY <3>1, <3>2
    <2>4. Store!Begin(t)
        BY <1>1, <1>3, <2>1, <2>3 DEF Begin, Store!Begin, readVars
    <2> QED
        BY <2>4 DEF Store!Next
<1>4. ASSUME NEW k \in Key, Put(t, k)
      PROVE  Store!Next
    <2>1. Store!Write(t, k, "put")
        BY <1>1, <1>2, <1>4 DEF Put, MayUse, Store!Write, readVars
    <2> QED
        BY <2>1 DEF Store!Next
<1>5. ASSUME NEW k \in Key, Delete(t, k)
      PROVE  Store!Next
    <2>1. Store!Write(t, k, "del")
        BY <1>1, <1>2, <1>5 DEF Delete, MayUse, Store!Write, readVars
    <2> QED
        BY <2>1 DEF Store!Next
<1>6. CASE Abort(t) \/ CommitConflict(t)
    <2>1. Store!Abort(t)
        BY <1>1, <1>2, <1>6 DEF Abort, CommitConflict, MayCommit, MayUse,
                                NoWrites, Store!Abort, readVars
    <2> QED
        BY <2>1 DEF Store!Next
<1>7. CASE CommitReadOnly(t)
    <2>1. Store!Touched(t) = {}
        BY <1>7 DEF CommitReadOnly, Written, Store!Touched
    <2>2. Store!Acknowledge(t)
        BY <1>1, <1>7, <2>1 DEF CommitReadOnly, MayUse, Store!Acknowledge,
                                readVars
    <2> QED
        BY <2>2 DEF Store!Next
<1>8. CASE GetWalk(t)
    <2>1. \E k \in Key : Store!Read(t, k)
        BY <1>1, <1>8, GetImplements
    <2> QED
        BY <2>1 DEF Store!Next
<1>9. CASE CommitStart(t) \/ \E k \in Key : GetOpen(t, k)
    BY <1>1, <1>9 DEF CommitStart, GetOpen, txnVars, readVars, Store!vars
<1> QED
    BY <1>3, <1>4, <1>5, <1>6, <1>7, <1>8, <1>9 DEF Call

\* The commit happens with the sync; the caller hears of it once all of it is
\* installed.
LEMMA CommitImplements ==
    ASSUME CleanRestarts, EngineInv, EngineInv', [Next]_vars, CommitStep
    PROVE  [Store!Next]_(Store!vars)
<1>0. /\ TypeInv /\ TypeOK /\ RecordsKnown /\ CommitProgress /\ CommitterWrites
      /\ RecordsKnown' /\ TypeInv'
    BY DEF EngineInv, TypeInv, CleanInv, LogInv, DurabilityInv
<1>1. UNCHANGED <<start_ts, write_set, observed>>
    BY DEF CommitStep, AppendRedo, AppendCommit, SyncWal, Install, Ack, Return,
           txnVars, readVars
<1>2. CASE SyncWal
    <2>1. PICK c \in Txn : c = committer
        BY <1>0, <1>2 DEF SyncWal, TypeOK
    <2>2. /\ stage = "sync" /\ stage' = "install"
          /\ UNCHANGED <<wal, committer, txn_id, commit_ts, state>>
        BY <1>2 DEF SyncWal, txnVars
    <2>3. CommitLogged(c)'
        <3>1. CommitLogged(c)
            BY <2>1, <2>2, SyncIsLast
        <3> QED
            BY <2>2, <3>1 DEF CommitLogged, CommitRecord
    <2>4. Happened(c)'
        BY <1>0, <2>2, <2>3, HappenedMeansNext
    <2>5. StoreCommits' = Append(StoreCommits, Store!CommitBy(c))
        BY <2>1, <2>2, <2>4, CommitAppended DEF Store!CommitBy
    <2>6. Store!Commit(c)
        BY <1>1, <2>1, <2>2, <2>5, SyncIsFirst DEF Store!Commit
    <2> QED
        BY <2>6 DEF Store!Next
<1>3. CASE Ack
    <2>1. PICK c \in Txn : c = committer
        BY <1>0, <1>3 DEF Ack, TypeOK
    <2>2. stage = "install" /\ state[c] = "ACTIVE" /\ LoggedWithin(c, synced)
        BY <1>0, <1>3, <2>1 DEF Ack, CommitProgress
    <2>3. UNCHANGED StoreCommits
        BY <2>2, QuietCommits
    <2>4. Store!HasCommitted(c)
        <3>1. CommitLogged(c)
            BY <1>0, <2>2 DEF LoggedWithin, CommitLogged, TypeOK
        <3> QED
            BY <1>0, <2>2, <3>1, HappenedMeans, HasCommittedMeans
    <2>5. Store!Acknowledge(c)
        BY <1>1, <1>3, <2>1, <2>2, <2>3, <2>4 DEF Ack, Store!Acknowledge
    <2> QED
        BY <2>5 DEF Store!Next
<1>4. CASE ~ SyncWal /\ ~ Ack
    <2>1. stage # "sync" /\ UNCHANGED state
        BY <1>4 DEF CommitStep, AppendRedo, AppendCommit, Install, Return, txnVars
    <2>2. UNCHANGED StoreCommits
        BY <2>1, QuietCommits
    <2> QED
        BY <1>1, <2>1, <2>2 DEF Store!vars
<1> QED
    BY <1>2, <1>3, <1>4

\* However a process ends, what had happened has happened, and a commit whose
\* record is left in the log, too.
LEMMA CrashImplements ==
    ASSUME CleanRestarts, EngineInv, EngineInv', [Next]_vars, Ends
    PROVE  Store!Crash
<1>1. /\ state' = [t \in Txn |-> IF state[t] = "ACTIVE" THEN "LOST"
                                                        ELSE state[t]]
      /\ UNCHANGED <<start_ts, write_set, observed>>
    BY DEF Ends, Close, FaultPoint, Kill, PowerLoss, ProcessEnds
<1>2. CASE \A t \in Txn : Happened(t)' => Happened(t)
    <2>1. UNCHANGED StoreCommits
        BY <1>2, CommitsKept
    <2> QED
        BY <1>1, <2>1 DEF Store!Crash
<1>3. ASSUME NEW c \in Txn, Happened(c)', ~ Happened(c)
      PROVE  Store!Crash
    <2>1. stage = "sync" /\ c = committer
        BY <1>3, HappenedSince
    <2>2. StoreCommits' = Append(StoreCommits, Store!CommitBy(c))
        BY <1>3, <2>1, CommitAppended DEF Store!CommitBy
    <2>3. Store!FirstCommitter(c)
        BY <2>1, SyncIsFirst
    <2> QED
        BY <1>1, <2>2, <2>3 DEF Store!Crash
<1> QED
    BY <1>2, <1>3

\* Nobody sees a recovery.
LEMMA RecoveryImplements ==
    ASSUME CleanRestarts, EngineInv, EngineInv', [Next]_vars,
           Restart \/ ReplayStep \/ UNCHANGED vars
    PROVE  UNCHANGED Store!vars
<1>1. UNCHANGED <<start_ts, state, write_set, observed>>
    BY DEF Restart, ReplayStep, ReplayRedo, ReplayCommit, RecoverDone, vars,
           txnVars, readVars
<1>2. stage = "sync" => stage' = "sync" /\ committer' = committer
    BY DEF Restart, ReplayStep, ReplayRedo, ReplayCommit, RecoverDone, vars,
           commitVars
<1>3. UNCHANGED StoreCommits
    BY <1>2, QuietCommits
<1> QED
    BY <1>1, <1>3 DEF Store!vars

LEMMA NextImplements ==
    ASSUME SingleCaller, CleanRestarts, EngineInv, EngineInv', [Next]_vars
    PROVE  [Store!Next]_(Store!vars)
<1>1. NoErrors
    BY CleanFacts
<1>2. ASSUME NEW t \in Txn, Call(t)
      PROVE  [Store!Next]_(Store!vars)
    BY <1>2, CallImplements
<1>3. CASE CommitStep
    BY <1>3, CommitImplements
<1>4. CASE Ends
    <2>1. Store!Crash
        BY <1>4, CrashImplements
    <2> QED
        BY <2>1 DEF Store!Next
<1>5. CASE Restart \/ ReplayStep \/ UNCHANGED vars
    BY <1>5, RecoveryImplements
<1> QED
    BY <1>1, <1>2, <1>3, <1>4, <1>5, StepKinds DEF CommitStep

LEMMA InitImplements == Init => Store!Init
<1> SUFFICES ASSUME Init
             PROVE  Store!Init
    OBVIOUS
<1>1. Len(wal) = 0
    BY DEF Init
<1>2. \A t \in Txn : ~ Happened(t)
    BY <1>1 DEF Happened
<1>3. StoreCommits = << >>
    BY <1>2 DEF StoreCommits
<1> QED
    BY <1>3 DEF Init, NoWrites, Store!Init

(***************************************************************************)
(* Whatever one caller sees of the engine, in one process or over several, *)
(* it could have seen of a store with one sequence of commits that only    *)
(* grows: no crash at a fault point, and no single crash of any other      *)
(* kind, loses, reorders or tears a commit, or lets a transaction read     *)
(* anything but the commits before it began.  Neither hypothesis can be    *)
(* dropped: see the runs update_in_commit and ghost_redo.                  *)
(***************************************************************************)
THEOREM EngineImplementsStore ==
    ASSUME SingleCaller, CleanRestarts
    PROVE  Spec => ImplementsStore
<1>1. Init => Store!Init
    BY InitImplements
<1>2. EngineInv /\ EngineInv' /\ [Next]_vars => [Store!Next]_(Store!vars)
    BY NextImplements
<1> QED
    BY <1>1, <1>2, EngineInvariant, PTL DEF Spec, ImplementsStore, Store!Spec
=============================================================================
