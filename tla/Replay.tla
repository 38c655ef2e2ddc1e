------------------------------- MODULE Replay -------------------------------
(***************************************************************************)
(* What the opening of an engine makes of a log (WAL.__init__ in wal.py,   *)
(* Engine._recover in engine.py), as operators on a sequence of records,   *)
(* for the modules in which an engine is one of several: Engine has the    *)
(* same recovery record by record.                                         *)
(*                                                                         *)
(* A record has the fields "type" ("put", "del", "commit"), "txn_id",      *)
(* "commit_ts", "key", "writer", which stands for the value, and "size",   *)
(* the bytes it takes.  Two other types are damage: "torn" is what is left *)
(* of a record that was cut, "zeros" what ftruncate made a file longer by. *)
(***************************************************************************)
EXTENDS Naturals, SequencesExt, Catalog

Record(type, id, ts, k, w, n) ==
    [type |-> type, txn_id |-> id, commit_ts |-> ts, key |-> k, writer |-> w,
     size |-> n]

Damage(type, n, none) == Record(type, 0, 0, none, none, n)

IsTorn(r) == r.type \in {"torn", "zeros"}

IsUntorn(log) == \A i \in 1 .. Len(log) : ~ IsTorn(log[i])

\* How many records there are before the first damage.
WholePrefix(log) ==
    Max({n \in 0 .. Len(log) : IsUntorn(SubSeq(log, 1, n))})

\* The bytes that the first n records take.
Total(log) ==
    LET end[n \in 0 .. Len(log)] == IF n = 0 THEN 0 ELSE end[n - 1] + log[n].size
    IN  end

(***************************************************************************)
(* os.ftruncate at offset v: the records that end there or before, and, as *)
(* the log need not be the one that v was read from, what is left of the   *)
(* next one, or zeros if it is shorter.                                    *)
(***************************************************************************)
CutAt(log, v, none) ==
    LET n    == Max({m \in 0 .. Len(log) : Total(log)[m] <= v})
        left == IF n = Len(log) \/ log[n + 1].type = "zeros" THEN "zeros" ELSE "torn"
    IN  IF Total(log)[n] = v THEN SubSeq(log, 1, n)
        ELSE Append(SubSeq(log, 1, n), Damage(left, v - Total(log)[n], none))

Rest(log) == SubSeq(log, WholePrefix(log) + 1, Len(log))

OnlyZeros(log) == \A i \in 1 .. Len(log) : log[i].type = "zeros"

(***************************************************************************)
(* read_all looks at no CRC.  It takes zeros for records of no type, which *)
(* _recover skips; but if anything else is left behind the first damage,   *)
(* it may begin to read anywhere, and find records that are there or bytes *)
(* that look like one.                                                     *)
(***************************************************************************)
ReadBehind(rest, garbage, most) ==
    IF OnlyZeros(rest) THEN {<< >>}
    ELSE SeqOf({r \in Range(rest) : ~ IsTorn(r)} \cup garbage, most)

Readings(log, garbage, most) ==
    {SubSeq(log, 1, WholePrefix(log)) \o read :
        read \in ReadBehind(Rest(log), garbage, most)}

CommitsOf(log, id) ==
    {i \in 1 .. Len(log) : log[i].type = "commit" /\ log[i].txn_id = id}

(***************************************************************************)
(* committed_txns: the ids that have a COMMIT record, each with the        *)
(* commit_ts of the last one.                                              *)
(***************************************************************************)
CommittedTxns(log) ==
    [id \in {log[i].txn_id : i \in {j \in 1 .. Len(log) :
                                        log[j].type = "commit"}}
        |-> log[Max(CommitsOf(log, id))].commit_ts]

\* r is a redo record of key k whose id pass 1 found.
IsReplayed(r, committed, k) ==
    r.type \in {"put", "del"} /\ r.key = k /\ r.txn_id \in DOMAIN committed

\* Pass 2 for one key: those records are installed in log order.
Replayed(log, committed, k) ==
    LET list[n \in 0 .. Len(log)] ==
          IF n = 0 THEN << >>
          ELSE IF IsReplayed(log[n], committed, k)
          THEN InstallVersion(list[n - 1],
                   NewVersion(log[n].commit_ts, log[n].writer, log[n].type = "del"))
          ELSE list[n - 1]
    IN  list[Len(log)]

PastAllOffByOne(numbers) == Max(numbers \cup {1})

\* A counter that has been moved past every number of a set.
PastAll(numbers) == Max(numbers \cup {0}) + 1
=============================================================================
