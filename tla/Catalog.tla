------------------------------ MODULE Catalog ------------------------------
(***************************************************************************)
(* The in-memory version catalog (catalog.py), as operators on one key's   *)
(* list of versions.  The catalog is volatile: it is rebuilt from the WAL  *)
(* on every start, so the module that owns the process, Engine, holds the  *)
(* lists and applies these operators to them.                              *)
(*                                                                         *)
(* A transaction is modelled as putting its own identity, so the field     *)
(* "writer" stands for a version's value, and a tombstone (whose value is  *)
(* None in the code) still says who wrote it.                              *)
(***************************************************************************)
EXTENDS Naturals, Sequences

\* @dataclass Version.  end_ts = 0: nobody has overwritten it yet.
NewVersion(ts, w, dead) ==
    [begin_ts |-> ts, end_ts |-> 0, writer |-> w, is_tombstone |-> dead]

NeverCloseOut(list, ts) == list

\* The list with its current version, if it has one, closed at ts.
CloseOut(list, ts) ==
    IF list # << >> /\ list[Len(list)].end_ts = 0
    THEN [list EXCEPT ![Len(list)].end_ts = ts]
    ELSE list

\* Catalog.install_version on the list of one key.
InstallVersion(list, version) ==
    Append(CloseOut(list, version.begin_ts), version)

VisibleIfOpen(version, ts) == version.end_ts = 0 \/ version.end_ts > ts

\* The visibility rule.
Visible(version, ts) ==
    /\ version.begin_ts <= ts
    /\ version.end_ts = 0 \/ version.end_ts > ts

(***************************************************************************)
(* The places, among the first n, of the versions that Catalog.get_visible *)
(* may return, and the newest of them, which it returns.  n is the length  *)
(* the list had when reversed(list) was evaluated.                         *)
(***************************************************************************)
VisibleAt(list, n, ts) == {i \in 1 .. n : Visible(list[i], ts)}

NewestOf(places) == CHOOSE i \in places : \A j \in places : j <= i

\* What Engine.get makes of get_visible's answer: a missing version and a
\* tombstone are both "not found".
ReadResult(list, n, ts, NotFound) ==
    LET places == VisibleAt(list, n, ts)
        found  == list[NewestOf(places)]
    IN  IF places = {} \/ found.is_tombstone THEN NotFound ELSE found.writer

GetFirstCommitTs(list) ==
    IF list = << >> THEN 0 ELSE list[1].begin_ts

\* Catalog.get_latest_commit_ts
GetLatestCommitTs(list) ==
    IF list = << >> THEN 0 ELSE list[Len(list)].begin_ts
=============================================================================
