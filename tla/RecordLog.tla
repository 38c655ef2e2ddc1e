------------------------------ MODULE RecordLog ------------------------------
(***************************************************************************)
(* The log as Engine has it: a sequence of records, each whole or torn, of *)
(* which the first "synced" are on the disk.  A process that starts cuts   *)
(* it at its first torn record.  (A power loss leaves Engine nothing from  *)
(* the first torn record on; here it may, and the restart cuts it off.)    *)
(***************************************************************************)
EXTENDS Naturals, SequencesExt

CONSTANTS
    Rec,    \* records
    Torn    \* what is left of one that was not written in full

VARIABLES wal, synced

vars == <<wal, synced>>

Init == wal = << >> /\ synced = 0

\* A new record at the end, or a part of one.
AppendRecord ==
    /\ wal' # << >> /\ Last(wal') \in Rec \cup {Torn}
    /\ Front(wal') = wal
    /\ UNCHANGED synced

Sync ==
    /\ synced' = Len(wal)
    /\ UNCHANGED wal

PowerLoss ==
    /\ synced' = Len(wal')
    /\ \E n \in synced .. Len(wal) :
          \/ wal' = SubSeq(wal, 1, n)
          \/ n < Len(wal) /\ wal' = Append(SubSeq(wal, 1, n), Torn)

\* The first n records are all that comes before the first torn one.
IsValidPrefix(n) ==
    /\ \A i \in 1 .. n : wal[i] # Torn
    /\ n < Len(wal) => wal[n + 1] = Torn

Restart ==
    \E n \in 0 .. Len(wal) :
        /\ wal' = SubSeq(wal, 1, n)
        /\ synced' = Min({synced, n})
        /\ IsValidPrefix(n)

Next == AppendRecord \/ Sync \/ PowerLoss \/ Restart

Spec == Init /\ [][Next]_vars
=============================================================================
