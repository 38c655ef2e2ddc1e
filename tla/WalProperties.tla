---------------------------- MODULE WalProperties ----------------------------
(***************************************************************************)
(* What wal.log is to be, and that Engine's view of it is enough.          *)
(***************************************************************************)
EXTENDS Wal, FiniteSetsExt

\* The variables have their types; the descriptor, valid_lsn and the LSN that
\* read_all counts stay in the file.
TypeOK ==
    /\ \A i \in 1 .. Len(file) :
          \/ file[i] = Zero
          \/ /\ file[i].rec \in 1 .. Len(appended)
             /\ file[i].pos \in 1 .. Size(file[i].rec)
    /\ synced \in 0 .. Len(file)
    /\ stage \in {"down", "scan", "read", "open"}
    /\ position \in 0 .. Len(file) /\ lsn \in 0 .. Len(file)
    /\ \A r \in 1 .. Len(appended) : appended[r].written \in 1 .. Size(r)
    /\ durable \subseteq 1 .. Len(appended)
    /\ broken \in BOOLEAN /\ incidents \in 0 .. MaxIncidents

(***************************************************************************)
(* read_all yields whole records, in the order they were appended and at   *)
(* the LSNs that append returned, and nothing that nobody appended, such   *)
(* as a record made of what a power loss left (WAL.read_all: "all valid    *)
(* records in the WAL").                                                   *)
(***************************************************************************)
ReadsWhatWasAppended ==
    \A n \in 1 .. Len(yielded) :
        \E r \in 1 .. Len(appended) :
            /\ yielded[n].lsn = appended[r].lsn
            /\ yielded[n].bytes = BytesOf(r, 1, Size(r))
            /\ n > 1 => yielded[n - 1].bytes[1].rec < r

\* A record that was synced, with no torn record before it, is read by every
\* later process, whatever was cut off behind it.
SyncedAreRead ==
    AtEnd => \A r \in durable :
                \E n \in 1 .. Len(yielded) :
                    yielded[n].bytes = BytesOf(r, 1, Size(r))

\* Nothing is left in the file that would hide what is appended next: but for
\* a short write of its own, all that a process has in its log can be read.
AppendsAreReadable ==
    stage = "open" /\ ~ broken =>
        {file[i].rec : i \in 1 .. Len(file)} \subseteq Readable

-----------------------------------------------------------------------------
\* A record is there from its first byte on.
Present(r) ==
    /\ appended[r].lsn < Len(file)
    /\ file[appended[r].lsn + 1] = Byte(r, 1)

Torn == 0

\* Of the first n records, those that are in the file, whole or torn.
RecordsTo(n) ==
    LET list[r \in 0 .. n] ==
          IF r = 0 THEN << >>
          ELSE IF Present(r) THEN Append(list[r - 1], IF IsWhole(r) THEN r ELSE Torn)
          ELSE list[r - 1]
    IN  list[n]

\* Zeros behind a whole record are a torn one.
TornZeros ==
    /\ file # << >> /\ file[Len(file)] = Zero
    /\ \A r \in 1 .. Len(appended) : Present(r) => IsWhole(r)

Records == RecordsTo(Len(appended)) \o (IF TornZeros THEN <<Torn>> ELSE << >>)

\* All that was written of r is in the file and covered by an fdatasync.
IsSynced(r) == Present(r) /\ appended[r].lsn + appended[r].written <= synced

LastSynced == Max({r \in 1 .. Len(appended) : IsSynced(r)} \cup {0})

SyncedRecords ==
    Len(IF synced = Len(file) THEN Records ELSE RecordsTo(LastSynced))

Log == INSTANCE RecordLog
          WITH Rec <- 1 .. MaxRecords, Torn <- Torn,
               wal <- Records, synced <- SyncedRecords

(***************************************************************************)
(* Whatever happens to the bytes of wal.log, the file is for Engine a      *)
(* sequence of whole and torn records, cut at the first torn one when a    *)
(* process opens it.                                                       *)
(***************************************************************************)
ImplementsRecordLog == Log!Spec
=============================================================================
