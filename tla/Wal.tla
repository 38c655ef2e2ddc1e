--------------------------------- MODULE Wal ---------------------------------
(***************************************************************************)
(* The file wal.log byte by byte (wal.py): append, sync, the scan that     *)
(* truncates the file when it is opened, and the reading of what is left.  *)
(* Engine has the same file as a sequence of records, each whole or torn;  *)
(* RecordLog is that view, and WalProperties says that it is enough.       *)
(*                                                                         *)
(* Every append is a record of its own, known by its number.  A byte is    *)
(* the place it has in a record, or a zero that a power loss left where    *)
(* the data had not reached the disk.  Bytes of different records never    *)
(* make up a length or a CRC that fits: this is what the model assumes of  *)
(* CRC-32.                                                                 *)
(*                                                                         *)
(* The definitions no action uses (CheckedPayloadOnly, ...) are faulty     *)
(* variants of the definition that follows them: see README.md.            *)
(***************************************************************************)
EXTENDS Naturals, Sequences

CONSTANTS
    IntSize,        \* the size of an "I" of the header: 4 bytes in the code
    Lengths,        \* the lengths of the payloads callers append
    MaxRecords,     \* bound: appends, whole or not
    MaxIncidents    \* bound: short writes, kills, power losses

\* struct.calcsize("<IIB"): the length, the CRC, and one byte of type
HEADER_SIZE == IntSize + IntSize + 1

ASSUME WalAssumption ==
    /\ IntSize \in Nat \ {0}
    /\ Lengths \subseteq Nat
    /\ {MaxRecords, MaxIncidents} \subseteq Nat

VARIABLES
    \* wal.log, and how many of its bytes an fdatasync covers
    file, synced,
    \* the process: the scan of _recover_and_truncate, read_all, or neither;
    \* the position of the file descriptor; valid_lsn or current_lsn; what
    \* read_all has yielded
    stage, position, lsn, yielded,
    \* history: the LSN and the length of every record, and how many bytes
    \* of it were written; the records that were synced in a readable log;
    \* did an append of this process write short?
    appended, durable, broken,
    incidents

vars == <<file, synced, stage, position, lsn, yielded, appended, durable,
          broken, incidents>>

Byte(r, i) == [rec |-> r, pos |-> i]

Zero == Byte(0, 0)

\* Bytes i to j of record r.
BytesOf(r, i, j) == [n \in 1 .. (j + 1 - i) |-> Byte(r, i + n - 1)]

Zeros(n) == [i \in 1 .. n |-> Zero]

Size(r) == HEADER_SIZE + appended[r].length

Smaller(m, n) == IF m < n THEN m ELSE n

-----------------------------------------------------------------------------
\* Reading a record at offset o of the file

HasHeader(o) == o + HEADER_SIZE <= Len(file)

(***************************************************************************)
(* The length that the header at o states.  A length put together of       *)
(* different records is as large as the file: the payload it asks for      *)
(* would not pass the CRC, so it does not matter which.                    *)
(***************************************************************************)
PayloadLength(o) ==
    LET field == SubSeq(file, o + 1, o + IntSize)
        r     == field[1].rec
    IN  IF field = Zeros(IntSize) THEN 0
        ELSE IF field = BytesOf(r, 1, IntSize) THEN appended[r].length
        ELSE Len(file)

\* A CRC is known by the bytes it was computed of; that of no bytes is 0.
Garbage == <<Zero, Byte(0, 1)>>

StoredCrc(o) ==
    LET field == SubSeq(file, o + IntSize + 1, o + 2 * IntSize)
        r     == field[1].rec
    IN  IF field = Zeros(IntSize) THEN << >>
        ELSE IF field = BytesOf(r, IntSize + 1, 2 * IntSize) THEN BytesOf(r, HEADER_SIZE, Size(r))
        ELSE Garbage

CheckedPayloadOnly(o) ==
    SubSeq(file, o + HEADER_SIZE + 1, o + HEADER_SIZE + PayloadLength(o))

\* What the CRC is computed of: the type byte and the payload.
Checked(o) ==
    SubSeq(file, o + HEADER_SIZE, o + HEADER_SIZE + PayloadLength(o))

NextPosition(o) == o + HEADER_SIZE + PayloadLength(o)

ValidByLength(o) ==
    /\ HasHeader(o)
    /\ NextPosition(o) <= Len(file)

\* Is the next record whole?
Valid(o) ==
    /\ HasHeader(o)
    /\ NextPosition(o) <= Len(file)
    /\ StoredCrc(o) = Checked(o)

-----------------------------------------------------------------------------
Init ==
    /\ file = << >> /\ synced = 0
    /\ stage = "down" /\ position = 0 /\ lsn = 0 /\ yielded = << >>
    /\ appended = << >> /\ durable = {} /\ broken = FALSE
    /\ incidents = 0

Incident ==
    /\ incidents < MaxIncidents
    /\ incidents' = incidents + 1

\* os.write puts n bytes of a new record at the end of the file.
Write(len, n) ==
    LET r == Len(appended) + 1
    IN  /\ r <= MaxRecords
        /\ file' = file \o BytesOf(r, 1, n)
        /\ appended' = Append(appended, [lsn |-> Len(file), length |-> len,
                                         written |-> n])

\* WAL.append
WriteRecord(len) ==
    /\ stage = "open"
    /\ Write(len, HEADER_SIZE + len)
    /\ UNCHANGED <<synced, stage, position, lsn, yielded, durable, broken,
                   incidents>>

\* os.write writes less than it was given, and append does not notice.
ShortWrite(len, n) ==
    /\ stage = "open"
    /\ Incident
    /\ Write(len, n)
    /\ broken' = TRUE
    /\ UNCHANGED <<synced, stage, position, lsn, yielded, durable>>

\* Record r is in the file as it was appended.
IsWhole(r) ==
    /\ appended[r].lsn + Size(r) <= Len(file)
    /\ SubSeq(file, appended[r].lsn + 1, appended[r].lsn + Size(r))
          = BytesOf(r, 1, Size(r))

\* The records that a reader of whole records can reach.
Readable ==
    {r \in 1 .. Len(appended) :
        /\ IsWhole(r)
        /\ \A i \in 1 .. appended[r].lsn :
              file[i].rec # 0 /\ IsWhole(file[i].rec)}

\* WAL.sync
Sync ==
    /\ stage = "open"
    /\ synced' = Len(file)
    /\ durable' = durable \cup Readable
    /\ UNCHANGED <<file, stage, position, lsn, yielded, appended, broken,
                   incidents>>

-----------------------------------------------------------------------------
\* The end of a process, and of the machine

Dies == stage' = "down" /\ position' = 0 /\ lsn' = 0 /\ yielded' = << >>

\* WAL.close, or the process is killed between two calls.
Close ==
    /\ stage # "down"
    /\ Dies
    /\ UNCHANGED <<file, synced, appended, durable, broken, incidents>>

\* The process dies inside append (at the fault point, with half of the
\* record written).
KillInWrite(len, n) ==
    /\ stage = "open"
    /\ Incident
    /\ Write(len, n)
    /\ Dies
    /\ UNCHANGED <<synced, durable, broken>>

\* Of what no fdatasync covers a part is left, and zeros may follow it: the
\* file was longer, but the data had not reached the disk.
PowerLoss ==
    /\ Incident
    /\ Dies
    /\ \E m \in synced .. Len(file) : \E z \in 0 .. (Len(file) - m) :
          /\ file' = SubSeq(file, 1, m) \o Zeros(z)
          /\ synced' = m + z
    /\ UNCHANGED <<appended, durable, broken>>

-----------------------------------------------------------------------------
\* WAL.__init__, and read_all as Engine._recover uses it

Open ==
    /\ stage = "down"
    /\ stage' = "scan"
    /\ UNCHANGED <<file, synced, position, lsn, yielded, appended, durable,
                   broken, incidents>>

ScanRecordWithoutHeader ==
    /\ stage = "scan"
    /\ Valid(position)
    /\ position' = NextPosition(position)
    /\ lsn' = lsn + PayloadLength(position)
    /\ UNCHANGED <<file, synced, stage, yielded, appended, durable, broken,
                   incidents>>

\* _recover_and_truncate: one whole record
ScanRecord ==
    /\ stage = "scan"
    /\ Valid(position)
    /\ position' = NextPosition(position)
    /\ lsn' = lsn + HEADER_SIZE + PayloadLength(position)
    /\ UNCHANGED <<file, synced, stage, yielded, appended, durable, broken,
                   incidents>>

NoTruncate ==
    /\ stage = "scan"
    /\ ~ Valid(position)
    /\ stage' = "read" /\ position' = 0 /\ lsn' = 0
    /\ broken' = FALSE
    /\ UNCHANGED <<file, synced, yielded, appended, durable, incidents>>

\* _recover_and_truncate: the end of the file, or the first torn record
Truncate ==
    /\ stage = "scan"
    /\ ~ Valid(position)
    /\ file' = SubSeq(file, 1, lsn)
    /\ synced' = Smaller(synced, lsn)
    /\ stage' = "read" /\ position' = 0 /\ lsn' = 0
    /\ broken' = FALSE
    /\ UNCHANGED <<yielded, appended, durable, incidents>>

\* read_all yields a record, looking at neither its CRC nor its length.
ReadRecord ==
    /\ stage = "read"
    /\ HasHeader(position)
    /\ position' = Smaller(NextPosition(position), Len(file))
    /\ lsn' = lsn + HEADER_SIZE + PayloadLength(position)
    /\ yielded' = Append(yielded,
          [lsn |-> lsn, bytes |-> SubSeq(file, position + 1, position')])
    /\ UNCHANGED <<file, synced, stage, appended, durable, broken, incidents>>

AtEnd == stage = "read" /\ ~ HasHeader(position)

ReadDone ==
    /\ AtEnd
    /\ stage' = "open"
    /\ UNCHANGED <<file, synced, position, lsn, yielded, appended, durable,
                   broken, incidents>>

Next ==
    \/ \E len \in Lengths :
          \/ WriteRecord(len)
          \/ \E n \in 1 .. (HEADER_SIZE + len - 1) :
                ShortWrite(len, n) \/ KillInWrite(len, n)
    \/ Sync \/ Close \/ PowerLoss
    \/ Open \/ ScanRecord \/ Truncate \/ ReadRecord \/ ReadDone

Spec == Init /\ [][Next]_vars
=============================================================================
