-------------------------------- MODULE Page --------------------------------
(***************************************************************************)
(* The slotted page of heap.py: records grow from the header upwards, slot *)
(* entries from the end of the page downwards, and one array of bytes      *)
(* holds both.                                                             *)
(*                                                                         *)
(* A byte is modelled by what it is part of: byte number j of what change  *)
(* n wrote, a byte of a slot entry or of the header.  The bytes of one     *)
(* entry, or of one header, are alike here.  A page on its way to heap.db  *)
(* and back is image: HeapFile has no other memory of it.                  *)
(***************************************************************************)
EXTENDS Integers, Sequences

CONSTANTS
    PAGE_SIZE,      \* heap.PAGE_SIZE
    Lengths,        \* the lengths of the records callers write
    MaxChanges      \* bound: calls of insert and update_record

HEADER_SIZE == 20   \* struct.calcsize("<IIQHH")
SLOT_SIZE   == 4    \* struct.calcsize("<HH")

ASSUME PageAssumption ==
    /\ PAGE_SIZE \in Nat /\ PAGE_SIZE >= HEADER_SIZE
    /\ Lengths \subseteq Nat
    /\ MaxChanges \in Nat

VARIABLES
    data, slot_count, free_end,     \* the fields of the Page object
    image,                          \* what heap.db holds of it
    \* history: what get_record is to return for each slot of the object and
    \* of the image
    contents, saved,
    changes

vars == <<data, slot_count, free_end, image, contents, saved, changes>>

Byte == [part : {"zero", "header", "slot", "record"}, fst : Nat, snd : Nat]

Zero            == [part |-> "zero", fst |-> 0, snd |-> 0]
Header(s, e)    == [part |-> "header", fst |-> s, snd |-> e]
SlotEntry(o, l) == [part |-> "slot", fst |-> o, snd |-> l]
RecordByte(n, j) == [part |-> "record", fst |-> n, snd |-> j]

Offsets == 0 .. (PAGE_SIZE - 1)

\* struct.pack_into: size bytes of d from offset o on become b.
Pack(d, o, size, b) ==
    [c \in Offsets |-> IF o <= c /\ c < o + size THEN b ELSE d[c]]

\* The assignment of change n's record to a slice of d.
WriteRecord(d, o, len, n) ==
    [c \in Offsets |-> IF o <= c /\ c < o + len THEN RecordByte(n, c - o)
                                                ELSE d[c]]

-----------------------------------------------------------------------------
SlotPos(i) == PAGE_SIZE - (i + 1) * SLOT_SIZE

Offset(i) == data[SlotPos(i)].fst
Length(i) == data[SlotPos(i)].snd

\* Page._record_end
RecordEnd ==
    IF slot_count = 0
    THEN HEADER_SIZE
    ELSE Offset(slot_count - 1) + Length(slot_count - 1)

\* What a caller writes: a record of len bytes in change n.
Content(n, len) == [change |-> n, length |-> len]

\* A new page; before its first write, reading it makes an empty one too.
Init ==
    /\ data = [c \in Offsets |-> Zero]
    /\ slot_count = 0
    /\ free_end = PAGE_SIZE
    /\ image = Pack(data, 0, HEADER_SIZE, Header(0, PAGE_SIZE))
    /\ contents = << >> /\ saved = << >>
    /\ changes = 0

InsertWithoutSlotRoom(len) ==
    LET start == RecordEnd
        pos   == SlotPos(slot_count)
    IN  /\ changes < MaxChanges
        /\ start + len <= pos + SLOT_SIZE
        /\ data' = Pack(WriteRecord(data, start, len, changes + 1),
                        pos, SLOT_SIZE, SlotEntry(start, len))
        /\ slot_count' = slot_count + 1
        /\ free_end' = pos
        /\ contents' = Append(contents, Content(changes + 1, len))
        /\ changes' = changes + 1
        /\ UNCHANGED <<image, saved>>

\* Page.insert, unless it raises PageFullError
Insert(len) ==
    LET start == RecordEnd
        pos   == SlotPos(slot_count)
    IN  /\ changes < MaxChanges
        /\ start + len <= pos
        /\ data' = Pack(WriteRecord(data, start, len, changes + 1),
                        pos, SLOT_SIZE, SlotEntry(start, len))
        /\ slot_count' = slot_count + 1
        /\ free_end' = pos
        /\ contents' = Append(contents, Content(changes + 1, len))
        /\ changes' = changes + 1
        /\ UNCHANGED <<image, saved>>

\* Page.update_record, unless it raises ValueError
UpdateRecord(i, len) ==
    /\ changes < MaxChanges
    /\ len <= Length(i)
    /\ data' = Pack(WriteRecord(data, Offset(i), len, changes + 1),
                    SlotPos(i), SLOT_SIZE, SlotEntry(Offset(i), len))
    /\ contents' = [contents EXCEPT ![i + 1] = Content(changes + 1, len)]
    /\ changes' = changes + 1
    /\ UNCHANGED <<slot_count, free_end, image, saved>>

\* Page.serialize, which packs the header into the object's own bytes, and
\* HeapFile.write_page
Write ==
    /\ data' = Pack(data, 0, HEADER_SIZE, Header(slot_count, free_end))
    /\ image' = data'
    /\ saved' = contents
    /\ UNCHANGED <<slot_count, free_end, contents, changes>>

ReadStaleCount ==
    /\ data' = image
    /\ free_end' = image[0].snd
    /\ contents' = saved
    /\ UNCHANGED <<slot_count, image, saved, changes>>

\* HeapFile.read_page and Page._deserialize, into a new object
Read ==
    /\ data' = image
    /\ slot_count' = image[0].fst
    /\ free_end' = image[0].snd
    /\ contents' = saved
    /\ UNCHANGED <<image, saved, changes>>

Next ==
    \/ \E len \in Lengths : Insert(len)
    \/ \E i \in 0 .. (slot_count - 1), len \in Lengths : UpdateRecord(i, len)
    \/ Write
    \/ Read

Spec == Init /\ [][Next]_vars

-----------------------------------------------------------------------------
\* The type invariant; free_end is where the last slot entry begins, also in
\* an object that was read back (Page._deserialize).
TypeOK ==
    /\ data \in [Offsets -> Byte] /\ image \in [Offsets -> Byte]
    /\ slot_count \in Nat /\ free_end = PAGE_SIZE - slot_count * SLOT_SIZE
    /\ contents \in Seq([change : Nat, length : Nat])
    /\ saved \in Seq([change : Nat, length : Nat])
    /\ changes \in Nat

\* The bytes of d hold the record c in slot i: its entry is whole, and so is
\* every byte it points to, as they were last written.
Holds(d, i, c) ==
    LET entry == d[SlotPos(i)]
    IN  /\ \A k \in 0 .. (SLOT_SIZE - 1) :
              d[SlotPos(i) + k] = SlotEntry(entry.fst, c.length)
        /\ \A j \in 0 .. (c.length - 1) :
              d[entry.fst + j] = RecordByte(c.change, j)

\* get_record returns for every slot what insert or update_record last wrote
\* there: records, slot entries and the header never overwrite one another,
\* however full the page, and a page that went to heap.db and back has the
\* slots and records it was written with.
ReadBack ==
    /\ slot_count = Len(contents)
    /\ \A i \in 0 .. (slot_count - 1) : Holds(data, i, contents[i + 1])
=============================================================================
