----------------------------- MODULE PageProofs -----------------------------
(***************************************************************************)
(* On a page of any size, with records of any length, get_record returns   *)
(* what was written.  The invariant is about two arrays of bytes, the      *)
(* object's and the image in heap.db, so it is stated for any array and    *)
(* any sequence of contents: records lie one after another above the       *)
(* header and below the slot entries.                                      *)
(***************************************************************************)
EXTENDS Page, TLAPS

Contents == [change : Nat, length : Nat]

Off(d, i) == d[SlotPos(i)].fst

\* What a slot's entry and its record look like, in a page with n slots.
InBounds(d, cs, i) ==
    /\ Holds(d, i, cs[i + 1])
    /\ Off(d, i) >= HEADER_SIZE
    /\ Off(d, i) + cs[i + 1].length <= PAGE_SIZE - Len(cs) * SLOT_SIZE

InOrder(d, cs) ==
    \A i, j \in 0 .. (Len(cs) - 1) :
        i < j => Off(d, i) + cs[i + 1].length <= Off(d, j)

Layout(d, cs) ==
    /\ d \in [Offsets -> Byte]
    /\ cs \in Seq(Contents)
    /\ HEADER_SIZE + Len(cs) * SLOT_SIZE <= PAGE_SIZE
    /\ \A i \in 0 .. (Len(cs) - 1) : InBounds(d, cs, i)
    /\ InOrder(d, cs)

IInv ==
    /\ Layout(data, contents)
    /\ slot_count = Len(contents)
    /\ free_end = PAGE_SIZE - slot_count * SLOT_SIZE
    /\ Layout(image, saved)
    /\ image[0] = Header(Len(saved), PAGE_SIZE - Len(saved) * SLOT_SIZE)
    /\ changes \in Nat

\* The positions of slot entries.
LEMMA SlotPosFacts ==
    ASSUME NEW n \in Nat, HEADER_SIZE + n * SLOT_SIZE <= PAGE_SIZE
    PROVE  \A i \in 0 .. (n - 1) :
              /\ SlotPos(i) \in HEADER_SIZE .. (PAGE_SIZE - SLOT_SIZE)
              /\ SlotPos(i) >= PAGE_SIZE - n * SLOT_SIZE
              /\ \A k \in 0 .. (SLOT_SIZE - 1) :
                    SlotPos(i) + k \in HEADER_SIZE .. (PAGE_SIZE - 1)
BY PageAssumption, SMT DEF SlotPos, HEADER_SIZE, SLOT_SIZE

\* An entry that was read and the one that Holds speaks of have one length.
LEMMA HoldsEntry ==
    ASSUME NEW d, NEW i \in Nat, NEW c \in Contents, Holds(d, i, c)
    PROVE  d[SlotPos(i)] = SlotEntry(Off(d, i), c.length)
<1>1. 0 \in 0 .. (SLOT_SIZE - 1)
    BY DEF SLOT_SIZE
<1>2. d[SlotPos(i) + 0] = SlotEntry(d[SlotPos(i)].fst, c.length)
    BY <1>1 DEF Holds
<1>3. SlotPos(i) + 0 = SlotPos(i)
    BY PageAssumption DEF SlotPos, SLOT_SIZE
<1> QED
    BY <1>2, <1>3 DEF Off

\* Where a record of a well laid out page lies.
LEMMA OffFacts ==
    ASSUME NEW d, NEW cs, Layout(d, cs), NEW i \in 0 .. (Len(cs) - 1)
    PROVE  /\ cs[i + 1] \in Contents
           /\ SlotPos(i) \in Offsets
           /\ Off(d, i) \in HEADER_SIZE .. (PAGE_SIZE - Len(cs) * SLOT_SIZE)
           /\ Off(d, i) + cs[i + 1].length <= PAGE_SIZE - Len(cs) * SLOT_SIZE
           /\ d[SlotPos(i)] = SlotEntry(Off(d, i), cs[i + 1].length)
<1>1. cs \in Seq(Contents) /\ Len(cs) \in Nat
    BY DEF Layout
<1>2. i + 1 \in 1 .. Len(cs) /\ i \in Nat
    BY <1>1
<1>3. cs[i + 1] \in Contents
    BY <1>1, <1>2
<1>4. cs[i + 1].length \in Nat
    BY <1>3 DEF Contents
<1>5. SlotPos(i) \in HEADER_SIZE .. (PAGE_SIZE - SLOT_SIZE)
    BY <1>1, SlotPosFacts DEF Layout
<1>6. SlotPos(i) \in Offsets
    BY <1>5, PageAssumption DEF Offsets, HEADER_SIZE, SLOT_SIZE
<1>7. d[SlotPos(i)] \in Byte
    BY <1>6 DEF Layout
<1>8. Off(d, i) \in Nat
    BY <1>7 DEF Off, Byte
<1>9. InBounds(d, cs, i)
    BY DEF Layout
<1>10. d[SlotPos(i)] = SlotEntry(Off(d, i), cs[i + 1].length)
    BY <1>2, <1>3, <1>9, HoldsEntry DEF InBounds
<1> QED
    BY <1>1, <1>3, <1>4, <1>6, <1>8, <1>9, <1>10, PageAssumption
       DEF InBounds, HEADER_SIZE, SLOT_SIZE

LEMMA Places ==
    ASSUME NEW d, NEW cs, Layout(d, cs), NEW i \in 0 .. (Len(cs) - 1)
    PROVE  \E o \in Nat, l \in Nat, q \in Nat :
              /\ o = Off(d, i) /\ l = cs[i + 1].length /\ q = SlotPos(i)
              /\ o >= HEADER_SIZE
              /\ o + l <= PAGE_SIZE - Len(cs) * SLOT_SIZE
<1>1. cs \in Seq(Contents) /\ Len(cs) \in Nat
    BY DEF Layout
<1>2. cs[i + 1].length \in Nat
    BY OffFacts DEF Contents
<1>3. Off(d, i) \in Nat /\ Off(d, i) >= HEADER_SIZE
    BY <1>1, OffFacts, PageAssumption DEF HEADER_SIZE, SLOT_SIZE
<1>4. SlotPos(i) \in Nat
    BY OffFacts DEF Offsets
<1>5. Off(d, i) + cs[i + 1].length <= PAGE_SIZE - Len(cs) * SLOT_SIZE
    BY OffFacts
<1> QED
    BY <1>2, <1>3, <1>4, <1>5

\* The l bytes from o on are the same in two arrays.
Same(d, e, o, l) == \A c \in o .. (o + l - 1) : e[c] = d[c]

\* A slot whose entry and record are the same in two arrays is held by both.
LEMMA SameBytes ==
    ASSUME NEW d \in [Offsets -> Byte], NEW e \in [Offsets -> Byte],
           NEW cs \in Seq(Contents), Layout(d, cs),
           NEW i \in 0 .. (Len(cs) - 1),
           Same(d, e, SlotPos(i), SLOT_SIZE),
           Same(d, e, Off(d, i), cs[i + 1].length)
    PROVE  /\ Off(e, i) = Off(d, i)
           /\ Holds(e, i, cs[i + 1])
<1>1. cs[i + 1] \in Contents
    OBVIOUS
<1>2. SlotPos(i) \in SlotPos(i) .. (SlotPos(i) + SLOT_SIZE - 1)
    BY PageAssumption DEF SlotPos, SLOT_SIZE
<1>3. Off(e, i) = Off(d, i)
    BY <1>2 DEF Off, Same
<1>4. Holds(d, i, cs[i + 1])
    BY DEF Layout, InBounds
<1>5. ASSUME NEW k \in 0 .. (SLOT_SIZE - 1)
      PROVE  e[SlotPos(i) + k] = d[SlotPos(i) + k]
    <2>1. SlotPos(i) + k \in SlotPos(i) .. (SlotPos(i) + SLOT_SIZE - 1)
        BY PageAssumption, SMTT(30) DEF SlotPos, SLOT_SIZE
    <2> QED
        BY <2>1 DEF Same
<1>6. Off(d, i) \in Nat
    BY OffFacts, PageAssumption DEF HEADER_SIZE, SLOT_SIZE
<1>7. ASSUME NEW j \in 0 .. (cs[i + 1].length - 1)
      PROVE  e[Off(d, i) + j] = d[Off(d, i) + j]
    <2>1. Off(d, i) + j \in Off(d, i) .. (Off(d, i) + cs[i + 1].length - 1)
        BY <1>1, <1>6, SMTT(30) DEF Contents
    <2> QED
        BY <2>1 DEF Same
<1> QED
    BY <1>3, <1>4, <1>5, <1>7 DEF Holds, Off

-----------------------------------------------------------------------------
\* The three ways in which an array of bytes changes

\* From d to e, a record was written at start and its entry at pos.
Rewritten(d, e, pos, start, len, n) ==
    /\ e \in [Offsets -> Byte]
    /\ \A c \in Offsets :
          \/ start <= c /\ c < start + len
          \/ pos <= c /\ c < pos + SLOT_SIZE
          \/ e[c] = d[c]
    /\ \A k \in 0 .. (SLOT_SIZE - 1) : e[pos + k] = SlotEntry(start, len)
    /\ \A j \in 0 .. (len - 1) : e[start + j] = RecordByte(n, j)

\* The two writes of insert and update_record do that.
LEMMA Rewriting ==
    ASSUME NEW d \in [Offsets -> Byte], NEW pos \in Nat, NEW start \in Nat,
           NEW len \in Nat, NEW n \in Nat,
           start + len <= pos, pos + SLOT_SIZE <= PAGE_SIZE,
           NEW e, e = Pack(WriteRecord(d, start, len, n),
                           pos, SLOT_SIZE, SlotEntry(start, len))
    PROVE  Rewritten(d, e, pos, start, len, n)
<1> DEFINE w == WriteRecord(d, start, len, n)
<1>1. ASSUME NEW c \in Offsets
      PROVE  w[c] = IF start <= c /\ c < start + len
                    THEN RecordByte(n, c - start) ELSE d[c]
    BY DEF WriteRecord
<1>2. ASSUME NEW c \in Offsets
      PROVE  e[c] = IF pos <= c /\ c < pos + SLOT_SIZE
                    THEN SlotEntry(start, len) ELSE w[c]
    BY DEF Pack
<1>3. ASSUME NEW c \in Offsets, start <= c, c < start + len
      PROVE  RecordByte(n, c - start) \in Byte
    BY <1>3 DEF RecordByte, Byte, Offsets
<1>4. SlotEntry(start, len) \in Byte
    BY DEF SlotEntry, Byte
<1>5. ASSUME NEW c \in Offsets
      PROVE  e[c] \in Byte
    BY <1>1, <1>2, <1>3, <1>4
<1>6. e \in [Offsets -> Byte]
    BY <1>5 DEF Pack
<1>7. \A c \in Offsets :
         \/ start <= c /\ c < start + len
         \/ pos <= c /\ c < pos + SLOT_SIZE
         \/ e[c] = d[c]
    BY <1>1, <1>2
<1>8. ASSUME NEW k \in 0 .. (SLOT_SIZE - 1)
      PROVE  e[pos + k] = SlotEntry(start, len)
    <2>1. pos + k \in Offsets /\ pos <= pos + k /\ pos + k < pos + SLOT_SIZE
        BY PageAssumption DEF Offsets, SLOT_SIZE
    <2> QED
        BY <1>2, <2>1
<1>9. ASSUME NEW j \in 0 .. (len - 1)
      PROVE  e[start + j] = RecordByte(n, j)
    <2>1. /\ start + j \in Offsets /\ start <= start + j
          /\ start + j < start + len /\ start + j < pos
          /\ (start + j) - start = j
        BY PageAssumption DEF Offsets, SLOT_SIZE
    <2>2. e[start + j] = w[start + j]
        BY <1>2, <2>1
    <2> QED
        BY <1>1, <2>1, <2>2
<1> QED
    BY <1>6, <1>7, <1>8, <1>9 DEF Rewritten

\* The l bytes from o on are clear of such a rewriting, and in the page.
Clear(o, l, pos, start, len) ==
    /\ o \in Nat /\ l \in Nat
    /\ o + l <= start \/ start + len <= o
    /\ o + l <= pos \/ pos + SLOT_SIZE <= o
    /\ o + l <= PAGE_SIZE

LEMMA ClearBytes ==
    ASSUME NEW d, NEW e,
           NEW pos \in Nat, NEW start \in Nat, NEW len \in Nat, NEW n,
           Rewritten(d, e, pos, start, len, n),
           NEW o, NEW l, Clear(o, l, pos, start, len)
    PROVE  Same(d, e, o, l)
<1> SUFFICES ASSUME NEW c \in o .. (o + l - 1)
             PROVE  e[c] = d[c]
    BY DEF Same
<1>1. c \in Offsets
    BY PageAssumption DEF Clear, Offsets
<1>2. ~ (start <= c /\ c < start + len)
    BY DEF Clear
<1>3. ~ (pos <= c /\ c < pos + SLOT_SIZE)
    BY DEF Clear, SLOT_SIZE
<1> QED
    BY <1>1, <1>2, <1>3 DEF Rewritten

\* The bytes of slot i's record and entry, when both are clear of a rewriting.
LEMMA Untouched ==
    ASSUME NEW d, NEW cs, Layout(d, cs), NEW i \in 0 .. (Len(cs) - 1),
           NEW e, NEW pos \in Nat, NEW start \in Nat, NEW len \in Nat, NEW n,
           Rewritten(d, e, pos, start, len, n),
           Clear(SlotPos(i), SLOT_SIZE, pos, start, len),
           Clear(Off(d, i), cs[i + 1].length, pos, start, len)
    PROVE  Off(e, i) = Off(d, i) /\ Holds(e, i, cs[i + 1])
<1>1. /\ d \in [Offsets -> Byte] /\ e \in [Offsets -> Byte]
      /\ cs \in Seq(Contents)
    BY DEF Layout, Rewritten
<1>2. Same(d, e, SlotPos(i), SLOT_SIZE)
    BY ClearBytes
<1>3. Same(d, e, Off(d, i), cs[i + 1].length)
    BY ClearBytes
<1> QED
    BY <1>1, <1>2, <1>3, SameBytes

\* The rewritten slot itself.
LEMMA Renewed ==
    ASSUME NEW d, NEW e, NEW i \in Nat, NEW start \in Nat, NEW len \in Nat,
           NEW n, SlotPos(i) \in Nat,
           Rewritten(d, e, SlotPos(i), start, len, n)
    PROVE  Off(e, i) = start /\ Holds(e, i, Content(n, len))
<1>1. e[SlotPos(i)] = SlotEntry(start, len)
    <2>1. 0 \in 0 .. (SLOT_SIZE - 1) /\ SlotPos(i) + 0 = SlotPos(i)
        BY DEF SLOT_SIZE
    <2> QED
        BY <2>1 DEF Rewritten
<1> QED
    BY <1>1 DEF Rewritten, Off, Holds, Content, SlotEntry

LEMMA Between ==
    ASSUME NEW a \in Nat, NEW b \in Nat, NEW l \in Nat, NEW c \in Nat,
           a <= b, b + l <= c
    PROVE  a <= c
OBVIOUS

\* No record reaches beyond o.
AllBelow(d, cs, o) ==
    \A i \in 0 .. (Len(cs) - 1) : Off(d, i) + cs[i + 1].length <= o

\* A record above all others, its entry below all others: Page.insert.
LEMMA Inserted ==
    ASSUME NEW d, NEW cs, Layout(d, cs),
           SlotPos(Len(cs)) \in Nat, NEW e, NEW start \in Nat, NEW len \in Nat,
           NEW n \in Nat,
           Rewritten(d, e, SlotPos(Len(cs)), start, len, n),
           start >= HEADER_SIZE,
           AllBelow(d, cs, start),
           start + len <= SlotPos(Len(cs))
    PROVE  Layout(e, Append(cs, Content(n, len)))
<1> DEFINE ds == Append(cs, Content(n, len))
<1>1. cs \in Seq(Contents) /\ Len(cs) \in Nat
    BY DEF Layout
<1>2. SlotPos(Len(cs)) = PAGE_SIZE - (Len(cs) + 1) * SLOT_SIZE
    BY <1>1, PageAssumption DEF SlotPos
<1>3. Content(n, len) \in Contents
    BY DEF Content, Contents
<1>4. /\ ds \in Seq(Contents) /\ Len(ds) = Len(cs) + 1
      /\ \A i \in 1 .. Len(cs) : ds[i] = cs[i]
      /\ ds[Len(cs) + 1] = Content(n, len)
    BY <1>1, <1>3
<1>6. e \in [Offsets -> Byte]
    BY DEF Rewritten
<1>7. ASSUME NEW i \in 0 .. (Len(cs) - 1)
      PROVE  Off(e, i) = Off(d, i) /\ Holds(e, i, cs[i + 1])
    <2>1. /\ Off(d, i) \in Nat /\ cs[i + 1].length \in Nat
          /\ SlotPos(i) \in Nat
        BY Places
    <2>2. /\ SlotPos(Len(cs)) + SLOT_SIZE <= SlotPos(i)
          /\ SlotPos(i) + SLOT_SIZE <= PAGE_SIZE
        BY <1>1, <1>2, PageAssumption DEF SlotPos, SLOT_SIZE
    <2>3. Clear(SlotPos(i), SLOT_SIZE, SlotPos(Len(cs)), start, len)
        BY <2>1, <2>2 DEF Clear, SLOT_SIZE
    <2>4. Off(d, i) + cs[i + 1].length <= start
        BY DEF AllBelow
    <2>5. /\ Off(d, i) + cs[i + 1].length <= SlotPos(Len(cs))
          /\ Off(d, i) + cs[i + 1].length <= PAGE_SIZE
        <3>1. Off(d, i) + cs[i + 1].length \in Nat
            BY <2>1, SMTT(30)
        <3>2. Off(d, i) + cs[i + 1].length <= SlotPos(Len(cs))
            BY <2>4, <3>1, Between
        <3>3. SlotPos(Len(cs)) + 0 <= PAGE_SIZE /\ 0 \in Nat
            BY <1>1, <1>2, PageAssumption DEF SLOT_SIZE
        <3> QED
            BY <3>1, <3>2, <3>3, Between, PageAssumption
    <2>6. Clear(Off(d, i), cs[i + 1].length, SlotPos(Len(cs)), start, len)
        BY <2>1, <2>4, <2>5 DEF Clear
    <2> QED
        BY <2>3, <2>6, Untouched
<1>8. Off(e, Len(cs)) = start /\ Holds(e, Len(cs), Content(n, len))
    BY <1>1, Renewed
<1>9. HEADER_SIZE + Len(ds) * SLOT_SIZE <= PAGE_SIZE
    BY <1>1, <1>2, <1>4, PageAssumption DEF HEADER_SIZE, SLOT_SIZE
<1>10. ASSUME NEW i \in 0 .. (Len(ds) - 1)
       PROVE  InBounds(e, ds, i)
    <2>1. CASE i = Len(cs)
        BY <1>1, <1>2, <1>4, <1>8, <2>1, PageAssumption
           DEF InBounds, Content, HEADER_SIZE, SLOT_SIZE
    <2>2. CASE i # Len(cs)
        <3>1. i \in 0 .. (Len(cs) - 1) /\ ds[i + 1] = cs[i + 1]
            BY <1>1, <1>4, <2>2
        <3>2. Off(e, i) = Off(d, i) /\ Holds(e, i, cs[i + 1])
            BY <1>7, <3>1
        <3>3. /\ cs[i + 1].length \in Nat /\ Off(d, i) >= HEADER_SIZE
              /\ Off(d, i) \in Nat
              /\ Off(d, i) + cs[i + 1].length <= start
            BY <3>1, Places DEF AllBelow
        <3> QED
            BY <1>1, <1>2, <1>4, <3>1, <3>2, <3>3, PageAssumption
               DEF InBounds, SLOT_SIZE
    <2> QED
        BY <2>1, <2>2
<1>11. ASSUME NEW i \in 0 .. (Len(ds) - 1), NEW j \in 0 .. (Len(ds) - 1),
              i < j
       PROVE  Off(e, i) + ds[i + 1].length <= Off(e, j)
    <2>1. i \in 0 .. (Len(cs) - 1) /\ ds[i + 1] = cs[i + 1]
        BY <1>1, <1>4, <1>11
    <2>2. Off(e, i) = Off(d, i)
        BY <1>7, <2>1
    <2>3. CASE j = Len(cs)
        BY <1>8, <2>1, <2>2, <2>3 DEF AllBelow
    <2>4. CASE j # Len(cs)
        <3>1. j \in 0 .. (Len(cs) - 1)
            BY <1>1, <1>4, <2>4
        <3>2. Off(e, j) = Off(d, j)
            BY <1>7, <3>1
        <3> QED
            BY <1>11, <2>1, <2>2, <3>1, <3>2 DEF Layout, InOrder
    <2> QED
        BY <2>3, <2>4
<1> QED
    BY <1>4, <1>6, <1>9, <1>10, <1>11 DEF Layout, InOrder

LEMMA Shorter ==
    ASSUME NEW o \in Nat, NEW l \in Nat, NEW m \in Nat, NEW b \in Nat,
           m <= l, o + l <= b
    PROVE  o + m <= b
OBVIOUS

LEMMA UpdateClear ==
    ASSUME NEW start \in Nat, NEW len \in Nat, NEW old \in Nat, len <= old,
           NEW o \in Nat, NEW l \in Nat, NEW end \in Nat, NEW pos \in Nat,
           NEW q \in Nat,
           start + old <= end, o + l <= end, end <= pos, end <= q,
           q + SLOT_SIZE <= PAGE_SIZE,
           o + l <= start \/ start + old <= o,
           q + SLOT_SIZE <= pos \/ pos + SLOT_SIZE <= q
    PROVE  Clear(q, SLOT_SIZE, pos, start, len) /\ Clear(o, l, pos, start, len)
<1>1. Clear(q, SLOT_SIZE, pos, start, len)
    BY DEF Clear, SLOT_SIZE
<1>2. o + l <= PAGE_SIZE
    BY PageAssumption DEF SLOT_SIZE
<1>3. Clear(o, l, pos, start, len)
    BY <1>2 DEF Clear, SLOT_SIZE
<1> QED
    BY <1>1, <1>3

\* A record no longer than the one whose place it takes: Page.update_record.
LEMMA Updated ==
    ASSUME NEW d, NEW cs, Layout(d, cs), NEW i \in 0 .. (Len(cs) - 1),
           NEW e, NEW len \in Nat, NEW n \in Nat,
           Rewritten(d, e, SlotPos(i), Off(d, i), len, n),
           len <= cs[i + 1].length
    PROVE  Layout(e, [cs EXCEPT ![i + 1] = Content(n, len)])
<1> DEFINE ds  == [cs EXCEPT ![i + 1] = Content(n, len)]
           end == PAGE_SIZE - Len(cs) * SLOT_SIZE
<1>1. cs \in Seq(Contents) /\ Len(cs) \in Nat /\ end \in Nat
    BY PageAssumption DEF Layout, HEADER_SIZE, SLOT_SIZE
<1>2. Content(n, len) \in Contents
    BY DEF Content, Contents
<1>3. /\ ds \in Seq(Contents) /\ Len(ds) = Len(cs)
      /\ ds[i + 1] = Content(n, len)
      /\ \A k \in 0 .. (Len(cs) - 1) : k # i => ds[k + 1] = cs[k + 1]
    BY <1>1, <1>2
<1>4. e \in [Offsets -> Byte]
    BY DEF Rewritten
<1>5. \A k \in 0 .. (Len(cs) - 1) :
         /\ k \in Nat
         /\ Off(d, k) \in Nat /\ cs[k + 1].length \in Nat
         /\ SlotPos(k) \in Nat
         /\ Off(d, k) >= HEADER_SIZE
         /\ Off(d, k) + cs[k + 1].length <= end
    BY <1>1, Places
<1>6. \A k \in 0 .. (Len(cs) - 1) :
         end <= SlotPos(k) /\ SlotPos(k) + SLOT_SIZE <= PAGE_SIZE
    BY <1>1, PageAssumption DEF SlotPos, SLOT_SIZE
<1>7. ASSUME NEW k \in 0 .. (Len(cs) - 1), k # i
      PROVE  Off(e, k) = Off(d, k) /\ Holds(e, k, cs[k + 1])
    <2>1. \/ SlotPos(k) + SLOT_SIZE <= SlotPos(i)
          \/ SlotPos(i) + SLOT_SIZE <= SlotPos(k)
        BY <1>1, <1>7, PageAssumption DEF SlotPos, SLOT_SIZE
    <2>2. \/ Off(d, k) + cs[k + 1].length <= Off(d, i)
          \/ Off(d, i) + cs[i + 1].length <= Off(d, k)
        <3>1. k < i \/ i < k
            BY <1>1, <1>7
        <3> QED
            BY <3>1 DEF Layout, InOrder
    <2>3. /\ Clear(SlotPos(k), SLOT_SIZE, SlotPos(i), Off(d, i), len)
          /\ Clear(Off(d, k), cs[k + 1].length, SlotPos(i), Off(d, i), len)
        BY <1>1, <1>5, <1>6, <2>1, <2>2, UpdateClear
    <2> QED
        BY <1>5, <2>3, Untouched
<1>8. Off(e, i) = Off(d, i) /\ Holds(e, i, Content(n, len))
    BY <1>5, Renewed
<1>9. \A k \in 0 .. (Len(ds) - 1) :
         /\ Off(e, k) = Off(d, k) /\ Holds(e, k, ds[k + 1])
         /\ ds[k + 1].length \in Nat /\ ds[k + 1].length <= cs[k + 1].length
    <2> SUFFICES ASSUME NEW k \in 0 .. (Len(ds) - 1)
                 PROVE  /\ Off(e, k) = Off(d, k) /\ Holds(e, k, ds[k + 1])
                        /\ ds[k + 1].length \in Nat
                        /\ ds[k + 1].length <= cs[k + 1].length
        OBVIOUS
    <2>1. k \in 0 .. (Len(cs) - 1)
        BY <1>3
    <2>2. CASE k # i
        <3>1. ds[k + 1] = cs[k + 1]
            BY <1>3, <2>1, <2>2
        <3>2. Off(e, k) = Off(d, k) /\ Holds(e, k, cs[k + 1])
            BY <1>7, <2>1, <2>2
        <3>3. cs[k + 1].length \in Nat
            BY <1>5, <2>1
        <3> HIDE DEF ds
        <3> QED
            BY <3>1, <3>2, <3>3
    <2>3. CASE k = i
        <3>1. ds[k + 1] = Content(n, len)
            BY <1>3, <2>3
        <3>2. Off(e, k) = Off(d, k) /\ Holds(e, k, Content(n, len))
            BY <1>8, <2>3
        <3>3. Content(n, len).length = len /\ len <= cs[k + 1].length
            BY <2>3 DEF Content
        <3> HIDE DEF ds
        <3> QED
            BY <3>1, <3>2, <3>3
    <2> QED
        BY <2>2, <2>3
<1>10. ASSUME NEW k \in 0 .. (Len(ds) - 1)
       PROVE  InBounds(e, ds, k)
    <2>1. Off(d, k) + ds[k + 1].length <= end
        <3>1. k \in 0 .. (Len(cs) - 1)
            BY <1>3
        <3>2. /\ Off(d, k) \in Nat /\ cs[k + 1].length \in Nat
              /\ Off(d, k) + cs[k + 1].length <= end
            BY <1>5, <3>1
        <3>3. /\ ds[k + 1].length \in Nat
              /\ ds[k + 1].length <= cs[k + 1].length
            BY <1>9
        <3> HIDE DEF ds, end
        <3> QED
            BY <1>1, <3>2, <3>3, Shorter
    <2> QED
        BY <1>3, <1>5, <1>9, <2>1 DEF InBounds
<1>11. ASSUME NEW k \in 0 .. (Len(ds) - 1), NEW j \in 0 .. (Len(ds) - 1),
              k < j
       PROVE  Off(e, k) + ds[k + 1].length <= Off(e, j)
    <2>1. Off(d, k) + cs[k + 1].length <= Off(d, j)
        BY <1>3, <1>11 DEF Layout, InOrder
    <2>2. Off(d, k) + ds[k + 1].length <= Off(d, j)
        <3>1. k \in 0 .. (Len(cs) - 1) /\ j \in 0 .. (Len(cs) - 1)
            BY <1>3
        <3>2. /\ Off(d, k) \in Nat /\ cs[k + 1].length \in Nat
              /\ Off(d, j) \in Nat
            BY <1>5, <3>1
        <3>3. /\ ds[k + 1].length \in Nat
              /\ ds[k + 1].length <= cs[k + 1].length
            BY <1>9
        <3> HIDE DEF ds
        <3> QED
            BY <2>1, <3>2, <3>3, Shorter
    <2> QED
        BY <1>9, <2>2
<1>12. HEADER_SIZE + Len(ds) * SLOT_SIZE <= PAGE_SIZE
    BY <1>3 DEF Layout
<1> QED
    BY <1>3, <1>4, <1>10, <1>11, <1>12 DEF Layout, InOrder

\* A header over a header: Page.serialize.
LEMMA HeaderPacked ==
    ASSUME NEW d, NEW cs, Layout(d, cs), NEW h \in Byte,
           NEW e, e = Pack(d, 0, HEADER_SIZE, h)
    PROVE  Layout(e, cs) /\ e[0] = h
<1>1. /\ d \in [Offsets -> Byte] /\ cs \in Seq(Contents)
      /\ Len(cs) \in Nat
    BY DEF Layout
<1>2. /\ e \in [Offsets -> Byte]
      /\ \A c \in Offsets : c >= HEADER_SIZE => e[c] = d[c]
    BY <1>1, PageAssumption DEF Pack, Offsets, HEADER_SIZE
<1>3. e[0] = h
    BY PageAssumption DEF Pack, Offsets, HEADER_SIZE
<1>4. ASSUME NEW o \in Nat, NEW l \in Nat, o >= HEADER_SIZE,
             o + l <= PAGE_SIZE
      PROVE  Same(d, e, o, l)
    BY <1>2, <1>4, PageAssumption DEF Same, Offsets, HEADER_SIZE
<1>5. ASSUME NEW i \in 0 .. (Len(cs) - 1)
      PROVE  Off(e, i) = Off(d, i) /\ Holds(e, i, cs[i + 1])
    <2>1. /\ Off(d, i) \in Nat /\ cs[i + 1].length \in Nat
          /\ SlotPos(i) \in Nat /\ Off(d, i) >= HEADER_SIZE
          /\ Off(d, i) + cs[i + 1].length <= PAGE_SIZE - Len(cs) * SLOT_SIZE
        BY Places
    <2>2. Off(d, i) + cs[i + 1].length <= PAGE_SIZE
        BY <1>1, <2>1, PageAssumption DEF SLOT_SIZE
    <2>3. /\ SlotPos(i) >= HEADER_SIZE /\ SLOT_SIZE \in Nat
          /\ SlotPos(i) + SLOT_SIZE <= PAGE_SIZE
        <3>1. HEADER_SIZE + Len(cs) * SLOT_SIZE <= PAGE_SIZE
            BY DEF Layout
        <3> QED
            BY <1>1, <3>1, PageAssumption DEF SlotPos, SLOT_SIZE, HEADER_SIZE
    <2>4. /\ Same(d, e, SlotPos(i), SLOT_SIZE)
          /\ Same(d, e, Off(d, i), cs[i + 1].length)
        BY <1>4, <2>1, <2>2, <2>3
    <2> QED
        BY <1>1, <1>2, <2>4, SameBytes
<1>6. ASSUME NEW i \in 0 .. (Len(cs) - 1)
      PROVE  InBounds(e, cs, i)
    BY <1>5 DEF Layout, InBounds
<1>7. InOrder(e, cs)
    BY <1>5 DEF Layout, InOrder
<1> QED
    BY <1>1, <1>2, <1>3, <1>6, <1>7 DEF Layout

-----------------------------------------------------------------------------
\* The theorem

\* The end of the last record is the end of them all.
LEMMA RecordEndFacts ==
    ASSUME IInv
    PROVE  /\ RecordEnd \in Nat /\ RecordEnd >= HEADER_SIZE
           /\ AllBelow(data, contents, RecordEnd)
<1>1. /\ Layout(data, contents) /\ slot_count = Len(contents)
      /\ Len(contents) \in Nat
    BY DEF IInv, Layout
<1>2. CASE slot_count = 0
    BY <1>1, <1>2 DEF RecordEnd, HEADER_SIZE, AllBelow
<1>3. CASE slot_count # 0
    <2> DEFINE last == slot_count - 1
    <2>1. last \in 0 .. (Len(contents) - 1) /\ last + 1 = slot_count
        BY <1>1, <1>3
    <2> HIDE DEF last
    <2>2. /\ Off(data, last) \in Nat /\ contents[last + 1].length \in Nat
          /\ Off(data, last) >= HEADER_SIZE
        BY <1>1, <2>1, Places
    <2>3. data[SlotPos(last)]
             = SlotEntry(Off(data, last), contents[last + 1].length)
        BY <1>1, <2>1, OffFacts
    <2>4. RecordEnd = Off(data, last) + contents[last + 1].length
        BY <1>3, <2>3 DEF RecordEnd, Offset, Length, SlotEntry, Off, last
    <2>5. ASSUME NEW i \in 0 .. (Len(contents) - 1)
          PROVE  Off(data, i) + contents[i + 1].length <= RecordEnd
        <3>1. CASE i = last
            BY <2>2, <2>4, <3>1
        <3>2. CASE i # last
            <4>1. i < last
                BY <1>1, <2>1, <3>2 DEF last
            <4>2. Off(data, i) + contents[i + 1].length <= Off(data, last)
                BY <1>1, <2>1, <4>1 DEF Layout, InOrder
            <4>3. Off(data, i) \in Nat /\ contents[i + 1].length \in Nat
                BY <1>1, Places
            <4>4. Off(data, i) + contents[i + 1].length \in Nat
                BY <4>3
            <4>5. /\ Off(data, last) + contents[last + 1].length <= RecordEnd
                  /\ RecordEnd \in Nat
                BY <2>2, <2>4
            <4> QED
                BY <2>2, <4>2, <4>4, <4>5, Between
        <3> QED
            BY <3>1, <3>2
    <2> QED
        BY <2>2, <2>4, <2>5 DEF AllBelow, HEADER_SIZE
<1> QED
    BY <1>2, <1>3

LEMMA InitIInv == Init => IInv
<1> SUFFICES ASSUME Init PROVE IInv
    OBVIOUS
<1>1. /\ contents = << >> /\ saved = << >> /\ Len(contents) = 0
      /\ slot_count = 0 /\ free_end = PAGE_SIZE /\ changes = 0
    BY DEF Init
<1>2. data \in [Offsets -> Byte]
    BY DEF Init, Zero, Byte
<1>3. Layout(data, contents)
    BY <1>1, <1>2, PageAssumption
       DEF Layout, InOrder, HEADER_SIZE, SLOT_SIZE
<1>4. Header(0, PAGE_SIZE) \in Byte
    BY PageAssumption DEF Header, Byte
<1>5. image = Pack(data, 0, HEADER_SIZE, Header(0, PAGE_SIZE))
    BY DEF Init
<1>6. Layout(image, saved) /\ image[0] = Header(0, PAGE_SIZE)
    BY <1>1, <1>3, <1>4, <1>5, HeaderPacked
<1> QED
    BY <1>1, <1>3, <1>6, PageAssumption DEF IInv, SLOT_SIZE

LEMMA InsertIInv ==
    ASSUME IInv, NEW len \in Nat, Insert(len)
    PROVE  IInv'
<1> DEFINE start == RecordEnd
           pos   == SlotPos(slot_count)
<1>1. /\ Layout(data, contents) /\ slot_count = Len(contents)
      /\ data \in [Offsets -> Byte] /\ contents \in Seq(Contents)
      /\ Len(contents) \in Nat /\ changes + 1 \in Nat
    BY DEF IInv, Layout
<1>2. /\ start \in Nat /\ start >= HEADER_SIZE
      /\ AllBelow(data, contents, start)
    BY RecordEndFacts
<1>3. start + len <= pos
    BY DEF Insert
<1>4. pos = PAGE_SIZE - (slot_count + 1) * SLOT_SIZE
    BY DEF SlotPos
<1>5. pos \in Nat /\ pos + SLOT_SIZE <= PAGE_SIZE
    BY <1>1, <1>2, <1>3, <1>4, PageAssumption DEF SLOT_SIZE, HEADER_SIZE
<1>6. data' = Pack(WriteRecord(data, start, len, changes + 1),
                   pos, SLOT_SIZE, SlotEntry(start, len))
    BY DEF Insert
<1>7. Rewritten(data, data', pos, start, len, changes + 1)
    BY <1>1, <1>2, <1>3, <1>5, <1>6, Rewriting
<1>8. Layout(data', Append(contents, Content(changes + 1, len)))
    BY <1>1, <1>2, <1>3, <1>5, <1>7, Inserted
<1>9. /\ contents' = Append(contents, Content(changes + 1, len))
      /\ slot_count' = slot_count + 1 /\ free_end' = pos
      /\ changes' = changes + 1
      /\ UNCHANGED <<image, saved>>
    BY DEF Insert
<1>10. Len(contents') = slot_count'
    BY <1>1, <1>9
<1>11. free_end' = PAGE_SIZE - slot_count' * SLOT_SIZE
    BY <1>4, <1>9
<1> QED
    BY <1>1, <1>8, <1>9, <1>10, <1>11 DEF IInv

LEMMA UpdateRecordIInv ==
    ASSUME IInv, NEW i \in 0 .. (slot_count - 1), NEW len \in Nat,
           UpdateRecord(i, len)
    PROVE  IInv'
<1>1. /\ Layout(data, contents) /\ slot_count = Len(contents)
      /\ data \in [Offsets -> Byte] /\ contents \in Seq(Contents)
      /\ Len(contents) \in Nat /\ changes + 1 \in Nat
    BY DEF IInv, Layout
<1>2. i \in 0 .. (Len(contents) - 1) /\ i \in Nat
    BY <1>1
<1>3. data[SlotPos(i)] = SlotEntry(Off(data, i), contents[i + 1].length)
    BY <1>1, <1>2, OffFacts
<1>4. Offset(i) = Off(data, i) /\ Length(i) = contents[i + 1].length
    BY <1>3 DEF Offset, Length, Off, SlotEntry
<1>5. /\ Off(data, i) \in Nat /\ contents[i + 1].length \in Nat
      /\ SlotPos(i) \in Nat
      /\ Off(data, i) + contents[i + 1].length
            <= PAGE_SIZE - Len(contents) * SLOT_SIZE
    BY <1>1, <1>2, Places
<1>6. len <= contents[i + 1].length
    BY <1>4 DEF UpdateRecord
<1>7. /\ PAGE_SIZE - Len(contents) * SLOT_SIZE \in Nat
      /\ PAGE_SIZE - Len(contents) * SLOT_SIZE <= SlotPos(i)
      /\ SlotPos(i) + SLOT_SIZE <= PAGE_SIZE
    BY <1>1, <1>2, PageAssumption DEF Layout, SlotPos, HEADER_SIZE, SLOT_SIZE
<1>8. Off(data, i) + len <= SlotPos(i)
    <2>1. Off(data, i) + len <= PAGE_SIZE - Len(contents) * SLOT_SIZE
        BY <1>5, <1>6, <1>7, Shorter
    <2>2. Off(data, i) + len \in Nat
        BY <1>5
    <2> QED
        BY <1>5, <1>7, <2>1, <2>2
<1>9. data' = Pack(WriteRecord(data, Off(data, i), len, changes + 1),
                   SlotPos(i), SLOT_SIZE, SlotEntry(Off(data, i), len))
    BY <1>4 DEF UpdateRecord
<1>10. Rewritten(data, data', SlotPos(i), Off(data, i), len, changes + 1)
    BY <1>1, <1>5, <1>7, <1>8, <1>9, Rewriting
<1>11. Layout(data', [contents EXCEPT ![i + 1] = Content(changes + 1, len)])
    BY <1>1, <1>2, <1>6, <1>10, Updated
<1>12. /\ contents' = [contents EXCEPT ![i + 1] = Content(changes + 1, len)]
       /\ changes' = changes + 1
       /\ UNCHANGED <<slot_count, free_end, image, saved>>
    BY DEF UpdateRecord
<1>13. Len(contents') = Len(contents)
    BY <1>1, <1>12
<1> QED
    BY <1>1, <1>11, <1>12, <1>13 DEF IInv

LEMMA WriteIInv ==
    ASSUME IInv, Write
    PROVE  IInv'
<1>1. /\ Layout(data, contents) /\ slot_count = Len(contents)
      /\ free_end = PAGE_SIZE - slot_count * SLOT_SIZE
      /\ Len(contents) \in Nat
      /\ HEADER_SIZE + Len(contents) * SLOT_SIZE <= PAGE_SIZE
    BY DEF IInv, Layout
<1>2. slot_count \in Nat /\ free_end \in Nat
    BY <1>1, PageAssumption DEF HEADER_SIZE, SLOT_SIZE
<1>3. Header(slot_count, free_end) \in Byte
    BY <1>2 DEF Header, Byte
<1>4. data' = Pack(data, 0, HEADER_SIZE, Header(slot_count, free_end))
    BY DEF Write
<1>5. Layout(data', contents) /\ data'[0] = Header(slot_count, free_end)
    BY <1>1, <1>3, <1>4, HeaderPacked
<1>6. /\ image' = data' /\ saved' = contents
      /\ UNCHANGED <<slot_count, free_end, contents, changes>>
    BY DEF Write
<1> QED
    BY <1>1, <1>5, <1>6 DEF IInv

LEMMA ReadIInv ==
    ASSUME IInv, Read
    PROVE  IInv'
<1>1. /\ slot_count' = Len(saved)
      /\ free_end' = PAGE_SIZE - Len(saved) * SLOT_SIZE
    BY DEF IInv, Read, Header
<1>2. /\ data' = image /\ contents' = saved
      /\ UNCHANGED <<image, saved, changes>>
    BY DEF Read
<1> QED
    BY <1>1, <1>2 DEF IInv

\* The invariant holds, for every page size and all lengths of records.
THEOREM Invariance == Spec => []IInv
<1>1. Init => IInv
    BY InitIInv
<1>2. IInv /\ [Next]_vars => IInv'
    <2> SUFFICES ASSUME IInv, [Next]_vars PROVE IInv'
        OBVIOUS
    <2>1. ASSUME NEW len \in Lengths, Insert(len) PROVE IInv'
        BY <2>1, InsertIInv, PageAssumption
    <2>2. ASSUME NEW i \in 0 .. (slot_count - 1), NEW len \in Lengths,
                 UpdateRecord(i, len)
          PROVE  IInv'
        BY <2>2, UpdateRecordIInv, PageAssumption
    <2>3. CASE Write
        BY <2>3, WriteIInv
    <2>4. CASE Read
        BY <2>4, ReadIInv
    <2>5. CASE UNCHANGED vars
        BY <2>5 DEF vars, IInv
    <2> QED
        BY <2>1, <2>2, <2>3, <2>4, <2>5 DEF Next
<1> QED
    BY <1>1, <1>2, PTL DEF Spec

\* The fields of a page hold values of their types, and free_end is where the
\* last slot entry begins.
THEOREM TypeCorrect == Spec => []TypeOK
<1>1. IInv => TypeOK
    BY DEF IInv, TypeOK, Layout, Contents
<1> QED
    BY <1>1, Invariance, PTL

\* get_record returns what was last written to each slot, in a page that was
\* never out of memory and in one that was read back from heap.db.
THEOREM RecordsReadBack == Spec => []ReadBack
<1>1. IInv => ReadBack
    BY DEF IInv, ReadBack, Layout, InBounds
<1> QED
    BY <1>1, Invariance, PTL
=============================================================================
