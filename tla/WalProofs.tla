------------------------------ MODULE WalProofs ------------------------------
(***************************************************************************)
(* Proofs about wal.log byte by byte: whatever the file went through,      *)
(* read_all yields whole records that were appended, in order and at their *)
(* LSNs, every synced one among them, and nothing stays in the file that   *)
(* would hide what is appended next.  The second half is about the records *)
(* the bytes make up: Wal implements RecordLog.                            *)
(***************************************************************************)
EXTENDS WalProperties, ReplayProofs, TLAPS

-----------------------------------------------------------------------------
(* What the file is made of.  The definitions take the file and the        *)
(* records as parameters, so that a lemma speaks of two states.            *)

Bytes == [rec : Nat, pos : Nat]

RecordInfo == [lsn : Nat, length : Nat, written : Nat]

SizeIn(a, r) == HEADER_SIZE + a[r].length

End(a, r) == a[r].lsn + SizeIn(a, r)

\* A byte that is no zero is where its record was appended.
Placed(f, a) ==
    \A i \in 1 .. Len(f) :
        \/ f[i] = Zero
        \/ /\ f[i].rec \in 1 .. Len(a)
           /\ f[i].pos \in 1 .. SizeIn(a, f[i].rec)
           /\ i = a[f[i].rec].lsn + f[i].pos

\* With a byte of a record all before it are there.
Prefixed(f, a) ==
    \A i \in 1 .. Len(f) :
        f[i] # Zero =>
            \A p \in 1 .. f[i].pos : f[a[f[i].rec].lsn + p] = Byte(f[i].rec, p)

\* Behind a zero there are only zeros.
ZerosLast(f) ==
    \A i, j \in 1 .. Len(f) : i < j /\ f[i] = Zero => f[j] = Zero

\* The records are in the order they were appended.
InOrder(f) ==
    \A i, j \in 1 .. Len(f) : i < j /\ f[j] # Zero => f[i].rec <= f[j].rec

WellFormed(f, a) ==
    /\ Placed(f, a)
    /\ Prefixed(f, a)
    /\ ZerosLast(f)
    /\ InOrder(f)

NoZeros(f) == \A i \in 1 .. Len(f) : f[i] # Zero

Whole(f, a, r) ==
    /\ End(a, r) <= Len(f)
    /\ \A p \in 1 .. SizeIn(a, r) : f[a[r].lsn + p] = Byte(r, p)

\* The first n bytes are whole records.
WholeTo(f, a, n) ==
    /\ n \in 0 .. Len(f)
    /\ \A i \in 1 .. n :
          /\ f[i] # Zero
          /\ Whole(f, a, f[i].rec)
          /\ End(a, f[i].rec) <= n

-----------------------------------------------------------------------------
(* The inductive invariant *)

TypeInv ==
    /\ file \in Seq(Bytes)
    /\ appended \in Seq(RecordInfo)
    /\ yielded \in Seq([lsn : Nat, bytes : Seq(Bytes)])
    /\ synced \in 0 .. Len(file)
    /\ stage \in {"down", "scan", "read", "open"}
    /\ position \in 0 .. Len(file) /\ lsn \in 0 .. Len(file)
    /\ \A r \in 1 .. Len(appended) : appended[r].written \in 1 .. SizeIn(appended, r)
    /\ durable \subseteq 1 .. Len(appended)
    /\ broken \in BOOLEAN /\ incidents \in 0 .. MaxIncidents

FileInv ==
    /\ WellFormed(file, appended)
    /\ stage \in {"read", "open"} => NoZeros(file)

\* What _recover_and_truncate has passed, and what it leaves, is whole.
ScanInv ==
    /\ stage = "down" => position = 0
    /\ stage # "open" => lsn = position
    /\ stage \in {"scan", "read"} => WholeTo(file, appended, position)
    /\ stage = "read" \/ (stage = "open" /\ ~ broken) =>
          WholeTo(file, appended, Len(file))

\* read_all has yielded what is before its position.
ReadInv ==
    /\ ReadsWhatWasAppended
    /\ stage \in {"down", "scan"} => yielded = << >>
    /\ stage = "read" =>
          /\ \A i \in 1 .. position :
                \E n \in 1 .. Len(yielded) :
                    yielded[n].bytes = BytesOf(file[i].rec, 1, Size(file[i].rec))
          /\ yielded # << >> =>
                /\ position > 0
                /\ yielded[Len(yielded)].bytes[1].rec = file[position].rec

\* What was synced with nothing torn before it is there, whole and with
\* whole records before it, within what the fdatasync covered.
DurableInv ==
    \A r \in durable :
        /\ Whole(file, appended, r)
        /\ WholeTo(file, appended, End(appended, r))
        /\ End(appended, r) <= synced

WalInv == TypeInv /\ FileInv /\ ScanInv /\ ReadInv /\ DurableInv

-----------------------------------------------------------------------------
(* Appending and cutting off *)

LEMMA HeaderSize == HEADER_SIZE \in Nat /\ HEADER_SIZE = IntSize + IntSize + 1 /\ IntSize \in Nat \ {0}
  BY WalAssumption DEF HEADER_SIZE

LEMMA ByteFacts ==
    /\ \A r, i \in Nat : Byte(r, i) \in Bytes /\ Byte(r, i).rec = r /\ Byte(r, i).pos = i
    /\ Zero \in Bytes /\ Zero.rec = 0 /\ Zero.pos = 0
    /\ \A b \in Bytes : b = Byte(b.rec, b.pos)
  BY DEF Byte, Bytes, Zero

LEMMA BytesOfFacts ==
    ASSUME NEW r \in Nat, NEW i \in Nat, NEW j \in Nat, i <= j + 1
    PROVE  /\ BytesOf(r, i, j) \in Seq(Bytes)
           /\ Len(BytesOf(r, i, j)) = j + 1 - i
           /\ \A n \in 1 .. (j + 1 - i) : BytesOf(r, i, j)[n] = Byte(r, i + n - 1)
<1>1. \A n \in 1 .. (j + 1 - i) : i + n - 1 \in Nat
  OBVIOUS
<1>2. \A n \in 1 .. (j + 1 - i) : Byte(r, i + n - 1) \in Bytes
  BY <1>1, ByteFacts
<1> QED
  BY <1>2 DEF BytesOf

LEMMA ZerosFacts ==
    ASSUME NEW n \in Nat
    PROVE  /\ Zeros(n) \in Seq(Bytes) /\ Len(Zeros(n)) = n
           /\ \A i \in 1 .. n : Zeros(n)[i] = Zero
  BY ByteFacts DEF Zeros

LEMMA SizeFacts ==
    ASSUME NEW a \in Seq(RecordInfo), NEW r \in 1 .. Len(a)
    PROVE  /\ a[r].lsn \in Nat /\ a[r].length \in Nat
           /\ SizeIn(a, r) \in Nat /\ SizeIn(a, r) >= HEADER_SIZE
           /\ End(a, r) \in Nat /\ End(a, r) = a[r].lsn + SizeIn(a, r)
<1>1. a[r] \in RecordInfo
  BY ElementOfSeq
<1>2. a[r].lsn \in Nat /\ a[r].length \in Nat
  BY <1>1 DEF RecordInfo
<1> QED
  BY <1>2, HeaderSize DEF SizeIn, End

(***************************************************************************)
(* g is f with n bytes of a new record behind it, the last record of b.    *)
(***************************************************************************)
Extended(f, a, g, b, n) ==
    /\ g \in Seq(Bytes) /\ b \in Seq(RecordInfo) /\ Len(b) = Len(a) + 1
    /\ n \in 1 .. SizeIn(b, Len(b)) /\ Len(g) = Len(f) + n
    /\ \A i \in 1 .. Len(f) : g[i] = f[i]
    /\ \A i \in 1 .. Len(g) :
          i > Len(f) => i - Len(f) \in 1 .. n /\ g[i] = Byte(Len(b), i - Len(f))
    /\ \A r \in 1 .. Len(a) : b[r] = a[r]
    /\ b[Len(b)].lsn = Len(f) /\ b[Len(b)].written = n

\* append does that with the file.
LEMMA AppendExtends ==
    ASSUME NEW f \in Seq(Bytes), NEW a \in Seq(RecordInfo),
           NEW len \in Nat, NEW n \in 1 .. (HEADER_SIZE + len)
    PROVE  Extended(f, a, f \o BytesOf(Len(a) + 1, 1, n),
                    Append(a, [lsn |-> Len(f), length |-> len, written |-> n]), n)
<1> DEFINE t == BytesOf(Len(a) + 1, 1, n)
           e == [lsn |-> Len(f), length |-> len, written |-> n]
           g == f \o t
           b == Append(a, e)
<1>1. t \in Seq(Bytes) /\ Len(t) = n /\ \A p \in 1 .. n : t[p] = Byte(Len(a) + 1, p)
  <2>1. n \in Nat /\ 1 <= n + 1 /\ Len(a) + 1 \in Nat
    BY HeaderSize
  <2>2. /\ t \in Seq(Bytes) /\ Len(t) = n + 1 - 1
        /\ \A p \in 1 .. (n + 1 - 1) : t[p] = Byte(Len(a) + 1, 1 + p - 1)
    BY <2>1, BytesOfFacts
  <2>3. n + 1 - 1 = n /\ \A p \in 1 .. n : 1 + p - 1 = p
    BY <2>1
  <2> QED
    BY <2>2, <2>3
<1>2. e \in RecordInfo /\ e.lsn = Len(f) /\ e.length = len /\ e.written = n
  BY HeaderSize DEF RecordInfo
<1> HIDE DEF t, e
<1>4. Len(b) = Len(a) + 1 /\ b \in Seq(RecordInfo) /\ b[Len(b)] = e
      /\ \A r \in 1 .. Len(a) : b[r] = a[r]
  BY <1>2
<1>c. /\ g \in Seq(Bytes) /\ Len(g) = Len(f) + n
      /\ \A i \in 1 .. Len(f) + n : g[i] = IF i <= Len(f) THEN f[i] ELSE t[i - Len(f)]
  <2>1. /\ f \o t \in Seq(Bytes) /\ Len(f \o t) = Len(f) + Len(t)
        /\ \A i \in 1 .. Len(f) + Len(t) :
              (f \o t)[i] = IF i <= Len(f) THEN f[i] ELSE t[i - Len(f)]
    BY <1>1, ConcatProperties, Zenon
  <2> QED
    BY <2>1, <1>1
<1>n. n \in Nat /\ Len(f) \in Nat
  BY HeaderSize
<1>5. \A i \in 1 .. Len(f) : g[i] = f[i]
  BY <1>c, <1>n
<1>6. \A i \in 1 .. Len(g) :
         i > Len(f) => i - Len(f) \in 1 .. n /\ g[i] = t[i - Len(f)]
  BY <1>c, <1>n
<1>7. n \in 1 .. SizeIn(b, Len(b)) /\ b[Len(b)].lsn = Len(f) /\ b[Len(b)].written = n
  BY <1>2, <1>4 DEF SizeIn
<1>8. \A i \in 1 .. Len(g) :
         i > Len(f) => i - Len(f) \in 1 .. n /\ g[i] = Byte(Len(b), i - Len(f))
  BY <1>1, <1>4, <1>6
<1>9. Extended(f, a, g, b, n)
  <2> HIDE DEF g, b
  <2> QED
    BY <1>c, <1>4, <1>5, <1>7, <1>8 DEF Extended
<1> QED
  BY <1>9 DEF g, b, e, t

(***************************************************************************)
(* append keeps the file well formed, and what was whole stays so; a       *)
(* record written in full behind whole ones is whole.                      *)
(***************************************************************************)
LEMMA AppendWellFormed ==
    ASSUME NEW f \in Seq(Bytes), NEW a \in Seq(RecordInfo),
           WellFormed(f, a), NoZeros(f),
           NEW g, NEW b, NEW n, Extended(f, a, g, b, n)
    PROVE  WellFormed(g, b) /\ NoZeros(g)
<1> DEFINE q == Len(b)
<1>1. /\ g \in Seq(Bytes) /\ b \in Seq(RecordInfo) /\ q = Len(a) + 1
      /\ n \in 1 .. SizeIn(b, q) /\ Len(g) = Len(f) + n
      /\ \A i \in 1 .. Len(f) : g[i] = f[i]
      /\ \A i \in 1 .. Len(g) :
            i > Len(f) => i - Len(f) \in 1 .. n /\ g[i] = Byte(q, i - Len(f))
      /\ \A r \in 1 .. Len(a) : b[r] = a[r]
      /\ b[q].lsn = Len(f)
  BY DEF Extended
<1>n. n \in Nat /\ 1 <= n /\ Len(f) \in Nat /\ Len(a) \in Nat /\ q \in Nat /\ Len(b) = q
      /\ SizeIn(b, q) \in Nat
  <2>1. q \in 1 .. Len(b) /\ q \in Nat
    BY <1>1
  <2>2. SizeIn(b, q) \in Nat
    BY <1>1, <2>1, SizeFacts
  <2> QED
    BY <1>1, <2>1, <2>2
<1> HIDE DEF q
<1>s. \A r \in 1 .. Len(a) : SizeIn(b, r) = SizeIn(a, r) /\ b[r].lsn = a[r].lsn
  BY <1>1 DEF SizeIn
\* A byte of the new file is an old one or one of the new record.
<1>3. ASSUME NEW i \in 1 .. Len(g)
      PROVE  \/ /\ i \in 1 .. Len(f) /\ g[i] = f[i] /\ f[i] # Zero
                /\ f[i].rec \in 1 .. Len(a)
                /\ f[i].pos \in 1 .. SizeIn(a, f[i].rec)
                /\ i = a[f[i].rec].lsn + f[i].pos
             \/ /\ i - Len(f) \in 1 .. n
                /\ g[i].rec = q /\ g[i].pos = i - Len(f)
  <2>1. CASE i <= Len(f)
    <3>1. i \in 1 .. Len(f)
      BY <2>1, <1>n
    <3> QED
      BY <3>1, <1>1 DEF WellFormed, Placed, NoZeros
  <2>2. CASE ~ i <= Len(f)
    <3>1. i > Len(f) /\ i \in 1 .. Len(g)
      BY <2>2, <1>n, <1>1
    <3>2. i - Len(f) \in 1 .. n /\ g[i] = Byte(q, i - Len(f))
      BY <3>1, <1>1
    <3>3. i - Len(f) \in Nat
      BY <3>2
    <3>4. g[i].rec = q /\ g[i].pos = i - Len(f)
      BY <3>2, <3>3, <1>n, ByteFacts
    <3> QED
      BY <3>2, <3>4
  <2> QED
    BY <2>1, <2>2
<1>4. NoZeros(g)
  <2>1. ASSUME NEW i \in 1 .. Len(g) PROVE g[i] # Zero
    <3>1. CASE i \in 1 .. Len(f) /\ g[i] = f[i] /\ f[i] # Zero
      BY <3>1
    <3>2. CASE g[i].rec = q
      BY <3>2, <1>n, <1>1, ByteFacts
    <3> QED
      BY <3>1, <3>2, <1>3
  <2> QED
    BY <2>1 DEF NoZeros
<1>5. Placed(g, b)
  <2>1. ASSUME NEW i \in 1 .. Len(g)
        PROVE  /\ g[i].rec \in 1 .. Len(b)
               /\ g[i].pos \in 1 .. SizeIn(b, g[i].rec)
               /\ i = b[g[i].rec].lsn + g[i].pos
    <3>1. CASE /\ i \in 1 .. Len(f) /\ g[i] = f[i] /\ f[i] # Zero
               /\ f[i].rec \in 1 .. Len(a)
               /\ f[i].pos \in 1 .. SizeIn(a, f[i].rec)
               /\ i = a[f[i].rec].lsn + f[i].pos
      <4>1. f[i].rec \in 1 .. Len(b)
        BY <3>1, <1>n, <1>1
      <4> QED
        BY <4>1, <3>1, <1>s
    <3>2. CASE /\ i - Len(f) \in 1 .. n
               /\ g[i].rec = q /\ g[i].pos = i - Len(f)
      <4>1. q \in 1 .. Len(b) /\ i - Len(f) \in 1 .. SizeIn(b, q)
        BY <3>2, <1>n, <1>1
      <4>2. i = Len(f) + (i - Len(f))
        BY <1>n
      <4>3. PICK k : k = i - Len(f)
        OBVIOUS
      <4> QED
        BY <4>1, <4>2, <4>3, <3>2, <1>1
    <3> QED
      BY <3>1, <3>2, <1>3
  <2> QED
    BY <2>1 DEF Placed
<1>6. Prefixed(g, b)
  <2>1. ASSUME NEW i \in 1 .. Len(g), NEW p \in 1 .. g[i].pos
        PROVE  g[b[g[i].rec].lsn + p] = Byte(g[i].rec, p)
    <3>1. CASE /\ i \in 1 .. Len(f) /\ g[i] = f[i] /\ f[i] # Zero
               /\ f[i].rec \in 1 .. Len(a)
               /\ f[i].pos \in 1 .. SizeIn(a, f[i].rec)
               /\ i = a[f[i].rec].lsn + f[i].pos
      <4>1. f[a[f[i].rec].lsn + p] = Byte(f[i].rec, p)
        BY <3>1 DEF WellFormed, Prefixed
      <4>2. a[f[i].rec].lsn \in Nat /\ SizeIn(a, f[i].rec) \in Nat
        BY <3>1, SizeFacts
      <4>3. f[i].pos \in Nat /\ p \in 1 .. f[i].pos
        BY <3>1, <4>2
      <4>4. PICK l \in Nat, k \in Nat : l = a[f[i].rec].lsn /\ k = f[i].pos
        BY <4>2, <4>3
      <4>5. p \in 1 .. k /\ i = l + k /\ i \in 1 .. Len(f)
        BY <4>3, <4>4, <3>1
      <4>6. l + p \in 1 .. Len(f)
        BY <4>5, <1>n
      <4>7. g[l + p] = f[l + p]
        BY <4>6, <1>1
      <4> QED
        BY <4>1, <4>4, <4>7, <3>1, <1>s
    <3>2. CASE /\ i - Len(f) \in 1 .. n
               /\ g[i].rec = q /\ g[i].pos = i - Len(f)
      <4>1. p \in 1 .. n
        BY <3>2, <1>n
      <4>2. PICK k : k = Len(f) + p
        OBVIOUS
      <4>3. k \in 1 .. Len(g) /\ k > Len(f) /\ k - Len(f) = p
        BY <4>1, <4>2, <1>1, <1>n
      <4> QED
        BY <4>2, <4>3, <3>2, <1>1
    <3> QED
      BY <3>1, <3>2, <1>3
  <2> QED
    BY <2>1 DEF Prefixed
<1>7. ZerosLast(g)
  BY <1>4 DEF ZerosLast, NoZeros
<1>8. InOrder(g)
  <2>1. ASSUME NEW i \in 1 .. Len(g), NEW j \in 1 .. Len(g), i < j
        PROVE  g[i].rec <= g[j].rec
    <3>1. CASE /\ i \in 1 .. Len(f) /\ g[i] = f[i] /\ f[i] # Zero
               /\ f[i].rec \in 1 .. Len(a)
      <4>1. CASE /\ j \in 1 .. Len(f) /\ g[j] = f[j] /\ f[j] # Zero
        BY <4>1, <3>1, <2>1 DEF WellFormed, InOrder
      <4>2. CASE g[j].rec = q
        <5>1. g[i].rec \in 1 .. Len(a)
          BY <3>1
        <5>2. g[j].rec = Len(a) + 1
          BY <4>2, <1>1
        <5> QED
          BY <5>1, <5>2, <1>n
      <4> QED
        BY <4>1, <4>2, <1>3
    <3>2. CASE i - Len(f) \in 1 .. n /\ g[i].rec = q
      <4>1. ~ j \in 1 .. Len(f)
        BY <3>2, <2>1, <1>n
      <4>2. g[j].rec = q
        BY <4>1, <1>3
      <4>3. g[i].rec = q
        BY <3>2
      <4> QED
        BY <4>2, <4>3, <1>n
    <3> QED
      BY <3>1, <3>2, <1>3
  <2> QED
    BY <2>1 DEF InOrder
<1> QED
  BY <1>4, <1>5, <1>6, <1>7, <1>8 DEF WellFormed

LEMMA AppendKeepsWhole ==
    ASSUME NEW f \in Seq(Bytes), NEW a \in Seq(RecordInfo), WellFormed(f, a),
           NEW g, NEW b, NEW n, Extended(f, a, g, b, n)
    PROVE  /\ \A r \in 1 .. Len(a) : SizeIn(b, r) = SizeIn(a, r) /\ End(b, r) = End(a, r)
           /\ \A r \in 1 .. Len(a) : Whole(f, a, r) => Whole(g, b, r)
           /\ \A m : WholeTo(f, a, m) => WholeTo(g, b, m)
           /\ n = SizeIn(b, Len(b)) /\ WholeTo(f, a, Len(f)) => WholeTo(g, b, Len(g))
<1>1. /\ g \in Seq(Bytes) /\ b \in Seq(RecordInfo) /\ Len(b) = Len(a) + 1
      /\ n \in 1 .. SizeIn(b, Len(b)) /\ Len(g) = Len(f) + n
      /\ \A i \in 1 .. Len(f) : g[i] = f[i]
      /\ \A i \in 1 .. Len(g) :
            i > Len(f) => i - Len(f) \in 1 .. n /\ g[i] = Byte(Len(b), i - Len(f))
      /\ \A r \in 1 .. Len(a) : b[r] = a[r]
      /\ b[Len(b)].lsn = Len(f)
  BY DEF Extended
<1>2. \A r \in 1 .. Len(a) : /\ SizeIn(b, r) = SizeIn(a, r)
                             /\ End(b, r) = End(a, r)
                             /\ b[r].lsn = a[r].lsn
  BY <1>1 DEF SizeIn, End
<1>n. n \in Nat /\ 1 <= n /\ Len(f) \in Nat /\ Len(a) \in Nat
  <2>1. Len(b) \in 1 .. Len(b)
    BY <1>1
  <2>2. SizeIn(b, Len(b)) \in Nat
    BY <1>1, <2>1, SizeFacts
  <2> QED
    BY <1>1, <2>2
<1>3. ASSUME NEW r \in 1 .. Len(a), Whole(f, a, r)
      PROVE  Whole(g, b, r)
  <2>1. a[r].lsn \in Nat /\ SizeIn(a, r) \in Nat /\ End(a, r) = a[r].lsn + SizeIn(a, r)
        /\ End(a, r) <= Len(f)
    BY <1>3, SizeFacts DEF Whole
  <2>0. PICK l \in Nat, z \in Nat : l = a[r].lsn /\ z = SizeIn(a, r)
    BY <2>1
  <2>2. End(b, r) <= Len(g)
    BY <2>1, <1>1, <1>2, <1>n
  <2>3. ASSUME NEW p \in 1 .. SizeIn(b, r)
        PROVE  g[b[r].lsn + p] = Byte(r, p)
    <3>1. p \in 1 .. SizeIn(a, r) /\ b[r].lsn = a[r].lsn
      BY <1>2
    <3>2. f[a[r].lsn + p] = Byte(r, p)
      BY <3>1, <1>3 DEF Whole
    <3>3. l + p \in 1 .. Len(f)
      <4>1. p \in 1 .. z /\ l + z <= Len(f)
        BY <3>1, <2>0, <2>1
      <4> QED
        BY <4>1, <1>n
    <3>4. g[l + p] = f[l + p]
      BY <3>3, <1>1
    <3> QED
      BY <3>1, <3>2, <3>4, <2>0
  <2> QED
    BY <2>2, <2>3 DEF Whole
<1>4. ASSUME NEW m, WholeTo(f, a, m)
      PROVE  WholeTo(g, b, m)
  <2>1. m \in 0 .. Len(f)
    BY <1>4 DEF WholeTo
  <2>2. m \in 0 .. Len(g)
    BY <2>1, <1>1, <1>n
  <2>3. ASSUME NEW i \in 1 .. m
        PROVE  g[i] # Zero /\ Whole(g, b, g[i].rec) /\ End(b, g[i].rec) <= m
    <3>1. i \in 1 .. Len(f) /\ g[i] = f[i]
      BY <2>1, <1>1
    <3>2. f[i] # Zero /\ Whole(f, a, f[i].rec) /\ End(a, f[i].rec) <= m
      BY <1>4 DEF WholeTo
    <3>3. f[i].rec \in 1 .. Len(a)
      BY <3>1, <3>2 DEF WellFormed, Placed
    <3> QED
      BY <3>1, <3>2, <3>3, <1>2, <1>3
  <2> QED
    BY <2>2, <2>3 DEF WholeTo
<1>5. ASSUME n = SizeIn(b, Len(b)), WholeTo(f, a, Len(f))
      PROVE  WholeTo(g, b, Len(g))
  <2> DEFINE q == Len(b)
  <2>1. End(b, q) = Len(g)
    BY <1>5, <1>1 DEF End
  <2>2. Len(g) \in Nat /\ q \in Nat /\ q # 0
    BY <1>1, <1>n
  <2>3. \A p \in 1 .. SizeIn(b, q) : g[b[q].lsn + p] = Byte(q, p)
    <3>1. ASSUME NEW p \in 1 .. SizeIn(b, q) PROVE g[b[q].lsn + p] = Byte(q, p)
      <4>1. PICK k : k = Len(f) + p
        OBVIOUS
      <4>2. k \in 1 .. Len(g) /\ k > Len(f) /\ k - Len(f) = p
        BY <4>1, <1>5, <1>1, <1>n
      <4> QED
        BY <4>1, <4>2, <1>1
    <3> QED
      BY <3>1
  <2>4. Whole(g, b, q)
    BY <2>1, <2>2, <2>3 DEF Whole
  <2>5. ASSUME NEW i \in 1 .. Len(g)
        PROVE  g[i] # Zero /\ Whole(g, b, g[i].rec) /\ End(b, g[i].rec) <= Len(g)
    <3>1. CASE i <= Len(f)
      <4>1. i \in 1 .. Len(f)
        BY <3>1, <1>n
      <4>2. WholeTo(g, b, Len(f))
        BY <1>4, <1>5
      <4>3. g[i] # Zero /\ Whole(g, b, g[i].rec)
        BY <4>1, <4>2 DEF WholeTo
      <4> QED
        BY <4>3 DEF Whole
    <3>2. CASE ~ i <= Len(f)
      <4>1. i > Len(f) /\ i \in 1 .. Len(g)
        BY <3>2, <1>n, <1>1
      <4>2. i - Len(f) \in Nat /\ g[i] = Byte(q, i - Len(f))
        BY <4>1, <1>1
      <4>3. g[i].rec = q /\ g[i] # Zero
        BY <4>2, <2>2, ByteFacts
      <4> QED
        BY <4>3, <2>4 DEF Whole
    <3> QED
      BY <3>1, <3>2
  <2> QED
    BY <2>2, <2>5 DEF WholeTo
<1> QED
  BY <1>2, <1>3, <1>4, <1>5

(***************************************************************************)
(* g is what is left of f: its first m bytes, and zeros where it was       *)
(* longer.                                                                 *)
(***************************************************************************)
Cut(f, g, m) ==
    /\ g \in Seq(Bytes)
    /\ m \in 0 .. Len(f) /\ m <= Len(g) /\ Len(g) <= Len(f)
    /\ \A i \in 1 .. Len(g) : g[i] = IF i <= m THEN f[i] ELSE Zero

LEMMA CutsOff ==
    ASSUME NEW f \in Seq(Bytes), NEW m \in 0 .. Len(f), NEW z \in 0 .. (Len(f) - m)
    PROVE  /\ Cut(f, SubSeq(f, 1, m), m) /\ Len(SubSeq(f, 1, m)) = m
           /\ Cut(f, SubSeq(f, 1, m) \o Zeros(z), m)
           /\ Len(SubSeq(f, 1, m) \o Zeros(z)) = m + z
<1> DEFINE s == SubSeq(f, 1, m)
           t == Zeros(z)
<1>n. Len(f) \in Nat /\ m \in Nat /\ z \in Nat /\ m + z <= Len(f)
  OBVIOUS
<1>1. s \in Seq(Bytes) /\ Len(s) = m /\ \A i \in 1 .. m : s[i] = f[i]
  BY <1>n
<1>2. t \in Seq(Bytes) /\ Len(t) = z /\ \A i \in 1 .. z : t[i] = Zero
  BY <1>n, ZerosFacts
<1> HIDE DEF s, t
<1>3. /\ s \o t \in Seq(Bytes) /\ Len(s \o t) = Len(s) + Len(t)
      /\ \A i \in 1 .. Len(s) + Len(t) :
            (s \o t)[i] = IF i <= Len(s) THEN s[i] ELSE t[i - Len(s)]
  BY <1>1, <1>2, ConcatProperties, Zenon
<1>4. Cut(f, s, m)
  BY <1>1, <1>n DEF Cut
<1>5. ASSUME NEW i \in 1 .. (m + z)
      PROVE  (s \o t)[i] = IF i <= m THEN f[i] ELSE Zero
  <2>1. CASE i <= m
    <3>1. i \in 1 .. m
      BY <2>1, <1>n
    <3> QED
      BY <2>1, <3>1, <1>1, <1>2, <1>3
  <2>2. CASE ~ i <= m
    <3>1. i - m \in 1 .. z
      BY <2>2, <1>n
    <3>2. (s \o t)[i] = t[i - m]
      BY <2>2, <1>1, <1>2, <1>3
    <3> QED
      BY <2>2, <3>1, <3>2, <1>2
  <2> QED
    BY <2>1, <2>2
<1>6. Len(s \o t) = m + z
  BY <1>1, <1>2, <1>3
<1>7. Cut(f, s \o t, m)
  BY <1>3, <1>5, <1>6, <1>n DEF Cut
<1> QED
  BY <1>1, <1>4, <1>6, <1>7 DEF s, t

\* What is left is well formed, and what was whole within it still is.
LEMMA CutWellFormed ==
    ASSUME NEW f \in Seq(Bytes), NEW a \in Seq(RecordInfo), WellFormed(f, a),
           NEW g, NEW m, Cut(f, g, m)
    PROVE  /\ WellFormed(g, a)
           /\ \A r \in 1 .. Len(a) : Whole(f, a, r) /\ End(a, r) <= m => Whole(g, a, r)
           /\ \A k \in 0 .. m : WholeTo(f, a, k) => WholeTo(g, a, k)
<1>1. /\ g \in Seq(Bytes) /\ Len(g) \in Nat /\ Len(f) \in Nat
      /\ m \in 0 .. Len(f) /\ m <= Len(g) /\ Len(g) <= Len(f)
      /\ \A i \in 1 .. Len(g) : g[i] = IF i <= m THEN f[i] ELSE Zero
  BY DEF Cut
<1>2. \A i \in 1 .. Len(g) : i \in 1 .. Len(f)
  BY <1>1
<1>3. \A i \in 1 .. Len(g) : g[i] # Zero => i <= m /\ g[i] = f[i]
  BY <1>1
<1>4. Placed(g, a)
  BY <1>2, <1>3 DEF WellFormed, Placed
<1>5. Prefixed(g, a)
  <2>1. ASSUME NEW i \in 1 .. Len(g), g[i] # Zero, NEW p \in 1 .. g[i].pos
        PROVE  g[a[g[i].rec].lsn + p] = Byte(g[i].rec, p)
    <3>1. /\ i \in 1 .. Len(f) /\ i <= m /\ g[i] = f[i] /\ f[i] # Zero
      BY <2>1, <1>2, <1>3
    <3>2. /\ f[i].rec \in 1 .. Len(a)
          /\ f[i].pos \in 1 .. SizeIn(a, f[i].rec)
          /\ i = a[f[i].rec].lsn + f[i].pos
      BY <3>1 DEF WellFormed, Placed
    <3>3. f[a[f[i].rec].lsn + p] = Byte(f[i].rec, p)
      BY <3>1 DEF WellFormed, Prefixed
    <3>4. PICK r, l, k : r = f[i].rec /\ l = a[r].lsn /\ k = f[i].pos
      OBVIOUS
    <3>n. r \in 1 .. Len(a) /\ l \in Nat /\ k \in Nat
      <4>1. r \in 1 .. Len(a) /\ k \in 1 .. SizeIn(a, r)
        BY <3>2, <3>4, Zenon
      <4>2. l \in Nat /\ SizeIn(a, r) \in Nat
        BY <4>1, <3>4, SizeFacts
      <4> QED
        BY <4>1, <4>2
    <3>r. i = l + k
      BY <3>2, <3>4, Zenon
    <3>p. p \in 1 .. k
      BY <3>1, <3>4, Zenon
    <3>5. i = l + k /\ p \in 1 .. k /\ i <= m /\ i \in Nat
      BY <3>1, <3>r, <3>p
    <3>6. l + p \in 1 .. Len(g) /\ l + p <= m
      BY <3>5, <3>n, <1>1
    <3>7. g[l + p] = f[l + p]
      BY <3>6, <1>1
    <3> QED
      BY <3>1, <3>3, <3>4, <3>7, Zenon
  <2> QED
    BY <2>1 DEF Prefixed
<1>6. ZerosLast(g)
  <2>1. ASSUME NEW i \in 1 .. Len(g), NEW j \in 1 .. Len(g), i < j, g[i] = Zero, g[j] # Zero
        PROVE  FALSE
    <3>1. j <= m /\ i <= m /\ g[j] = f[j] /\ g[i] = f[i]
      BY <2>1, <1>1
    <3> QED
      BY <3>1, <2>1, <1>2 DEF WellFormed, ZerosLast
  <2> QED
    BY <2>1 DEF ZerosLast
<1>7. InOrder(g)
  <2>1. ASSUME NEW i \in 1 .. Len(g), NEW j \in 1 .. Len(g), i < j, g[j] # Zero
        PROVE  g[i].rec <= g[j].rec
    <3>1. j <= m /\ i <= m /\ g[j] = f[j] /\ g[i] = f[i]
      BY <2>1, <1>1
    <3> QED
      BY <3>1, <2>1, <1>2 DEF WellFormed, InOrder
  <2> QED
    BY <2>1 DEF InOrder
<1>8. ASSUME NEW r \in 1 .. Len(a), Whole(f, a, r), End(a, r) <= m
      PROVE  Whole(g, a, r)
  <2>1. PICK l \in Nat, z \in Nat : l = a[r].lsn /\ z = SizeIn(a, r)
    BY SizeFacts
  <2>2. End(a, r) = l + z /\ l + z <= m
    BY <1>8, <2>1 DEF End
  <2>3. \A p \in 1 .. z : f[l + p] = Byte(r, p)
    BY <1>8, <2>1 DEF Whole
  <2>4. \A p \in 1 .. z : l + p \in 1 .. Len(g) /\ l + p <= m
    BY <2>2, <1>1
  <2>5. \A p \in 1 .. z : g[l + p] = Byte(r, p)
    BY <2>3, <2>4, <1>1
  <2>6. End(a, r) <= Len(g)
    BY <2>2, <1>1
  <2> QED
    BY <2>1, <2>5, <2>6 DEF Whole
<1>9. ASSUME NEW k \in 0 .. m, WholeTo(f, a, k)
      PROVE  WholeTo(g, a, k)
  <2>1. ASSUME NEW i \in 1 .. k
        PROVE  g[i] # Zero /\ Whole(g, a, g[i].rec) /\ End(a, g[i].rec) <= k
    <3>1. i \in 1 .. Len(g) /\ i \in 1 .. Len(f) /\ g[i] = f[i]
      BY <1>1
    <3>2. f[i] # Zero /\ Whole(f, a, f[i].rec) /\ End(a, f[i].rec) <= k
      BY <1>9 DEF WholeTo
    <3>3. f[i].rec \in 1 .. Len(a)
      BY <3>1, <3>2 DEF WellFormed, Placed
    <3>4. End(a, f[i].rec) \in Nat
      BY <3>3, SizeFacts
    <3>5. End(a, f[i].rec) <= m
      BY <3>2, <3>4, <1>1
    <3> QED
      BY <3>1, <3>2, <3>3, <3>5, <1>8
  <2>2. k \in 0 .. Len(g)
    BY <1>1
  <2> QED
    BY <2>1, <2>2 DEF WholeTo
<1> QED
  BY <1>4, <1>5, <1>6, <1>7, <1>8, <1>9 DEF WellFormed

-----------------------------------------------------------------------------
(* Reading a record *)

\* The bytes i to j behind offset o.
Field(f, o, i, j) ==
    /\ SubSeq(f, o + i, o + j) \in Seq(Bytes)
    /\ Len(SubSeq(f, o + i, o + j)) = j + 1 - i
    /\ \A k \in 1 .. (j + 1 - i) : SubSeq(f, o + i, o + j)[k] = f[o + i + k - 1]

\* They are a part of record r if each of them is.
FieldOf(f, o, i, j, r) ==
    SubSeq(f, o + i, o + j) = BytesOf(r, i, j)
        <=> \A p \in i .. j : f[o + p] = Byte(r, p)

LEMMA FieldFacts ==
    ASSUME NEW f \in Seq(Bytes), NEW o \in Nat,
           NEW i \in Nat \ {0}, NEW j \in Nat, i <= j + 1, o + j <= Len(f)
    PROVE  Field(f, o, i, j) /\ \A r \in Nat : FieldOf(f, o, i, j, r)
<1> DEFINE s == SubSeq(f, o + i, o + j)
           n == j + 1 - i
<1>0. Len(f) \in Nat /\ n \in Nat /\ o + i \in Nat /\ o + j \in Nat /\ (o + j) - (o + i) + 1 = n
  OBVIOUS
<1>1. /\ s \in Seq(Bytes) /\ Len(s) = n
      /\ \A k \in 1 .. n : s[k] = f[o + i + k - 1]
  <2>1. \A k \in (o + i) .. (o + j) : f[k] \in Bytes
    <3>1. \A k \in (o + i) .. (o + j) : k \in 1 .. Len(f)
      BY <1>0
    <3> QED
      BY <3>1, ElementOfSeq
  <2>2. /\ s \in Seq(Bytes)
        /\ Len(s) = IF o + i <= o + j THEN (o + j) - (o + i) + 1 ELSE 0
        /\ \A k \in 1 .. (o + j) - (o + i) + 1 : s[k] = f[(o + i) + k - 1]
    BY <2>1, <1>0, SubSeqProperties
  <2> QED
    BY <2>2, <1>0
<1>2. ASSUME NEW r \in Nat
      PROVE  FieldOf(f, o, i, j, r)
  <2> DEFINE b == BytesOf(r, i, j)
  <2>2. /\ b \in Seq(Bytes) /\ Len(b) = n
        /\ \A k \in 1 .. n : b[k] = Byte(r, i + k - 1)
    BY BytesOfFacts, ZenonT(30)
  <2> HIDE DEF s, b
  <2>3. ASSUME s = b, NEW p \in i .. j
        PROVE  f[o + p] = Byte(r, p)
    <3>1. PICK k : k = p - i + 1
      OBVIOUS
    <3>2. k \in 1 .. n /\ o + i + k - 1 = o + p /\ i + k - 1 = p
      BY <3>1
    <3> QED
      BY <3>2, <1>1, <2>2, <2>3
  <2>4. ASSUME \A p \in i .. j : f[o + p] = Byte(r, p)
        PROVE  s = b
    <3>1. ASSUME NEW k \in 1 .. n
          PROVE  s[k] = b[k]
      <4>1. PICK p : p = i + k - 1
        OBVIOUS
      <4>2. p \in i .. j /\ o + i + k - 1 = o + p
        BY <4>1
      <4> QED
        BY <4>1, <4>2, <1>1, <2>2, <2>4
    <3> QED
      BY <3>1, <1>1, <2>2, SeqEqual
  <2> QED
    BY <2>3, <2>4 DEF s, b, FieldOf
<1>3. Field(f, o, i, j)
  BY <1>1 DEF Field
<1> QED
  BY <1>2, <1>3

LEMMA RecordEnds ==
    \A r : Size(r) = SizeIn(appended, r)
  BY DEF Size, SizeIn

LEMMA IsWholeIffWhole ==
    ASSUME file \in Seq(Bytes), appended \in Seq(RecordInfo), NEW r \in 1 .. Len(appended)
    PROVE  IsWhole(r) <=> Whole(file, appended, r)
<1> DEFINE o == appended[r].lsn
           z == Size(r)
<1>1. o \in Nat /\ z \in Nat \ {0} /\ End(appended, r) = o + z /\ r \in Nat
  BY SizeFacts, RecordEnds, HeaderSize
<1>2. ASSUME o + z <= Len(file)
      PROVE  FieldOf(file, o, 1, z, r)
  BY <1>1, <1>2, FieldFacts
<1> QED
  BY <1>1, <1>2, RecordEnds DEF IsWhole, Whole, FieldOf

\* A byte of a record says where the record is.
Tells(f, a, r, p, i) ==
    /\ r \in 1 .. Len(a) /\ p \in 1 .. SizeIn(a, r) /\ i = a[r].lsn + p
    /\ \A k \in 1 .. p : f[a[r].lsn + k] = Byte(r, k)

LEMMA ByteTells ==
    ASSUME NEW f \in Seq(Bytes), NEW a \in Seq(RecordInfo), WellFormed(f, a),
           NEW r \in Nat, NEW p \in Nat \ {0}, NEW i \in 1 .. Len(f), f[i] = Byte(r, p)
    PROVE  Tells(f, a, r, p, i)
<1>1. f[i].rec = r /\ f[i].pos = p /\ f[i] # Zero
  BY ByteFacts
<1>2. /\ f[i].rec \in 1 .. Len(a)
      /\ f[i].pos \in 1 .. SizeIn(a, f[i].rec)
      /\ i = a[f[i].rec].lsn + f[i].pos
  BY <1>1 DEF WellFormed, Placed
<1>3. \A k \in 1 .. f[i].pos : f[a[f[i].rec].lsn + k] = Byte(f[i].rec, k)
  BY <1>1 DEF WellFormed, Prefixed
<1> QED
  BY <1>1, <1>2, <1>3 DEF Tells

(***************************************************************************)
(* What passes the CRC at offset o is a record that was appended there,    *)
(* whole: zeros do not, and neither do bytes of two records.               *)
(***************************************************************************)
LEMMA ValidIsWhole ==
    ASSUME file \in Seq(Bytes), appended \in Seq(RecordInfo),
           WellFormed(file, appended),
           NEW o \in Nat, Valid(o)
    PROVE  \E r \in 1 .. Len(appended) :
              /\ appended[r].lsn = o
              /\ Whole(file, appended, r)
              /\ PayloadLength(o) = appended[r].length
<1> DEFINE H == HEADER_SIZE
           I == IntSize
           L == PayloadLength(o)
           F == SubSeq(file, o + 1, o + I)
           C == SubSeq(file, o + I + 1, o + 2 * I)
<1>h. H \in Nat /\ H = I + I + 1 /\ I \in Nat \ {0} /\ 2 * I = I + I
  BY HeaderSize
<1>1. o + H <= Len(file) /\ o + H + L <= Len(file) /\ StoredCrc(o) = Checked(o)
  BY DEF Valid, HasHeader, NextPosition
<1>b. \A i \in 1 .. Len(file) : file[i] \in Bytes /\ file[i].rec \in Nat
  <2>1. \A i \in 1 .. Len(file) : file[i] \in Bytes
    BY ElementOfSeq
  <2> QED
    BY <2>1 DEF Bytes
<1>l. L = IF F = Zeros(I) THEN 0
          ELSE IF F = BytesOf(F[1].rec, 1, I) THEN appended[F[1].rec].length
          ELSE Len(file)
  BY DEF PayloadLength
<1>2. L \in Nat
  <2>1. 1 \in Nat \ {0} /\ I \in Nat /\ 1 <= I + 1 /\ o + I <= Len(file)
    BY <1>h, <1>1
  <2>2. CASE F = Zeros(I)
    BY <2>2, <1>l
  <2>3. CASE F # Zeros(I) /\ F = BytesOf(F[1].rec, 1, I)
    <3>1. PICK r : r = F[1].rec
      OBVIOUS
    <3>2. F[1] = file[o + 1 + 1 - 1] /\ 1 \in 1 .. (I + 1 - 1)
      <4>1. 1 \in 1 .. (I + 1 - 1)
        BY <1>h
      <4>2. Field(file, o, 1, I)
        BY <2>1, FieldFacts
      <4> QED
        BY <4>1, <4>2 DEF Field
    <3>3. r \in Nat
      <4>1. o + 1 + 1 - 1 \in 1 .. Len(file)
        BY <2>1, <1>h
      <4> QED
        BY <4>1, <3>1, <3>2, <1>b
    <3>4. \A p \in 1 .. I : file[o + p] = Byte(r, p)
      <4>1. FieldOf(file, o, 1, I, r)
        BY <2>1, <3>3, FieldFacts
      <4> QED
        BY <2>3, <3>1, <4>1 DEF FieldOf
    <3>5. 1 \in 1 .. I /\ o + 1 \in 1 .. Len(file)
      BY <2>1, <1>h
    <3>6. file[o + 1] = Byte(r, 1)
      BY <3>4, <3>5
    <3>7. r \in 1 .. Len(appended)
      <4>1. Tells(file, appended, r, 1, o + 1)
        BY <3>3, <3>5, <3>6, <2>1, ByteTells
      <4> QED
        BY <4>1 DEF Tells
    <3>8. L = appended[r].length
      BY <2>3, <3>1, <1>l
    <3> QED
      BY <3>7, <3>8, SizeFacts
  <2>4. CASE F # Zeros(I) /\ F # BytesOf(F[1].rec, 1, I)
    <3>1. L = Len(file)
      BY <2>4, <1>l
    <3> QED
      BY <3>1
  <2> QED
    BY <2>2, <2>3, <2>4
<1> HIDE DEF L, F, H, I
<1>3. /\ H \in Nat \ {0} /\ H + L \in Nat /\ H <= (H + L) + 1 /\ o + (H + L) <= Len(file)
      /\ o + H + L = o + (H + L) /\ (H + L) + 1 - H = L + 1
  BY <1>h, <1>1, <1>2
<1>c. Checked(o) = SubSeq(file, o + H, o + (H + L))
  <2>1. Checked(o) = SubSeq(file, o + H, o + H + L)
    BY DEF Checked, H, L
  <2> QED
    BY <2>1, <1>3
<1>4. /\ Len(Checked(o)) = L + 1
      /\ \A k \in 1 .. (L + 1) : Checked(o)[k] = file[o + H + k - 1]
  <2>1. Field(file, o, H, H + L)
    BY <1>3, FieldFacts
  <2>2. /\ Len(Checked(o)) = (H + L) + 1 - H
        /\ \A k \in 1 .. ((H + L) + 1 - H) : Checked(o)[k] = file[o + H + k - 1]
    BY <1>c, <2>1 DEF Field
  <2> QED
    BY <2>2, <1>3
<1>5. Checked(o) # << >>
  BY <1>4, <1>2
<1>6. Checked(o) # Garbage
  <2> SUFFICES ASSUME Checked(o) = Garbage
               PROVE  FALSE
    OBVIOUS
  <2>1. Len(Garbage) = 2 /\ Garbage[2] = Byte(0, 1)
    BY DEF Garbage
  <2>0. L + 1 = 2
    BY <2>1, <1>4
  <2>2. 2 \in 1 .. (L + 1) /\ o + H + 2 - 1 = o + H + 1 /\ o + H + 1 \in 1 .. Len(file)
    BY <2>0, <1>2, <1>3
  <2>3. file[o + H + 1] = Byte(0, 1)
    BY <2>1, <2>2, <1>4
  <2>4. 0 \in Nat /\ 1 \in Nat \ {0} /\ ~ 0 \in 1 .. Len(appended)
    OBVIOUS
  <2>5. Tells(file, appended, 0, 1, o + H + 1)
    BY <2>2, <2>3, <2>4, ByteTells
  <2> QED
    BY <2>4, <2>5 DEF Tells
<1>7. PICK r : /\ r = C[1].rec
               /\ C = BytesOf(r, I + 1, 2 * I)
               /\ Checked(o) = BytesOf(r, H, Size(r))
  <2>1. StoredCrc(o) = IF C = Zeros(I) THEN << >>
                       ELSE IF C = BytesOf(C[1].rec, I + 1, 2 * I)
                            THEN BytesOf(C[1].rec, H, Size(C[1].rec))
                       ELSE Garbage
    BY DEF StoredCrc, H, I
  <2> HIDE DEF C
  <2> QED
    BY <2>1, <1>1, <1>5, <1>6
<1> DEFINE K == I + 1
           J == 2 * I
<1>8. /\ K \in Nat \ {0} /\ J \in Nat /\ K <= J + 1 /\ o + J <= Len(file)
      /\ o + I + 1 = o + K /\ 1 \in 1 .. (J + 1 - K) /\ K \in K .. J
      /\ o + K + 1 - 1 \in 1 .. Len(file) /\ o + K \in 1 .. Len(file)
  BY <1>h, <1>1
<1> HIDE DEF K, J
<1>9. C = SubSeq(file, o + K, o + J)
  BY <1>8 DEF J
<1>10. C = BytesOf(r, K, J)
  BY <1>7 DEF K, J
<1> HIDE DEF C
<1>11. r \in Nat
  <2>1. C[1] = file[o + K + 1 - 1]
    <3>1. Field(file, o, K, J)
      BY <1>8, FieldFacts
    <3> QED
      BY <3>1, <1>8, <1>9 DEF Field
  <2> QED
    BY <2>1, <1>7, <1>8, <1>b
<1>12. file[o + K] = Byte(r, K)
  <2>1. FieldOf(file, o, K, J, r)
    BY <1>8, <1>11, FieldFacts
  <2> QED
    BY <2>1, <1>8, <1>9, <1>10 DEF FieldOf
<1>13. r \in 1 .. Len(appended) /\ o + K = appended[r].lsn + K
  <2>1. Tells(file, appended, r, K, o + K)
    BY <1>8, <1>11, <1>12, ByteTells
  <2> QED
    BY <2>1 DEF Tells
<1>14. appended[r].lsn = o
  BY <1>13, <1>8, SizeFacts
<1>15. Size(r) \in Nat /\ Size(r) >= H /\ Size(r) = H + appended[r].length
       /\ appended[r].length \in Nat
  BY <1>13, SizeFacts, RecordEnds DEF H, Size
<1>16. L = appended[r].length
  <2>1. PICK S : S = Size(r)
    OBVIOUS
  <2>2. S \in Nat /\ H <= S + 1 /\ S = H + appended[r].length
    BY <2>1, <1>h, <1>15
  <2>3. Len(BytesOf(r, H, S)) = S + 1 - H
    BY <2>2, <1>h, <1>11, BytesOfFacts
  <2>4. L + 1 = S + 1 - H
    BY <2>1, <2>3, <1>4, <1>7
  <2> QED
    BY <2>2, <2>4, <1>2, <1>h, <1>15, SMTT(30)
<1>17. Checked(o) = BytesOf(r, H, H + L)
  BY <1>7, <1>15, <1>16
<1>18. \A p \in H .. (H + L) : file[o + p] = Byte(r, p)
  <2>1. FieldOf(file, o, H, H + L, r)
    BY <1>3, <1>11, FieldFacts
  <2> QED
    BY <2>1, <1>17, <1>c DEF FieldOf
<1>19. Whole(file, appended, r)
  <2>1. SizeIn(appended, r) = H + L /\ End(appended, r) = o + (H + L)
    BY <1>14, <1>15, <1>16, <1>3, RecordEnds DEF End
  <2>2. H + L \in H .. (H + L) /\ H + L \in Nat \ {0} /\ o + (H + L) \in 1 .. Len(file)
    BY <1>2, <1>3
  <2>3. file[o + (H + L)] = Byte(r, H + L)
    BY <1>18, <2>2
  <2>4. \A k \in 1 .. (H + L) : file[appended[r].lsn + k] = Byte(r, k)
    <3>1. Tells(file, appended, r, H + L, o + (H + L))
      BY <2>2, <2>3, <1>11, ByteTells
    <3> QED
      BY <3>1 DEF Tells
  <2> QED
    BY <2>1, <2>4, <1>3 DEF Whole
<1> QED
  BY <1>13, <1>14, <1>16, <1>19 DEF L

\* A record that is whole passes the CRC.
LEMMA WholeIsValid ==
    ASSUME file \in Seq(Bytes), appended \in Seq(RecordInfo),
           NEW r \in 1 .. Len(appended), Whole(file, appended, r),
           NEW o, o = appended[r].lsn
    PROVE  /\ Valid(o)
           /\ PayloadLength(o) = appended[r].length
           /\ NextPosition(o) = End(appended, r)
<1> DEFINE H == HEADER_SIZE
           I == IntSize
           L == appended[r].length
           F == SubSeq(file, o + 1, o + I)
           C == SubSeq(file, o + I + 1, o + 2 * I)
           K == I + 1
           J == 2 * I
<1>h. /\ H \in Nat \ {0} /\ H = I + I + 1 /\ I \in Nat \ {0} /\ J = I + I
      /\ o \in Nat /\ L \in Nat /\ r \in Nat
      /\ SizeIn(appended, r) = H + L /\ Size(r) = H + L /\ End(appended, r) = o + (H + L)
  BY HeaderSize, SizeFacts DEF SizeIn, Size, End
<1>w. /\ o + (H + L) <= Len(file)
      /\ \A p \in 1 .. (H + L) : file[o + p] = Byte(r, p)
  BY <1>h DEF Whole
<1>z. Zeros(I)[1] = Zero /\ Byte(r, 1) # Zero /\ Byte(r, K) # Zero
  <2>1. 1 \in 1 .. I /\ I \in Nat
    BY <1>h
  <2>3. Zeros(I)[1] = Zero
    <3> HIDE DEF I
    <3> QED
      BY <2>1, ZerosFacts
  <2>2. Byte(r, 1).pos = 1 /\ Byte(r, K).pos = K /\ Zero.pos = 0
    BY <1>h, ByteFacts
  <2> QED
    BY <2>2, <2>3, <1>h
<1>1. PayloadLength(o) = L
  <2>l. PayloadLength(o) = IF F = Zeros(I) THEN 0
                           ELSE IF F = BytesOf(F[1].rec, 1, I) THEN appended[F[1].rec].length
                           ELSE Len(file)
    BY DEF PayloadLength
  <2>1. 1 \in Nat \ {0} /\ I \in Nat /\ 1 <= I + 1 /\ o + I <= Len(file) /\ 1 \in 1 .. (I + 1 - 1)
        /\ o + 1 + 1 - 1 = o + 1 /\ 1 \in 1 .. (H + L)
        /\ \A p \in 1 .. I : p \in 1 .. (H + L)
    BY <1>h, <1>w, SMTT(30)
  <2>2. Field(file, o, 1, I) /\ FieldOf(file, o, 1, I, r)
    BY <2>1, <1>h, FieldFacts
  <2>3. F = BytesOf(r, 1, I)
    BY <2>1, <2>2, <1>w DEF FieldOf
  <2>4. F[1] = Byte(r, 1)
    BY <2>1, <2>2, <1>w DEF Field
  <2> HIDE DEF F
  <2>5. F[1].rec = r /\ F # Zeros(I)
    BY <2>4, <1>z, <1>h, ByteFacts, SMTT(30)
  <2> QED
    BY <2>3, <2>5, <2>l
<1>2. StoredCrc(o) = BytesOf(r, H, H + L)
  <2>l. StoredCrc(o) = IF C = Zeros(I) THEN << >>
                       ELSE IF C = BytesOf(C[1].rec, I + 1, 2 * I)
                            THEN BytesOf(C[1].rec, H, Size(C[1].rec))
                       ELSE Garbage
    BY DEF StoredCrc
  <2>1. /\ K \in Nat \ {0} /\ J \in Nat /\ K <= J + 1 /\ o + J <= Len(file)
        /\ 1 \in 1 .. (J + 1 - K) /\ o + K + 1 - 1 = o + K /\ o + I + 1 = o + K
        /\ K \in 1 .. (H + L) /\ \A p \in K .. J : p \in 1 .. (H + L)
    <3>1. K = I + 1 /\ o + J <= Len(file) /\ Len(file) \in Nat
      BY <1>h, <1>w
    <3> HIDE DEF K, J, H, I, L
    <3>2. /\ K \in Nat \ {0} /\ J \in Nat /\ o \in Nat /\ I \in Nat
          /\ J = I + I /\ K = I + 1 /\ I >= 1
      BY <3>1, <1>h
    <3>3. PICK m : m = H + L
      OBVIOUS
    <3>4. m \in Nat /\ m >= J + 1
      BY <3>3, <1>h
    <3>5. K <= J
      BY <3>2
    <3>6. o + K + 1 - 1 = o + K /\ o + I + 1 = o + K
      BY <3>2
    <3>7. K <= J + 1 /\ 1 \in 1 .. (J + 1 - K)
      BY <3>2, <3>5
    <3>8. K \in 1 .. m /\ \A p \in K .. J : p \in 1 .. m
      BY <3>2, <3>4, <3>5
    <3> QED
      BY <3>1, <3>2, <3>3, <3>6, <3>7, <3>8
  <2> HIDE DEF K, J
  <2>2. Field(file, o, K, J) /\ FieldOf(file, o, K, J, r)
    BY <2>1, <1>h, FieldFacts
  <2>c. C = SubSeq(file, o + K, o + J)
    BY <2>1 DEF J
  <2> HIDE DEF C
  <2>3. C = BytesOf(r, K, J)
    BY <2>1, <2>2, <2>c, <1>w DEF FieldOf
  <2>4. C[1] = Byte(r, K)
    BY <2>1, <2>2, <2>c, <1>w DEF Field
  <2>5. C[1].rec = r /\ C # Zeros(I)
    BY <2>1, <2>4, <1>z, <1>h, ByteFacts
  <2> QED
    BY <2>3, <2>5, <2>l, <1>h DEF K, J
<1>3. Checked(o) = BytesOf(r, H, H + L)
  <2>1. /\ H + L \in Nat /\ H <= (H + L) + 1 /\ o + H + L = o + (H + L)
        /\ \A p \in H .. (H + L) : p \in 1 .. (H + L)
    BY <1>h
  <2>2. FieldOf(file, o, H, H + L, r)
    BY <2>1, <1>h, <1>w, FieldFacts
  <2>3. SubSeq(file, o + H, o + (H + L)) = BytesOf(r, H, H + L)
    BY <2>1, <2>2, <1>w DEF FieldOf
  <2> QED
    BY <2>1, <2>3, <1>1 DEF Checked
<1>4. NextPosition(o) = o + (H + L) /\ HasHeader(o)
  BY <1>1, <1>h, <1>w DEF NextPosition, HasHeader
<1> QED
  BY <1>1, <1>2, <1>3, <1>4, <1>h, <1>w DEF Valid

\* Between the end of whole records and a later one there is a whole record.
LEMMA NextIsWhole ==
    ASSUME NEW f \in Seq(Bytes), NEW a \in Seq(RecordInfo), WellFormed(f, a),
           NEW o, NEW n, WholeTo(f, a, o), WholeTo(f, a, n), o < n
    PROVE  \E r \in 1 .. Len(a) :
              /\ a[r].lsn = o
              /\ Whole(f, a, r)
              /\ End(a, r) <= n
              /\ f[o + 1] = Byte(r, 1)
<1>1. o \in Nat /\ n \in Nat /\ n <= Len(f) /\ o + 1 \in 1 .. n /\ o + 1 \in 1 .. Len(f)
  BY DEF WholeTo
<1>2. PICK r, p : r = f[o + 1].rec /\ p = f[o + 1].pos
  OBVIOUS
<1>3. f[o + 1] # Zero /\ Whole(f, a, r) /\ End(a, r) <= n
  BY <1>1, <1>2 DEF WholeTo
<1>4. r \in 1 .. Len(a) /\ p \in 1 .. SizeIn(a, r) /\ o + 1 = a[r].lsn + p
  BY <1>1, <1>2, <1>3, Zenon DEF WellFormed, Placed
<1>5. SizeIn(a, r) \in Nat /\ a[r].lsn \in Nat /\ End(a, r) = a[r].lsn + SizeIn(a, r)
      /\ r \in Nat /\ p \in Nat
  BY <1>4, SizeFacts
<1>6. f[o + 1] = Byte(r, p)
  <2>1. f[o + 1] \in Bytes
    BY <1>1, ElementOfSeq
  <2> QED
    BY <2>1, <1>2, ByteFacts
<1>7. ASSUME p > 1
      PROVE  FALSE
  <2>1. PICK k : k = p - 1
    OBVIOUS
  <2>2. k \in 1 .. SizeIn(a, r) /\ k \in Nat /\ o = a[r].lsn + k /\ o \in 1 .. o
    BY <2>1, <1>1, <1>4, <1>5, <1>7, SMTT(30)
  <2>3. f[o] = Byte(r, k)
    BY <2>2, <1>3 DEF Whole
  <2>4. f[o].rec = r
    BY <2>2, <2>3, <1>5, ByteFacts
  <2>5. End(a, r) <= o
    BY <2>2, <2>4 DEF WholeTo
  <2> QED
    BY <2>5, <1>1, <1>4, <1>5
<1>8. p = 1 /\ a[r].lsn = o
  BY <1>1, <1>4, <1>5, <1>7
<1> QED
  BY <1>3, <1>4, <1>6, <1>8

\* A whole record behind whole ones.
LEMMA OneMoreIsWhole ==
    ASSUME NEW f \in Seq(Bytes), NEW a \in Seq(RecordInfo),
           WellFormed(f, a),
           NEW r \in 1 .. Len(a), Whole(f, a, r), WholeTo(f, a, a[r].lsn)
    PROVE  WholeTo(f, a, End(a, r))
<1>0. PICK o, z : o = a[r].lsn /\ z = SizeIn(a, r)
  OBVIOUS
<1>1. o \in Nat /\ z \in Nat /\ r \in Nat /\ End(a, r) = o + z /\ o + z <= Len(f)
  BY <1>0, SizeFacts DEF Whole
<1>2. ASSUME NEW i \in 1 .. (o + z)
      PROVE  f[i] # Zero /\ Whole(f, a, f[i].rec) /\ End(a, f[i].rec) <= o + z
  <2>1. CASE i <= o
    <3>1. i \in 1 .. o
      BY <2>1, <1>1
    <3>2. f[i] # Zero /\ Whole(f, a, f[i].rec) /\ End(a, f[i].rec) <= o
      BY <3>1, <1>0 DEF WholeTo
    <3>3. i \in 1 .. Len(f)
      BY <1>1
    <3>4. End(a, f[i].rec) <= o => End(a, f[i].rec) <= o + z
      <4>1. f[i].rec \in 1 .. Len(a)
        BY <3>2, <3>3 DEF WellFormed, Placed
      <4>2. End(a, f[i].rec) \in Nat
        BY <4>1, SizeFacts
      <4> QED
        BY <4>2, <1>1
    <3> QED
      BY <3>2, <3>4
  <2>2. CASE ~ i <= o
    <3>1. PICK p : p = i - o
      OBVIOUS
    <3>2. p \in 1 .. z /\ p \in Nat /\ i = o + p
      BY <3>1, <2>2, <1>1
    <3>3. f[i] = Byte(r, p)
      BY <3>2, <1>0 DEF Whole
    <3>4. f[i].rec = r /\ f[i].pos = p
      BY <3>2, <3>3, <1>1, ByteFacts
    <3>5. f[i] # Zero
      BY <3>2, <3>4, ByteFacts
    <3> QED
      BY <3>4, <3>5, <1>1
  <2> QED
    BY <2>1, <2>2
<1> QED
  BY <1>1, <1>2 DEF WholeTo

(***************************************************************************)
(* sync: a record that a reader can reach is the last of a file of whole   *)
(* records; and if all of the file is whole, every record can be reached.  *)
(***************************************************************************)
LEMMA ReadableIsWhole ==
    ASSUME file \in Seq(Bytes), appended \in Seq(RecordInfo),
           WellFormed(file, appended), NEW r \in Readable
    PROVE  /\ r \in 1 .. Len(appended)
           /\ Whole(file, appended, r)
           /\ WholeTo(file, appended, End(appended, r))
<1>1. /\ r \in 1 .. Len(appended) /\ IsWhole(r)
      /\ \A i \in 1 .. appended[r].lsn : file[i].rec # 0 /\ IsWhole(file[i].rec)
  BY DEF Readable
<1>2. Whole(file, appended, r)
  BY <1>1, IsWholeIffWhole
<1>3. PICK o, z : o = appended[r].lsn /\ z = SizeIn(appended, r)
  OBVIOUS
<1>4. o \in Nat /\ z \in Nat /\ z >= 1 /\ End(appended, r) = o + z /\ r \in Nat
      /\ o + z <= Len(file)
  BY <1>1, <1>2, <1>3, SizeFacts, HeaderSize DEF Whole
<1>5. file[o + 1] = Byte(r, 1)
  <2>1. 1 \in 1 .. z
    BY <1>4
  <2> QED
    BY <2>1, <1>2, <1>3 DEF Whole
<1>6. ASSUME NEW i \in 1 .. o
      PROVE  /\ file[i] # Zero
             /\ Whole(file, appended, file[i].rec)
             /\ End(appended, file[i].rec) <= o
  <2>1. i \in 1 .. Len(file) /\ file[i] # Zero
    BY <1>1, <1>3, <1>4, ByteFacts
  <2>2. PICK q, p : q = file[i].rec /\ p = file[i].pos
    OBVIOUS
  <2>3. q \in 1 .. Len(appended) /\ p \in 1 .. SizeIn(appended, q) /\ i = appended[q].lsn + p
    BY <2>1, <2>2, Zenon DEF WellFormed, Placed
  <2>4. Whole(file, appended, q)
    BY <1>1, <1>3, <2>2, <2>3, IsWholeIffWhole
  <2>5. PICK l, y : l = appended[q].lsn /\ y = SizeIn(appended, q)
    OBVIOUS
  <2>6. l \in Nat /\ y \in Nat /\ p \in Nat /\ End(appended, q) = l + y /\ i = l + p /\ q \in Nat
    BY <2>3, <2>5, SizeFacts
  <2>7. ASSUME l + y > o
        PROVE  FALSE
    <3>1. PICK k : k = o + 1 - l
      OBVIOUS
    <3>2. p >= 1
      BY <2>3, <2>6
    <3>3. k \in 1 .. y /\ k \in Nat /\ k # 1 /\ l + k = o + 1
      BY <3>1, <3>2, <2>6, <2>7, <1>4
    <3>4. file[o + 1] = Byte(q, k)
      BY <3>3, <2>4, <2>5 DEF Whole
    <3>5. file[o + 1].pos = k /\ file[o + 1].pos = 1
      <4>1. 1 \in Nat /\ q \in Nat /\ k \in Nat /\ r \in Nat
        BY <3>3, <2>6, <1>4
      <4>2. Byte(q, k).pos = k /\ Byte(r, 1).pos = 1
        BY <4>1, ByteFacts, Zenon
      <4> QED
        BY <4>2, <3>4, <1>5, Zenon
    <3> QED
      BY <3>3, <3>5
  <2>8. l + y <= o
    BY <2>6, <2>7, <1>4
  <2> QED
    BY <2>1, <2>2, <2>4, <2>6, <2>8
<1>7. WholeTo(file, appended, o)
  BY <1>4, <1>6, SMTT(30) DEF WholeTo
<1> QED
  BY <1>1, <1>2, <1>3, <1>7, OneMoreIsWhole

LEMMA WholeIsReadable ==
    ASSUME file \in Seq(Bytes), appended \in Seq(RecordInfo),
           WellFormed(file, appended), WholeTo(file, appended, Len(file)),
           NEW i \in 1 .. Len(file)
    PROVE  file[i].rec \in Readable
<1>1. ASSUME NEW j \in 1 .. Len(file)
      PROVE  /\ file[j].rec \in 1 .. Len(appended) /\ file[j].rec # 0
             /\ IsWhole(file[j].rec)
  <2>1. file[j] # Zero /\ Whole(file, appended, file[j].rec)
    BY DEF WholeTo
  <2>2. file[j].rec \in 1 .. Len(appended)
    BY <2>1 DEF WellFormed, Placed
  <2> QED
    BY <2>1, <2>2, IsWholeIffWhole
<1>2. PICK r : r = file[i].rec
  OBVIOUS
<1>3. r \in 1 .. Len(appended) /\ IsWhole(r) /\ Whole(file, appended, r)
  BY <1>1, <1>2, IsWholeIffWhole
<1>4. appended[r].lsn \in Nat /\ appended[r].lsn <= Len(file)
  BY <1>3, SizeFacts DEF Whole
<1>5. \A j \in 1 .. appended[r].lsn : j \in 1 .. Len(file)
  BY <1>4
<1> QED
  BY <1>1, <1>2, <1>3, <1>5 DEF Readable

-----------------------------------------------------------------------------
(* The invariant is inductive: one lemma for every kind of step *)

LEMMA InitInv == Init => WalInv
<1> SUFFICES ASSUME Init
             PROVE  WalInv
  OBVIOUS
<1>1. /\ file = << >> /\ synced = 0 /\ appended = << >> /\ durable = {}
      /\ stage = "down" /\ position = 0 /\ lsn = 0 /\ yielded = << >>
      /\ broken = FALSE /\ incidents = 0
  BY DEF Init
<1>2. Len(file) = 0 /\ Len(appended) = 0
  BY <1>1
<1>3. TypeInv
  <2>1. /\ file \in Seq(Bytes) /\ appended \in Seq(RecordInfo)
        /\ yielded \in Seq([lsn : Nat, bytes : Seq(Bytes)])
    BY <1>1
  <2>2. 0 \in 0 .. MaxIncidents
    BY WalAssumption
  <2>3. synced \in 0 .. Len(file) /\ position \in 0 .. Len(file) /\ lsn \in 0 .. Len(file)
    BY <1>1, <1>2
  <2>4. \A r \in 1 .. Len(appended) : appended[r].written \in 1 .. SizeIn(appended, r)
    BY <1>2
  <2>5. durable \subseteq 1 .. Len(appended) /\ broken \in BOOLEAN
        /\ stage \in {"down", "scan", "read", "open"} /\ incidents \in 0 .. MaxIncidents
    BY <1>1, <2>2
  <2> QED
    BY <2>1, <2>3, <2>4, <2>5 DEF TypeInv
<1>4. FileInv
  BY <1>1, <1>2 DEF FileInv, WellFormed, Placed, Prefixed, ZerosLast, InOrder
<1>5. ScanInv /\ DurableInv
  BY <1>1 DEF ScanInv, DurableInv
<1>6. ReadInv
  BY <1>1 DEF ReadInv, ReadsWhatWasAppended
<1> QED
  BY <1>3, <1>4, <1>5, <1>6 DEF WalInv

\* An append, whole or not, keeps what was there.
LEMMA WriteKeeps ==
    ASSUME WalInv, stage = "open",
           NEW len \in Nat, NEW n \in 1 .. (HEADER_SIZE + len), Write(len, n),
           synced' = synced, durable' = durable
    PROVE  /\ file' \in Seq(Bytes) /\ appended' \in Seq(RecordInfo)
           /\ Len(file) <= Len(file') /\ Len(file') \in Nat
           /\ \A r \in 1 .. Len(appended') :
                 appended'[r].written \in 1 .. SizeIn(appended', r)
           /\ durable' \subseteq 1 .. Len(appended')
           /\ WellFormed(file', appended') /\ NoZeros(file')
           /\ DurableInv'
           /\ yielded' = yielded => ReadsWhatWasAppended'
           /\ n = HEADER_SIZE + len /\ WholeTo(file, appended, Len(file)) =>
                 WholeTo(file', appended', Len(file'))
<1>1. /\ file \in Seq(Bytes) /\ appended \in Seq(RecordInfo)
      /\ WellFormed(file, appended) /\ NoZeros(file) /\ Len(file) \in Nat
      /\ \A r \in 1 .. Len(appended) : appended[r].written \in 1 .. SizeIn(appended, r)
      /\ durable \subseteq 1 .. Len(appended)
  BY DEF WalInv, TypeInv, FileInv
<1>2. /\ file' = file \o BytesOf(Len(appended) + 1, 1, n)
      /\ appended' = Append(appended, [lsn |-> Len(file), length |-> len, written |-> n])
  BY DEF Write
<1>3. Extended(file, appended, file', appended', n)
  BY <1>1, <1>2, AppendExtends
<1>4. /\ file' \in Seq(Bytes) /\ appended' \in Seq(RecordInfo)
      /\ Len(appended') = Len(appended) + 1
      /\ n \in 1 .. SizeIn(appended', Len(appended'))
      /\ Len(file') = Len(file) + n
      /\ \A r \in 1 .. Len(appended) : appended'[r] = appended[r]
      /\ appended'[Len(appended')].written = n
  BY <1>3 DEF Extended
<1>5. WellFormed(file', appended') /\ NoZeros(file')
  BY <1>1, <1>3, AppendWellFormed
<1>6. /\ \A r \in 1 .. Len(appended) : /\ SizeIn(appended', r) = SizeIn(appended, r)
                                       /\ End(appended', r) = End(appended, r)
      /\ \A r \in 1 .. Len(appended) :
            Whole(file, appended, r) => Whole(file', appended', r)
      /\ \A m : WholeTo(file, appended, m) => WholeTo(file', appended', m)
      /\ n = SizeIn(appended', Len(appended')) /\ WholeTo(file, appended, Len(file)) =>
            WholeTo(file', appended', Len(file'))
  BY <1>1, <1>3, AppendKeepsWhole
<1>7. Len(file) <= Len(file') /\ Len(file') \in Nat /\ n \in Nat
  BY <1>1, <1>4, HeaderSize
<1>8. ASSUME NEW r \in 1 .. Len(appended')
      PROVE  appended'[r].written \in 1 .. SizeIn(appended', r)
  <2>1. CASE r = Len(appended')
    BY <2>1, <1>4
  <2>2. CASE r # Len(appended')
    <3>1. r \in 1 .. Len(appended)
      BY <2>2, <1>1, <1>4
    <3> QED
      BY <3>1, <1>1, <1>4, <1>6
  <2> QED
    BY <2>1, <2>2
<1>9. durable' \subseteq 1 .. Len(appended')
  BY <1>1, <1>4
<1>10. DurableInv'
  <2>1. ASSUME NEW r \in durable
        PROVE  /\ Whole(file', appended', r)
               /\ WholeTo(file', appended', End(appended', r))
               /\ End(appended', r) <= synced
    <3>1. r \in 1 .. Len(appended)
      BY <1>1
    <3>2. /\ Whole(file, appended, r)
          /\ WholeTo(file, appended, End(appended, r)) /\ End(appended, r) <= synced
      BY DEF WalInv, DurableInv
    <3> QED
      BY <3>1, <3>2, <1>6
  <2> QED
    BY <2>1 DEF DurableInv
<1>11. ASSUME yielded' = yielded
       PROVE  ReadsWhatWasAppended'
  <2>1. ASSUME NEW k \in 1 .. Len(yielded)
        PROVE  \E r \in 1 .. Len(appended') :
                  /\ yielded[k].lsn = appended'[r].lsn
                  /\ yielded[k].bytes = BytesOf(r, 1, Size(r)')
                  /\ k > 1 => yielded[k - 1].bytes[1].rec < r
    <3>1. PICK r \in 1 .. Len(appended) :
             /\ yielded[k].lsn = appended[r].lsn
             /\ yielded[k].bytes = BytesOf(r, 1, Size(r))
             /\ k > 1 => yielded[k - 1].bytes[1].rec < r
      BY DEF WalInv, ReadInv, ReadsWhatWasAppended
    <3>2. r \in 1 .. Len(appended') /\ appended'[r] = appended[r]
      BY <1>1, <1>4
    <3>3. Size(r)' = Size(r)
      BY <3>2 DEF Size
    <3> QED
      BY <3>1, <3>2, <3>3
  <2> QED
    BY <2>1, <1>11 DEF ReadsWhatWasAppended
<1>12. n = HEADER_SIZE + len => n = SizeIn(appended', Len(appended'))
  <2>1. [lsn |-> Len(file), length |-> len, written |-> n] \in RecordInfo
    BY <1>1, <1>7 DEF RecordInfo
  <2>2. appended'[Len(appended) + 1] = [lsn |-> Len(file), length |-> len, written |-> n]
    BY <2>1, <1>1, <1>2
  <2>3. appended'[Len(appended')].length = len
    BY <2>2, <1>4
  <2> QED
    BY <2>3 DEF SizeIn
<1> QED
  BY <1>4, <1>5, <1>6, <1>7, <1>8, <1>9, <1>10, <1>11, <1>12

\* In an open log every position is within the file, which only grows.
LEMMA WriteRecordInv ==
    ASSUME WalInv, NEW len \in Lengths, WriteRecord(len)
    PROVE  WalInv'
<1>1. /\ stage = "open" /\ Write(len, HEADER_SIZE + len)
      /\ synced' = synced /\ stage' = stage /\ position' = position /\ lsn' = lsn
      /\ yielded' = yielded /\ durable' = durable /\ broken' = broken
      /\ incidents' = incidents
  BY DEF WriteRecord
<1>2. len \in Nat /\ HEADER_SIZE + len \in 1 .. (HEADER_SIZE + len)
  BY WalAssumption, HeaderSize
<1> DEFINE n == HEADER_SIZE + len
<1>3. /\ file' \in Seq(Bytes) /\ appended' \in Seq(RecordInfo)
      /\ Len(file) <= Len(file') /\ Len(file') \in Nat
      /\ \A r \in 1 .. Len(appended') :
            appended'[r].written \in 1 .. SizeIn(appended', r)
      /\ durable' \subseteq 1 .. Len(appended')
      /\ WellFormed(file', appended') /\ NoZeros(file')
      /\ DurableInv'
      /\ yielded' = yielded => ReadsWhatWasAppended'
      /\ n = HEADER_SIZE + len /\ WholeTo(file, appended, Len(file)) =>
            WholeTo(file', appended', Len(file'))
  <2>1. n \in 1 .. (HEADER_SIZE + len) /\ Write(len, n)
    BY <1>1, <1>2
  <2> HIDE DEF n
  <2> QED
    BY <1>1, <1>2, <2>1, WriteKeeps
<1>4. TypeInv'
  <2>1. synced' \in 0 .. Len(file') /\ position' \in 0 .. Len(file') /\ lsn' \in 0 .. Len(file')
    BY <1>1, <1>3 DEF WalInv, TypeInv
  <2> QED
    BY <1>1, <1>3, <2>1 DEF WalInv, TypeInv
<1>5. ScanInv'
  <2>1. ~ broken => WholeTo(file', appended', Len(file'))
    BY <1>1, <1>3 DEF WalInv, ScanInv
  <2> QED
    BY <1>1, <2>1 DEF ScanInv
<1>6. ReadInv'
  BY <1>1, <1>3 DEF ReadInv
<1> QED
  BY <1>3, <1>4, <1>5, <1>6 DEF WalInv, FileInv

LEMMA ShortWriteInv ==
    ASSUME WalInv, NEW len \in Lengths, NEW n \in 1 .. (HEADER_SIZE + len - 1),
           ShortWrite(len, n) \/ KillInWrite(len, n)
    PROVE  WalInv'
<1>1. /\ stage = "open" /\ Write(len, n)
      /\ synced' = synced /\ durable' = durable
      /\ incidents < MaxIncidents /\ incidents' = incidents + 1
      /\ \/ /\ stage' = stage /\ position' = position /\ lsn' = lsn
            /\ yielded' = yielded /\ broken' = TRUE
         \/ /\ stage' = "down" /\ position' = 0 /\ lsn' = 0 /\ yielded' = << >>
            /\ broken' = broken
  BY DEF ShortWrite, KillInWrite, Incident, Dies
<1>2. len \in Nat /\ n \in 1 .. (HEADER_SIZE + len)
  BY WalAssumption, HeaderSize
<1>3. /\ file' \in Seq(Bytes) /\ appended' \in Seq(RecordInfo)
      /\ Len(file) <= Len(file') /\ Len(file') \in Nat
      /\ \A r \in 1 .. Len(appended') :
            appended'[r].written \in 1 .. SizeIn(appended', r)
      /\ durable' \subseteq 1 .. Len(appended')
      /\ WellFormed(file', appended') /\ NoZeros(file')
      /\ DurableInv'
      /\ yielded' = yielded => ReadsWhatWasAppended'
  BY <1>1, <1>2, WriteKeeps
<1>4. incidents' \in 0 .. MaxIncidents
  BY <1>1, WalAssumption DEF WalInv, TypeInv
<1>5. CASE /\ stage' = stage /\ position' = position /\ lsn' = lsn
           /\ yielded' = yielded /\ broken' = TRUE
  <2>1. synced' \in 0 .. Len(file') /\ position' \in 0 .. Len(file') /\ lsn' \in 0 .. Len(file')
    BY <1>1, <1>3, <1>5 DEF WalInv, TypeInv
  <2>2. TypeInv'
    BY <1>1, <1>3, <1>4, <1>5, <2>1 DEF WalInv, TypeInv
  <2>3. ScanInv'
    BY <1>1, <1>5 DEF ScanInv
  <2>4. ReadInv'
    BY <1>1, <1>3, <1>5 DEF ReadInv
  <2> QED
    BY <1>3, <2>2, <2>3, <2>4 DEF WalInv, FileInv
<1>6. CASE /\ stage' = "down" /\ position' = 0 /\ lsn' = 0 /\ yielded' = << >>
           /\ broken' = broken
  <2>1. synced' \in 0 .. Len(file') /\ position' \in 0 .. Len(file') /\ lsn' \in 0 .. Len(file')
    BY <1>1, <1>3, <1>6 DEF WalInv, TypeInv
  <2>2. TypeInv'
    BY <1>1, <1>3, <1>4, <1>6, <2>1 DEF WalInv, TypeInv
  <2>3. ScanInv'
    BY <1>6 DEF ScanInv
  <2>4. ReadInv'
    BY <1>6 DEF ReadInv, ReadsWhatWasAppended
  <2> QED
    BY <1>3, <2>2, <2>3, <2>4 DEF WalInv, FileInv
<1> QED
  BY <1>1, <1>5, <1>6

LEMMA SyncInv ==
    ASSUME WalInv, Sync
    PROVE  WalInv'
<1>1. /\ stage = "open" /\ synced' = Len(file) /\ durable' = durable \cup Readable
      /\ file' = file /\ stage' = stage /\ position' = position /\ lsn' = lsn
      /\ yielded' = yielded /\ appended' = appended /\ broken' = broken
      /\ incidents' = incidents
  BY DEF Sync
<1>2. /\ file \in Seq(Bytes) /\ appended \in Seq(RecordInfo) /\ Len(file) \in Nat
      /\ WellFormed(file, appended) /\ synced <= Len(file) /\ synced \in Nat
  BY DEF WalInv, TypeInv, FileInv
<1>3. ASSUME NEW r \in durable'
      PROVE  /\ r \in 1 .. Len(appended)
             /\ Whole(file, appended, r)
             /\ WholeTo(file, appended, End(appended, r))
             /\ End(appended, r) <= Len(file)
  <2>1. /\ r \in 1 .. Len(appended) /\ Whole(file, appended, r)
        /\ WholeTo(file, appended, End(appended, r))
    <3>1. CASE r \in durable
      BY <3>1 DEF WalInv, TypeInv, DurableInv
    <3>2. CASE r \in Readable
      BY <3>2, <1>2, ReadableIsWhole
    <3> QED
      BY <3>1, <3>2, <1>1
  <2> QED
    BY <2>1 DEF WholeTo
<1>4. DurableInv'
  BY <1>1, <1>3 DEF DurableInv
<1>5. TypeInv'
  <2>1. synced' \in 0 .. Len(file') /\ durable' \subseteq 1 .. Len(appended')
    BY <1>1, <1>2, <1>3
  <2> QED
    BY <1>1, <2>1 DEF WalInv, TypeInv
<1>6. FileInv' /\ ScanInv'
  BY <1>1 DEF WalInv, FileInv, ScanInv
<1>7. ReadsWhatWasAppended'
  BY <1>1 DEF WalInv, ReadInv, ReadsWhatWasAppended, Size
<1>8. ReadInv'
  BY <1>1, <1>7 DEF ReadInv
<1> QED
  BY <1>4, <1>5, <1>6, <1>8 DEF WalInv

\* The end of a process: of the file a part is left, what was synced with it.
LEMMA DiesInv ==
    ASSUME WalInv, Close \/ PowerLoss
    PROVE  WalInv'
<1>1. /\ stage' = "down" /\ position' = 0 /\ lsn' = 0 /\ yielded' = << >>
      /\ appended' = appended /\ durable' = durable /\ broken' = broken
  BY DEF Close, PowerLoss, Dies
<1>2. /\ file \in Seq(Bytes) /\ appended \in Seq(RecordInfo) /\ Len(file) \in Nat
      /\ WellFormed(file, appended) /\ synced \in 0 .. Len(file)
  BY DEF WalInv, TypeInv, FileInv
<1>3. /\ file' \in Seq(Bytes) /\ WellFormed(file', appended)
      /\ synced <= synced' /\ synced' \in 0 .. Len(file')
      /\ \A r \in 1 .. Len(appended) :
            Whole(file, appended, r) /\ End(appended, r) <= synced =>
               Whole(file', appended, r)
      /\ \A k \in 0 .. synced : WholeTo(file, appended, k) => WholeTo(file', appended, k)
      /\ incidents' \in 0 .. MaxIncidents
  <2>1. CASE Close
    <3>1. file' = file /\ synced' = synced /\ incidents' = incidents
      BY <2>1 DEF Close
    <3> QED
      BY <3>1, <1>2 DEF WalInv, TypeInv
  <2>2. CASE PowerLoss
    <3>0. PICK m \in synced .. Len(file) : \E z \in 0 .. (Len(file) - m) :
             /\ file' = SubSeq(file, 1, m) \o Zeros(z)
             /\ synced' = m + z
      BY <2>2 DEF PowerLoss
    <3>1. PICK z \in 0 .. (Len(file) - m) :
             /\ file' = SubSeq(file, 1, m) \o Zeros(z)
             /\ synced' = m + z
      BY <3>0
    <3>2. m \in 0 .. Len(file)
      BY <1>2
    <3>3. Cut(file, file', m) /\ Len(file') = m + z
      BY <1>2, <3>1, <3>2, CutsOff
    <3>4. file' \in Seq(Bytes)
      BY <3>3 DEF Cut
    <3>5. /\ WellFormed(file', appended)
          /\ \A r \in 1 .. Len(appended) :
                Whole(file, appended, r) /\ End(appended, r) <= m => Whole(file', appended, r)
          /\ \A k \in 0 .. m : WholeTo(file, appended, k) => WholeTo(file', appended, k)
      BY <1>2, <3>3, CutWellFormed
    <3>6. incidents' \in 0 .. MaxIncidents
      BY <2>2, WalAssumption DEF PowerLoss, Incident, WalInv, TypeInv
    <3>7. synced <= synced' /\ synced' \in 0 .. Len(file') /\ \A k \in 0 .. synced : k \in 0 .. m
      BY <1>2, <3>1, <3>3
    <3>8. ASSUME NEW r \in 1 .. Len(appended), Whole(file, appended, r),
                 End(appended, r) <= synced
          PROVE  Whole(file', appended, r)
      <4>1. End(appended, r) \in Nat
        BY <1>2, SizeFacts
      <4>2. End(appended, r) <= m
        BY <3>8, <4>1, <1>2
      <4> QED
        BY <3>5, <3>8, <4>2
    <3> QED
      BY <3>4, <3>5, <3>6, <3>7, <3>8
  <2> QED
    BY <2>1, <2>2
<1>4. TypeInv'
  <2>1. position' \in 0 .. Len(file') /\ lsn' \in 0 .. Len(file')
    BY <1>1, <1>3
  <2> QED
    BY <1>1, <1>3, <2>1 DEF WalInv, TypeInv
<1>5. DurableInv'
  <2>1. ASSUME NEW r \in durable
        PROVE  /\ Whole(file', appended, r)
               /\ WholeTo(file', appended, End(appended, r))
               /\ End(appended, r) <= synced'
    <3>1. /\ r \in 1 .. Len(appended) /\ Whole(file, appended, r)
          /\ WholeTo(file, appended, End(appended, r)) /\ End(appended, r) <= synced
      BY DEF WalInv, TypeInv, DurableInv
    <3>2. End(appended, r) \in Nat
      BY <3>1 DEF WholeTo
    <3>3. End(appended, r) \in 0 .. synced /\ End(appended, r) <= synced'
      BY <3>1, <3>2, <1>2, <1>3
    <3> QED
      BY <3>1, <3>3, <1>3
  <2> QED
    BY <2>1, <1>1 DEF DurableInv
<1>6. FileInv' /\ ScanInv'
  BY <1>1, <1>3 DEF FileInv, ScanInv
<1>7. ReadInv'
  BY <1>1 DEF ReadInv, ReadsWhatWasAppended
<1> QED
  BY <1>4, <1>5, <1>6, <1>7 DEF WalInv

LEMMA OpenInv ==
    ASSUME WalInv, Open
    PROVE  WalInv'
<1>1. /\ stage = "down" /\ stage' = "scan" /\ file' = file /\ synced' = synced
      /\ position' = position /\ lsn' = lsn /\ yielded' = yielded
      /\ appended' = appended /\ durable' = durable /\ broken' = broken
      /\ incidents' = incidents
  BY DEF Open
<1>2. position = 0 /\ lsn = position /\ yielded = << >>
  BY <1>1 DEF WalInv, ScanInv, ReadInv
<1>3. WholeTo(file, appended, 0)
  BY DEF WalInv, TypeInv, WholeTo
<1>4. TypeInv'
  BY <1>1 DEF WalInv, TypeInv
<1>5. FileInv' /\ DurableInv'
  BY <1>1 DEF WalInv, FileInv, DurableInv
<1>6. ScanInv'
  BY <1>1, <1>2, <1>3 DEF ScanInv
<1>7. ReadInv'
  BY <1>1, <1>2 DEF ReadInv, ReadsWhatWasAppended
<1> QED
  BY <1>4, <1>5, <1>6, <1>7 DEF WalInv

\* The scan passes a record only if it is whole.
LEMMA ScanRecordInv ==
    ASSUME WalInv, ScanRecord
    PROVE  WalInv'
<1>1. /\ stage = "scan" /\ Valid(position) /\ stage' = stage
      /\ position' = NextPosition(position)
      /\ lsn' = lsn + HEADER_SIZE + PayloadLength(position)
      /\ file' = file /\ synced' = synced /\ yielded' = yielded
      /\ appended' = appended /\ durable' = durable /\ broken' = broken
      /\ incidents' = incidents
  BY DEF ScanRecord
<1>2. /\ file \in Seq(Bytes) /\ appended \in Seq(RecordInfo)
      /\ WellFormed(file, appended) /\ position \in Nat /\ lsn = position
      /\ WholeTo(file, appended, position) /\ yielded = << >>
  BY <1>1 DEF WalInv, TypeInv, FileInv, ScanInv, ReadInv
<1>3. PICK r \in 1 .. Len(appended) :
         /\ appended[r].lsn = position
         /\ Whole(file, appended, r)
         /\ PayloadLength(position) = appended[r].length
  BY <1>1, <1>2, ValidIsWhole
<1>4. WholeTo(file, appended, End(appended, r))
  BY <1>2, <1>3, OneMoreIsWhole
<1>5. position' = End(appended, r)
  BY <1>1, <1>2, <1>3, WholeIsValid
<1>6. lsn' = End(appended, r)
  <2>1. appended[r].lsn \in Nat /\ appended[r].length \in Nat
    BY <1>2, SizeFacts
  <2>2. lsn' = appended[r].lsn + HEADER_SIZE + appended[r].length
    BY <1>1, <1>2, <1>3
  <2> QED
    BY <2>1, <2>2, HeaderSize DEF End, SizeIn
<1>7. position' \in 0 .. Len(file') /\ lsn' \in 0 .. Len(file')
  BY <1>1, <1>4, <1>5, <1>6 DEF WholeTo
<1>8. TypeInv'
  BY <1>1, <1>7 DEF WalInv, TypeInv
<1>9. FileInv' /\ DurableInv'
  BY <1>1 DEF WalInv, FileInv, DurableInv
<1>10. ScanInv'
  BY <1>1, <1>4, <1>5, <1>6 DEF ScanInv
<1>11. ReadInv'
  BY <1>1, <1>2 DEF ReadInv, ReadsWhatWasAppended
<1> QED
  BY <1>8, <1>9, <1>10, <1>11 DEF WalInv

(***************************************************************************)
(* The scan stops where no whole record follows, so what it cuts off was   *)
(* not synced, or not readable then.                                       *)
(***************************************************************************)
LEMMA TruncateInv ==
    ASSUME WalInv, Truncate
    PROVE  WalInv'
<1>1. /\ stage = "scan" /\ ~ Valid(position)
      /\ file' = SubSeq(file, 1, lsn) /\ synced' = Smaller(synced, lsn)
      /\ stage' = "read" /\ position' = 0 /\ lsn' = 0 /\ broken' = FALSE
      /\ yielded' = yielded /\ appended' = appended /\ durable' = durable
      /\ incidents' = incidents
  BY DEF Truncate
<1>2. /\ file \in Seq(Bytes) /\ appended \in Seq(RecordInfo) /\ Len(file) \in Nat
      /\ WellFormed(file, appended) /\ position \in 0 .. Len(file) /\ lsn = position
      /\ WholeTo(file, appended, position) /\ yielded = << >>
      /\ synced \in 0 .. Len(file)
  BY <1>1 DEF WalInv, TypeInv, FileInv, ScanInv, ReadInv
<1>3. Cut(file, file', position) /\ Len(file') = position
  <2>1. 0 \in 0 .. (Len(file) - position)
    BY <1>2
  <2> QED
    BY <2>1, <1>1, <1>2, CutsOff
<1>4. file' \in Seq(Bytes)
  BY <1>3 DEF Cut
<1>5. /\ WellFormed(file', appended)
      /\ \A r \in 1 .. Len(appended) :
            Whole(file, appended, r) /\ End(appended, r) <= position =>
               Whole(file', appended, r)
      /\ \A k \in 0 .. position : WholeTo(file, appended, k) => WholeTo(file', appended, k)
  BY <1>2, <1>3, CutWellFormed
<1>6. WholeTo(file', appended, position)
  <2>1. position \in 0 .. position
    BY <1>2
  <2> QED
    BY <2>1, <1>2, <1>5
<1>7. NoZeros(file')
  BY <1>3, <1>6 DEF WholeTo, NoZeros
<1>8. ASSUME NEW r \in durable
      PROVE  /\ Whole(file', appended, r)
             /\ WholeTo(file', appended, End(appended, r))
             /\ End(appended, r) <= synced'
  <2>1. PICK e : e = End(appended, r)
    OBVIOUS
  <2>2. /\ r \in 1 .. Len(appended) /\ Whole(file, appended, r)
        /\ WholeTo(file, appended, e) /\ e <= synced /\ e \in Nat
    <3>1. /\ r \in 1 .. Len(appended) /\ Whole(file, appended, r)
          /\ WholeTo(file, appended, e) /\ e <= synced
      BY <2>1 DEF WalInv, TypeInv, DurableInv
    <3> QED
      BY <3>1 DEF WholeTo
  <2>3. ASSUME position < e
        PROVE  FALSE
    <3>1. PICK q \in 1 .. Len(appended) :
             appended[q].lsn = position /\ Whole(file, appended, q)
      BY <1>2, <2>2, <2>3, NextIsWhole
    <3>2. Valid(position)
      BY <1>2, <3>1, WholeIsValid
    <3> QED
      BY <3>2, <1>1
  <2>4. e \in 0 .. position /\ e <= position /\ e <= synced'
    BY <2>2, <2>3, <1>1, <1>2 DEF Smaller
  <2> QED
    BY <2>1, <2>2, <2>4, <1>5
<1>9. DurableInv'
  BY <1>1, <1>8 DEF DurableInv
<1>10. TypeInv'
  <2>1. synced' \in 0 .. Len(file') /\ position' \in 0 .. Len(file') /\ lsn' \in 0 .. Len(file')
    BY <1>1, <1>2, <1>3 DEF Smaller
  <2> QED
    BY <1>1, <1>4, <2>1 DEF WalInv, TypeInv
<1>11. FileInv'
  BY <1>1, <1>5, <1>7 DEF FileInv
<1>12. ScanInv'
  <2>1. WholeTo(file', appended', 0)
    BY <1>3, <1>2 DEF WholeTo
  <2> QED
    BY <2>1, <1>1, <1>3, <1>6 DEF ScanInv
<1>13. ReadInv'
  BY <1>1, <1>2 DEF ReadInv, ReadsWhatWasAppended
<1> QED
  BY <1>9, <1>10, <1>11, <1>12, <1>13 DEF WalInv

LEMMA ReadDoneInv ==
    ASSUME WalInv, ReadDone
    PROVE  WalInv'
<1>1. /\ stage = "read" /\ stage' = "open" /\ file' = file /\ synced' = synced
      /\ position' = position /\ lsn' = lsn /\ yielded' = yielded
      /\ appended' = appended /\ durable' = durable /\ broken' = broken
      /\ incidents' = incidents
  BY DEF ReadDone, AtEnd
<1>2. WholeTo(file, appended, Len(file))
  BY <1>1 DEF WalInv, ScanInv
<1>3. TypeInv'
  BY <1>1 DEF WalInv, TypeInv
<1>4. FileInv' /\ DurableInv'
  BY <1>1 DEF WalInv, FileInv, DurableInv
<1>5. ScanInv'
  BY <1>1, <1>2 DEF ScanInv
<1>6. ReadsWhatWasAppended'
  BY <1>1 DEF WalInv, ReadInv, ReadsWhatWasAppended, Size
<1>7. ReadInv'
  BY <1>1, <1>6 DEF ReadInv
<1> QED
  BY <1>3, <1>4, <1>5, <1>7 DEF WalInv

\* What read_all yields next is the whole record at its position.
LEMMA ReadRecordInv ==
    ASSUME WalInv, ReadRecord
    PROVE  WalInv'
<1>1. /\ stage = "read" /\ HasHeader(position) /\ stage' = stage
      /\ position' = Smaller(NextPosition(position), Len(file))
      /\ lsn' = lsn + HEADER_SIZE + PayloadLength(position)
      /\ yielded' = Append(yielded,
            [lsn |-> lsn, bytes |-> SubSeq(file, position + 1, position')])
      /\ file' = file /\ synced' = synced /\ appended' = appended
      /\ durable' = durable /\ broken' = broken /\ incidents' = incidents
  BY DEF ReadRecord
<1>2. /\ file \in Seq(Bytes) /\ appended \in Seq(RecordInfo) /\ Len(file) \in Nat
      /\ WellFormed(file, appended) /\ position \in 0 .. Len(file) /\ lsn = position
      /\ WholeTo(file, appended, position) /\ WholeTo(file, appended, Len(file))
      /\ yielded \in Seq([lsn : Nat, bytes : Seq(Bytes)]) /\ Len(yielded) \in Nat
  BY <1>1 DEF WalInv, TypeInv, FileInv, ScanInv
<1>3. position < Len(file)
  BY <1>1, <1>2, HeaderSize DEF HasHeader
<1>4. PICK r \in 1 .. Len(appended) :
         /\ appended[r].lsn = position
         /\ Whole(file, appended, r)
         /\ End(appended, r) <= Len(file)
         /\ file[position + 1] = Byte(r, 1)
  BY <1>2, <1>3, NextIsWhole, SMTT(30)
<1>5. PICK e, z : e = End(appended, r) /\ z = SizeIn(appended, r)
  OBVIOUS
<1>6. /\ r \in Nat /\ e \in Nat /\ z \in Nat /\ z >= 1 /\ e = position + z
      /\ e <= Len(file) /\ Size(r) = z /\ position \in Nat
  BY <1>2, <1>4, <1>5, SizeFacts, HeaderSize, RecordEnds, SMTT(30)
<1>7. /\ NextPosition(position) = e /\ PayloadLength(position) = appended[r].length
  BY <1>2, <1>4, <1>5, WholeIsValid
<1>8. position' = e
  BY <1>1, <1>6, <1>7 DEF Smaller
<1>9. lsn' = e
  <2>1. appended[r].length \in Nat /\ z = HEADER_SIZE + appended[r].length
    BY <1>2, <1>5, SizeFacts DEF SizeIn
  <2>2. lsn' = position + HEADER_SIZE + appended[r].length
    BY <1>1, <1>2, <1>7
  <2> QED
    BY <2>1, <2>2, <1>6, HeaderSize
<1>10. WholeTo(file, appended, e)
  BY <1>2, <1>4, <1>5, OneMoreIsWhole
<1> DEFINE b == BytesOf(r, 1, z)
           y == [lsn |-> position, bytes |-> b]
           n == Len(yielded)
<1>11. b \in Seq(Bytes) /\ b[1].rec = r
  <2>1. 1 \in Nat /\ 1 <= z + 1 /\ 1 \in 1 .. (z + 1 - 1) /\ 1 + 1 - 1 = 1
    BY <1>6
  <2>2. b \in Seq(Bytes) /\ \A k \in 1 .. (z + 1 - 1) : b[k] = Byte(r, 1 + k - 1)
    <3>1. r \in Nat /\ z \in Nat
      BY <1>6
    <3> QED
      BY <3>1, <2>1, BytesOfFacts, Zenon
  <2>3. b[1] = Byte(r, 1)
    BY <2>1, <2>2
  <2> QED
    BY <2>2, <2>3, <1>6, ByteFacts
<1>12. SubSeq(file, position + 1, position') = b
  <2>1. IsWhole(r)
    BY <1>2, <1>4, IsWholeIffWhole
  <2> QED
    BY <2>1, <1>4, <1>6, <1>8 DEF IsWhole
<1> HIDE DEF b
<1>13. /\ yielded' \in Seq([lsn : Nat, bytes : Seq(Bytes)])
       /\ Len(yielded') = n + 1 /\ yielded'[n + 1] = y
       /\ \A k \in 1 .. n : yielded'[k] = yielded[k]
  <2>1. yielded' = Append(yielded, y)
    BY <1>1, <1>2, <1>12
  <2>2. y \in [lsn : Nat, bytes : Seq(Bytes)]
    BY <1>6, <1>11
  <2> HIDE DEF y
  <2> QED
    BY <2>1, <2>2, <1>2
<1>14. y.lsn = position /\ y.bytes = b
  OBVIOUS
<1> HIDE DEF y, n
<1>15. TypeInv'
  <2>1. position' \in 0 .. Len(file') /\ lsn' \in 0 .. Len(file')
    BY <1>1, <1>6, <1>8, <1>9
  <2> QED
    BY <1>1, <1>13, <2>1 DEF WalInv, TypeInv
<1>16. FileInv' /\ DurableInv'
  BY <1>1 DEF WalInv, FileInv, DurableInv
<1>17. ScanInv'
  BY <1>1, <1>2, <1>8, <1>9, <1>10 DEF ScanInv
\* The record is behind the one yielded before.
<1>18. ASSUME n > 0
       PROVE  yielded[n].bytes[1].rec < r
  <2>1. position > 0 /\ yielded[n].bytes[1].rec = file[position].rec
    BY <1>1, <1>2, <1>18 DEF n, WalInv, ReadInv
  <2>2. PICK q, p : q = file[position].rec /\ p = file[position].pos
    OBVIOUS
  <2>3. position \in 1 .. position /\ position \in 1 .. Len(file)
        /\ position + 1 \in 1 .. Len(file) /\ position < position + 1
    BY <2>1, <1>2, <1>3
  <2>4. file[position] # Zero
    BY <2>3, <1>2 DEF WholeTo
  <2>5. q \in 1 .. Len(appended) /\ p \in 1 .. SizeIn(appended, q)
        /\ position = appended[q].lsn + p
    BY <2>2, <2>3, <2>4, <1>2, Zenon DEF WellFormed, Placed
  <2>6. q # r
    BY <2>5, <1>4, <1>6
  <2>7. file[position + 1].rec = r /\ file[position + 1] # Zero
    BY <1>4, <1>6, ByteFacts
  <2>8. q <= r
    BY <2>2, <2>3, <2>7, <1>2 DEF WellFormed, InOrder
  <2> QED
    BY <2>1, <2>2, <2>5, <2>6, <2>8, <1>6, SMTT(30)
<1>19. ASSUME NEW k \in 1 .. Len(yielded')
       PROVE  \E x \in 1 .. Len(appended) :
                 /\ yielded'[k].lsn = appended[x].lsn
                 /\ yielded'[k].bytes = BytesOf(x, 1, Size(x))
                 /\ k > 1 => yielded'[k - 1].bytes[1].rec < x
  <2>n. n \in Nat /\ n = Len(yielded)
    BY <1>2 DEF n
  <2>1. CASE k = n + 1
    <3>1. k > 1 => yielded'[k - 1].bytes[1].rec < r
      <4>1. ASSUME k > 1 PROVE yielded'[k - 1] = yielded[n] /\ n > 0
        BY <4>1, <2>1, <2>n, <1>13
      <4> QED
        BY <4>1, <1>18
    <3>2. yielded'[k].lsn = appended[r].lsn /\ yielded'[k].bytes = BytesOf(r, 1, Size(r))
      BY <2>1, <1>4, <1>6, <1>13, <1>14 DEF b
    <3> QED
      BY <3>1, <3>2
  <2>2. CASE k # n + 1
    <3>1. k \in 1 .. n
      BY <2>2, <2>n, <1>13
    <3>2. PICK x \in 1 .. Len(appended) :
             /\ yielded[k].lsn = appended[x].lsn
             /\ yielded[k].bytes = BytesOf(x, 1, Size(x))
             /\ k > 1 => yielded[k - 1].bytes[1].rec < x
      BY <3>1, <2>n DEF WalInv, ReadInv, ReadsWhatWasAppended
    <3>3. yielded'[k] = yielded[k] /\ (k > 1 => yielded'[k - 1] = yielded[k - 1])
      BY <3>1, <2>n, <1>13, SMTT(30)
    <3> QED
      BY <3>2, <3>3
  <2> QED
    BY <2>1, <2>2
<1>20. ReadsWhatWasAppended'
  BY <1>1, <1>19 DEF ReadsWhatWasAppended, Size
<1>21. ASSUME NEW i \in 1 .. e
       PROVE  \E k \in 1 .. Len(yielded') :
                 yielded'[k].bytes = BytesOf(file[i].rec, 1, Size(file[i].rec))
  <2>n. n \in Nat /\ n = Len(yielded) /\ n + 1 \in 1 .. Len(yielded')
    BY <1>2, <1>13 DEF n
  <2>1. CASE i <= position
    <3>1. i \in 1 .. position
      BY <2>1, <1>6
    <3>2. PICK k \in 1 .. Len(yielded) :
             yielded[k].bytes = BytesOf(file[i].rec, 1, Size(file[i].rec))
      BY <3>1, <1>1 DEF WalInv, ReadInv
    <3>3. k \in 1 .. Len(yielded') /\ yielded'[k] = yielded[k]
      BY <2>n, <1>13
    <3> QED
      BY <3>2, <3>3
  <2>2. CASE ~ i <= position
    <3>1. PICK p : p = i - position
      OBVIOUS
    <3>2. p \in 1 .. z /\ p \in Nat /\ i = position + p
      BY <3>1, <2>2, <1>6
    <3>3. file[i] = Byte(r, p)
      BY <3>2, <1>4, <1>5 DEF Whole
    <3>4. file[i].rec = r
      BY <3>2, <3>3, <1>6, ByteFacts
    <3> QED
      BY <3>4, <2>n, <1>6, <1>13, <1>14 DEF b
  <2> QED
    BY <2>1, <2>2
<1>22. yielded'[Len(yielded')].bytes[1].rec = file[e].rec /\ e > 0
  <2>1. z \in 1 .. z /\ e > 0
    BY <1>6
  <2>2. file[e] = Byte(r, z)
    BY <2>1, <1>4, <1>5, <1>6 DEF Whole
  <2>3. file[e].rec = r
    BY <2>2, <1>6, ByteFacts
  <2> QED
    BY <2>1, <2>3, <1>11, <1>13, <1>14
<1>23. ReadInv'
  BY <1>1, <1>8, <1>20, <1>21, <1>22 DEF ReadInv, Size
<1> QED
  BY <1>15, <1>16, <1>17, <1>23 DEF WalInv

-----------------------------------------------------------------------------
(***************************************************************************)
(* The invariant holds whatever the lengths of records and integers, and   *)
(* however many short writes, kills and power losses there are.            *)
(***************************************************************************)
THEOREM WalInvariant == Spec => []WalInv
<1>1. Init => WalInv
  BY InitInv
<1>2. WalInv /\ [Next]_vars => WalInv'
  <2> SUFFICES ASSUME WalInv, [Next]_vars
               PROVE  WalInv'
    OBVIOUS
  <2>1. ASSUME NEW len \in Lengths, WriteRecord(len)
        PROVE  WalInv'
    BY <2>1, WriteRecordInv
  <2>2. ASSUME NEW len \in Lengths, NEW n \in 1 .. (HEADER_SIZE + len - 1),
               ShortWrite(len, n) \/ KillInWrite(len, n)
        PROVE  WalInv'
    BY <2>2, ShortWriteInv
  <2>3. CASE Sync
    BY <2>3, SyncInv
  <2>4. CASE Close \/ PowerLoss
    BY <2>4, DiesInv
  <2>5. CASE Open
    BY <2>5, OpenInv
  <2>6. CASE ScanRecord
    BY <2>6, ScanRecordInv
  <2>7. CASE Truncate
    BY <2>7, TruncateInv
  <2>8. CASE ReadRecord
    BY <2>8, ReadRecordInv
  <2>9. CASE ReadDone
    BY <2>9, ReadDoneInv
  <2>10. CASE UNCHANGED vars
    <3>1. /\ file' = file /\ synced' = synced /\ stage' = stage /\ position' = position
          /\ lsn' = lsn /\ yielded' = yielded /\ appended' = appended
          /\ durable' = durable /\ broken' = broken /\ incidents' = incidents
      BY <2>10 DEF vars
    <3>2. TypeInv'
      BY <3>1 DEF WalInv, TypeInv
    <3>3. FileInv' /\ DurableInv' /\ ScanInv'
      BY <3>1 DEF WalInv, FileInv, DurableInv, ScanInv
    <3>4. ReadsWhatWasAppended'
      BY <3>1 DEF WalInv, ReadInv, ReadsWhatWasAppended, Size
    <3>5. ReadInv'
      BY <3>1, <3>4 DEF WalInv, ReadInv, Size
    <3> QED
      BY <3>2, <3>3, <3>5 DEF WalInv
  <2> QED
    BY <2>1, <2>2, <2>3, <2>4, <2>5, <2>6, <2>7, <2>8, <2>9, <2>10 DEF Next
<1> QED
  BY <1>1, <1>2, PTL DEF Spec

\* What the invariant is for.
LEMMA InvTypes == WalInv => TypeOK
<1> SUFFICES ASSUME WalInv
             PROVE  TypeOK
  OBVIOUS
<1>1. TypeInv /\ Placed(file, appended)
  BY DEF WalInv, FileInv, WellFormed
<1>2. \A r : Size(r) = SizeIn(appended, r)
  BY RecordEnds
<1>3. \A i \in 1 .. Len(file) :
         \/ file[i] = Zero
         \/ /\ file[i].rec \in 1 .. Len(appended)
            /\ file[i].pos \in 1 .. Size(file[i].rec)
  BY <1>1, <1>2 DEF Placed
<1>4. \A r \in 1 .. Len(appended) : appended[r].written \in 1 .. Size(r)
  BY <1>1, <1>2 DEF TypeInv
<1> QED
  BY <1>1, <1>3, <1>4 DEF TypeInv, TypeOK

LEMMA InvSyncedAreRead == WalInv => SyncedAreRead
<1> SUFFICES ASSUME WalInv, AtEnd, NEW r \in durable
             PROVE  \E n \in 1 .. Len(yielded) :
                       yielded[n].bytes = BytesOf(r, 1, Size(r))
  BY DEF SyncedAreRead
<1>1. /\ file \in Seq(Bytes) /\ appended \in Seq(RecordInfo) /\ Len(file) \in Nat
      /\ WellFormed(file, appended) /\ position \in 0 .. Len(file)
      /\ stage = "read" /\ ~ HasHeader(position)
      /\ WholeTo(file, appended, position) /\ WholeTo(file, appended, Len(file))
      /\ r \in 1 .. Len(appended)
  BY DEF WalInv, TypeInv, FileInv, ScanInv, AtEnd
\* read_all stops at the end of the file only.
<1>2. position = Len(file)
  <2>1. ASSUME position < Len(file)
        PROVE  FALSE
    <3>1. PICK q \in 1 .. Len(appended) :
             appended[q].lsn = position /\ Whole(file, appended, q)
      BY <1>1, <2>1, NextIsWhole
    <3>2. Valid(position)
      BY <1>1, <3>1, WholeIsValid
    <3> QED
      BY <3>2, <1>1 DEF Valid
  <2> QED
    BY <2>1, <1>1
<1>3. /\ Whole(file, appended, r) /\ End(appended, r) <= Len(file)
      /\ End(appended, r) \in Nat /\ End(appended, r) >= 1 /\ r \in Nat
  BY <1>1, SizeFacts, HeaderSize DEF WalInv, DurableInv, Whole
<1>4. file[End(appended, r)].rec = r
  <2>1. PICK z : z = SizeIn(appended, r)
    OBVIOUS
  <2>2. z \in 1 .. z /\ z \in Nat /\ End(appended, r) = appended[r].lsn + z
    BY <1>1, <2>1, SizeFacts, HeaderSize
  <2>3. file[End(appended, r)] = Byte(r, z)
    BY <2>1, <2>2, <1>3 DEF Whole
  <2> QED
    BY <2>2, <2>3, <1>3, ByteFacts
<1>5. \A i \in 1 .. position :
         \E n \in 1 .. Len(yielded) :
             yielded[n].bytes = BytesOf(file[i].rec, 1, Size(file[i].rec))
  BY <1>1 DEF WalInv, ReadInv
<1>6. PICK i \in 1 .. position : file[i].rec = r
  BY <1>1, <1>2, <1>3, <1>4
<1> QED
  BY <1>5, <1>6

LEMMA InvAppendsAreReadable == WalInv => AppendsAreReadable
<1> SUFFICES ASSUME WalInv, stage = "open", ~ broken
             PROVE  {file[i].rec : i \in 1 .. Len(file)} \subseteq Readable
  BY DEF AppendsAreReadable
<1>1. /\ file \in Seq(Bytes) /\ appended \in Seq(RecordInfo)
      /\ WellFormed(file, appended) /\ WholeTo(file, appended, Len(file))
  BY DEF WalInv, TypeInv, FileInv, ScanInv
<1>2. \A i \in 1 .. Len(file) : file[i].rec \in Readable
  BY <1>1, WholeIsReadable
<1> QED
  BY <1>2

(***************************************************************************)
(* Every byte of wal.log is where append put it or a zero, and descriptor, *)
(* valid_lsn and the LSN of read_all stay in the file.                     *)
(***************************************************************************)
THEOREM TypeCorrect == Spec => []TypeOK
  BY WalInvariant, InvTypes, PTL

(***************************************************************************)
(* read_all yields only whole records, in the order they were appended and *)
(* at the LSNs that append returned, although it looks at no CRC.          *)
(***************************************************************************)
THEOREM ReadsAreFaithful == Spec => []ReadsWhatWasAppended
<1>1. WalInv => ReadsWhatWasAppended
  BY DEF WalInv, ReadInv
<1> QED
  BY <1>1, WalInvariant, PTL

(***************************************************************************)
(* Every record that an fdatasync covered in a readable log is yielded by  *)
(* every later read_all that reaches the end.                              *)
(***************************************************************************)
THEOREM SyncedRecordsAreRead == Spec => []SyncedAreRead
  BY WalInvariant, InvSyncedAreRead, PTL

(***************************************************************************)
(* Truncation leaves nothing in the file that hides what is appended next. *)
(***************************************************************************)
THEOREM AppendedRecordsAreReadable == Spec => []AppendsAreReadable
  BY WalInvariant, InvAppendsAreReadable, PTL

-----------------------------------------------------------------------------
(* The list of the records that are in the file, for a refinement proof    *)

\* lists[i] has, in order, what w says of those of the first i that are in P.
Lists(lists, P, w, n) ==
    /\ lists \in [0 .. n -> Seq(Nat)]
    /\ lists[0] = << >>
    /\ \A i \in 1 .. n :
          lists[i] = IF i \in P THEN Append(lists[i - 1], w[i]) ELSE lists[i - 1]

HasLists(P, w, n) == \E lists : Lists(lists, P, w, n)

LEMMA ListsExist ==
    ASSUME NEW n \in Nat, NEW P, NEW w \in [1 .. n -> Nat]
    PROVE  HasLists(P, w, n)
<1> DEFINE V == Seq(Nat)
           step == [i \in 1 .. n |->
                       [list \in V |-> IF i \in P THEN Append(list, w[i]) ELSE list]]
<1>1. PICK v : v = << >>
  OBVIOUS
<1>2. v \in V
  BY <1>1, EmptySeq
<1>3. step \in [1 .. n -> [V -> V]]
  <2>1. ASSUME NEW i \in 1 .. n, NEW list \in V
        PROVE  Append(list, w[i]) \in V
    BY AppendProperties
  <2> QED
    BY <2>1
<1>4. IsComputable(n, V, v, step)
  <2> HIDE DEF step, V
  <2> QED
    BY <1>2, <1>3, Recursion
<1>5. PICK g : Computes(g, n, V, v, step)
  BY <1>4 DEF IsComputable
<1>6. \A i \in 1 .. n :
         g[i] = IF i \in P THEN Append(g[i - 1], w[i]) ELSE g[i - 1]
  <2>1. \A i \in 1 .. n : i - 1 \in 0 .. n
    OBVIOUS
  <2>2. \A i \in 1 .. n : g[i - 1] \in V /\ g[i] = step[i][g[i - 1]]
    BY <1>5, <2>1 DEF Computes
  <2> QED
    BY <2>2
<1>7. Lists(g, P, w, n)
  BY <1>1, <1>5, <1>6 DEF Lists, Computes
<1> QED
  BY <1>7 DEF HasLists

\* Two of them agree as far as what they are made of does.
LEMMA ListsAgree ==
    ASSUME NEW n \in Nat, NEW P, NEW w, NEW lists, Lists(lists, P, w, n),
           NEW m \in Nat, NEW Q, NEW v, NEW others, Lists(others, Q, v, m),
           NEW k \in Nat, k <= n, k <= m,
           \A i \in 1 .. k : (i \in P <=> i \in Q) /\ (i \in P => w[i] = v[i])
    PROVE  \A i \in 0 .. k : lists[i] = others[i]
<1> DEFINE S == {i \in 0 .. k : lists[i] = others[i]}
<1>1. 0 \in S
  BY DEF Lists
<1>2. ASSUME NEW i \in 0 .. k, i \in S, i < k
      PROVE  i + 1 \in S
  <2>1. /\ i + 1 \in 1 .. n /\ i + 1 \in 1 .. m /\ i + 1 \in 1 .. k /\ i + 1 - 1 = i
        /\ i + 1 \in 0 .. k
    BY <1>2
  <2>2. lists[i + 1] = IF i + 1 \in P THEN Append(lists[i], w[i + 1]) ELSE lists[i]
    BY <2>1 DEF Lists
  <2>3. others[i + 1] = IF i + 1 \in Q THEN Append(others[i], v[i + 1]) ELSE others[i]
    BY <2>1 DEF Lists
  <2> QED
    BY <2>1, <2>2, <2>3, <1>2
<1>3. \A i \in 0 .. k : i \in S
  <2> HIDE DEF S
  <2> QED
    BY <1>1, <1>2, UpTo, Zenon
<1> QED
  BY <1>3

\* l is the beginning of list, with the first of what comes then if there is more.
StartsWith(list, l) ==
    Len(l) <= Len(list) /\ \A i \in 1 .. Len(l) : list[i] = l[i]

\* Each list starts with those before it.
LEMMA ListsGrow ==
    ASSUME NEW n \in Nat, NEW P, NEW w \in [1 .. n -> Nat], NEW lists,
           Lists(lists, P, w, n), NEW k \in 0 .. n, NEW m \in k .. n
    PROVE  StartsWith(lists[m], lists[k])
<1> DEFINE S == {i \in 0 .. (n - k) : StartsWith(lists[k + i], lists[k])}
<1>0. n - k \in Nat /\ m - k \in 0 .. (n - k) /\ k + (m - k) = m
  OBVIOUS
<1>1. 0 \in S
  BY DEF StartsWith, Lists
<1>2. ASSUME NEW i \in 0 .. (n - k), i \in S, i < n - k
      PROVE  i + 1 \in S
  <2>1. k + i + 1 \in 1 .. n /\ k + i + 1 - 1 = k + i /\ k + i \in 0 .. n
        /\ i + 1 \in 0 .. (n - k) /\ k + (i + 1) = k + i + 1
    BY <1>2
  <2>j. PICK j \in 1 .. n : j = k + i + 1 /\ j - 1 = k + i /\ j - 1 \in 0 .. n
    BY <2>1
  <2>2. PICK l, old, new : l = lists[k] /\ old = lists[j - 1] /\ new = lists[j]
    OBVIOUS
  <2>3. /\ l \in Seq(Nat) /\ old \in Seq(Nat) /\ w[j] \in Nat
        /\ new = IF j \in P THEN Append(old, w[j]) ELSE old
    BY <2>j, <2>2 DEF Lists
  <2>s. StartsWith(old, l)
    BY <2>j, <2>2, <1>2
  <2>4. StartsWith(new, l)
    <3>1. CASE j \in P
      <4>1. /\ Len(Append(old, w[j])) = Len(old) + 1
            /\ \A x \in 1 .. Len(old) : Append(old, w[j])[x] = old[x]
        BY <2>3, AppendProperties
      <4>2. Len(l) \in Nat /\ Len(old) \in Nat
        BY <2>3, LenProperties
      <4>3. Len(l) <= Len(new) /\ \A x \in 1 .. Len(l) : x \in 1 .. Len(old)
        BY <3>1, <4>1, <4>2, <2>3, <2>s DEF StartsWith
      <4>4. \A x \in 1 .. Len(l) : new[x] = l[x]
        BY <3>1, <4>1, <4>3, <2>3, <2>s DEF StartsWith
      <4> QED
        BY <4>3, <4>4 DEF StartsWith
    <3>2. CASE j \notin P
      BY <3>2, <2>3, <2>s
    <3> QED
      BY <3>1, <3>2
  <2> QED
    BY <2>1, <2>j, <2>2, <2>4
<1>3. \A i \in 0 .. (n - k) : i \in S
  <2> HIDE DEF S
  <2> QED
    BY <1>0, <1>1, <1>2, UpTo, Zenon
<1> QED
  BY <1>0, <1>3

\* Nothing is added where there is nothing.
LEMMA ListsRest ==
    ASSUME NEW n \in Nat, NEW P, NEW w, NEW lists,
           Lists(lists, P, w, n), NEW k \in 0 .. n, NEW m \in k .. n,
           \A i \in (k + 1) .. m : i \notin P
    PROVE  lists[m] = lists[k]
<1> DEFINE S == {i \in 0 .. (m - k) : lists[k + i] = lists[k]}
<1>0. m - k \in Nat /\ m - k \in 0 .. (m - k) /\ k + (m - k) = m
  OBVIOUS
<1>1. 0 \in S
  OBVIOUS
<1>2. ASSUME NEW i \in 0 .. (m - k), i \in S, i < m - k
      PROVE  i + 1 \in S
  <2>1. k + i + 1 \in 1 .. n /\ k + i + 1 - 1 = k + i /\ k + i + 1 \in (k + 1) .. m
        /\ i + 1 \in 0 .. (m - k) /\ k + (i + 1) = k + i + 1
    BY <1>2
  <2>2. lists[k + i + 1] = lists[k + i]
    BY <2>1 DEF Lists
  <2> QED
    BY <2>1, <2>2, <1>2
<1>3. \A i \in 0 .. (m - k) : i \in S
  <2> HIDE DEF S
  <2> QED
    BY <1>0, <1>1, <1>2, UpTo, Zenon
<1> QED
  BY <1>0, <1>3

\* All that is in a list comes from one of P.
From(lists, P, w, k) ==
    \A x \in 1 .. Len(lists[k]) : \E i \in 1 .. k : i \in P /\ lists[k][x] = w[i]

LEMMA ListsFrom ==
    ASSUME NEW n \in Nat, NEW P, NEW w \in [1 .. n -> Nat], NEW lists,
           Lists(lists, P, w, n), NEW k \in 0 .. n
    PROVE  From(lists, P, w, k)
<1> DEFINE S == {j \in 0 .. n : From(lists, P, w, j)}
<1>1. 0 \in S
  <2>1. Len(lists[0]) = 0
    BY EmptySeq DEF Lists
  <2> QED
    BY <2>1 DEF From
<1>2. ASSUME NEW j \in 0 .. n, j \in S, j < n
      PROVE  j + 1 \in S
  <2>1. j + 1 \in 1 .. n /\ j + 1 - 1 = j /\ j + 1 \in 0 .. n
    BY <1>2
  <2>2. PICK old, new : old = lists[j] /\ new = lists[j + 1]
    OBVIOUS
  <2>3. /\ old \in Seq(Nat) /\ w[j + 1] \in Nat
        /\ new = IF j + 1 \in P THEN Append(old, w[j + 1]) ELSE old
    <3>1. lists[j + 1] = IF j + 1 \in P THEN Append(lists[j], w[j + 1]) ELSE lists[j]
      <4>1. PICK i \in 1 .. n : i = j + 1 /\ i - 1 = j
        BY <2>1
      <4>2. lists[i] = IF i \in P THEN Append(lists[i - 1], w[i]) ELSE lists[i - 1]
        BY DEF Lists
      <4> QED
        BY <4>1, <4>2
    <3>2. lists[j] \in Seq(Nat) /\ w[j + 1] \in Nat
      BY <2>1, <1>2 DEF Lists
    <3> QED
      BY <2>2, <3>1, <3>2
  <2>4. \A y \in 1 .. Len(old) : \E i \in 1 .. j : i \in P /\ old[y] = w[i]
    BY <1>2, <2>2 DEF From
  <2>5. ASSUME NEW y \in 1 .. Len(new)
        PROVE  \E i \in 1 .. (j + 1) : i \in P /\ new[y] = w[i]
    <3>1. CASE j + 1 \in P
      <4>1. /\ Len(new) = Len(old) + 1 /\ new[Len(old) + 1] = w[j + 1]
            /\ \A z \in 1 .. Len(old) : new[z] = old[z]
            /\ Len(old) \in Nat
        BY <3>1, <2>3, AppendProperties, LenProperties
      <4>2. CASE y \in 1 .. Len(old)
        BY <4>1, <4>2, <2>4
      <4>3. CASE y = Len(old) + 1
        BY <4>1, <4>3, <3>1
      <4> QED
        BY <4>1, <4>2, <4>3
    <3>2. CASE j + 1 \notin P
      BY <3>2, <2>3, <2>4
    <3> QED
      BY <3>1, <3>2
  <2> QED
    BY <2>1, <2>2, <2>5 DEF From
<1>3. \A j \in 0 .. n : j \in S
  <2> HIDE DEF S
  <2> QED
    BY <1>1, <1>2, UpTo, Zenon
<1> QED
  BY <1>3
-----------------------------------------------------------------------------
(* Records and SyncedRecords, by the bytes                                 *)

\* The first byte of record r is in file f.
Begins(f, a, r) == a[r].lsn < Len(f) /\ f[a[r].lsn + 1] = Byte(r, 1)

Begun(f, a) == {r \in 1 .. Len(a) : Begins(f, a, r)}

Kinds(f, a) == [r \in 1 .. Len(a) |-> IF Whole(f, a, r) THEN r ELSE 0]

Listed(lists, f, a) == Lists(lists, Begun(f, a), Kinds(f, a), Len(a))

\* Zeros are all there is of a record.
ZerosOnly(f, a) ==
    /\ f # << >> /\ f[Len(f)] = Zero
    /\ \A r \in Begun(f, a) : Whole(f, a, r)

\* All that was written of r is covered by an fdatasync of s bytes.
Covered(f, a, s, r) == Begins(f, a, r) /\ a[r].lsn + a[r].written <= s

IsLastCovered(f, a, s, v) ==
    /\ v \in 0 .. Len(a) /\ (v # 0 => Covered(f, a, s, v))
    /\ \A r \in 1 .. Len(a) : Covered(f, a, s, r) => r <= v

\* R and c are the records and the number of synced ones that RecordLog has.
Views(lists, R, c, f, a, s) ==
    /\ Listed(lists, f, a)
    /\ R = IF ZerosOnly(f, a) THEN Append(lists[Len(a)], 0) ELSE lists[Len(a)]
    /\ s = Len(f) => c = Len(R)
    /\ s # Len(f) => \E v \in 0 .. Len(a) : IsLastCovered(f, a, s, v) /\ c = Len(lists[v])

IsView(R, c, f, a, s) == \E lists : Views(lists, R, c, f, a, s)

\* A record is in a list under its number, a torn one as 0.
LEMMA KindsType ==
    \A f, a : Len(a) \in Nat => Kinds(f, a) \in [1 .. Len(a) -> Nat]
  BY DEF Kinds

\* The mapping's recursive function computes these lists.
LEMMA RecordsToIs ==
    ASSUME file \in Seq(Bytes), appended \in Seq(RecordInfo), NEW lists,
           Listed(lists, file, appended), NEW m \in 0 .. Len(appended)
    PROVE  RecordsTo(m) = lists[m]
<1> DEFINE Made(f) == [r \in 0 .. m |->
                          IF r = 0 THEN << >>
                          ELSE IF Present(r)
                          THEN Append(f[r - 1], IF IsWhole(r) THEN r ELSE Torn)
                          ELSE f[r - 1]]
<1>n. Len(appended) \in Nat /\ m \in Nat
  BY LenProperties
<1>1. ASSUME NEW r \in 1 .. m
      PROVE  lists[r] = IF Present(r) THEN Append(lists[r - 1], IF IsWhole(r) THEN r ELSE Torn)
                        ELSE lists[r - 1]
  <2>1. r \in 1 .. Len(appended)
    BY <1>n
  <2>2. Present(r) <=> r \in Begun(file, appended)
    BY <2>1 DEF Present, Begun, Begins
  <2>3. Kinds(file, appended)[r] = IF IsWhole(r) THEN r ELSE Torn
    BY <2>1, IsWholeIffWhole DEF Kinds, Torn
  <2>4. lists[r] = IF r \in Begun(file, appended)
                   THEN Append(lists[r - 1], Kinds(file, appended)[r]) ELSE lists[r - 1]
    BY <2>1 DEF Listed, Lists
  <2> QED
    BY <2>2, <2>3, <2>4
<1>2. lists[0] = << >>
  BY DEF Listed, Lists
<1>3. PICK g : g = [r \in 0 .. m |-> lists[r]]
  OBVIOUS
<1>4. g = Made(g)
  <2>1. \A r \in 0 .. m : r # 0 => r \in 1 .. m /\ r - 1 \in 0 .. m
    BY <1>n
  <2>2. \A r \in 0 .. m : g[r] = Made(g)[r]
    BY <1>1, <1>2, <1>3, <2>1
  <2> QED
    BY <1>3, <2>2
<1>5. PICK f : f = (CHOOSE h : h = Made(h))
  OBVIOUS
<1>6. f = Made(f)
  BY <1>4, <1>5, Zenon
<1>7. RecordsTo(m) = f[m]
  BY <1>5, Zenon DEF RecordsTo
<1>8. \A r \in 0 .. m : f[r] = lists[r]
  <2> DEFINE S == {r \in 0 .. m : f[r] = lists[r]}
  <2>1. 0 \in S
    BY <1>2, <1>6, <1>n
  <2>2. ASSUME NEW r \in 0 .. m, r \in S, r < m
        PROVE  r + 1 \in S
    <3>1. PICK q \in 1 .. m : q = r + 1 /\ q - 1 = r /\ q \in 0 .. m /\ q # 0
      BY <2>2, <1>n
    <3>2. f[q] = IF Present(q) THEN Append(f[q - 1], IF IsWhole(q) THEN q ELSE Torn)
                 ELSE f[q - 1]
      BY <1>6, <3>1
    <3> QED
      BY <3>1, <3>2, <1>1, <2>2
  <2> HIDE DEF S
  <2>3. \A r \in 0 .. m : r \in S
    BY <2>1, <2>2, <1>n, UpTo, Zenon
  <2> QED
    BY <2>3 DEF S
<1> QED
  BY <1>7, <1>8, <1>n

\* What the mapping gives RecordLog is a view of the file ...
LEMMA ViewOf == WalInv => IsView(Records, SyncedRecords, file, appended, synced)
<1> SUFFICES ASSUME WalInv
             PROVE  IsView(Records, SyncedRecords, file, appended, synced)
  OBVIOUS
<1>1. /\ file \in Seq(Bytes) /\ appended \in Seq(RecordInfo) /\ Len(appended) \in Nat
      /\ synced \in Nat /\ Len(file) \in Nat
  BY LenProperties DEF WalInv, TypeInv
<1>2. PICK lists : Listed(lists, file, appended)
  BY <1>1, KindsType, ListsExist DEF HasLists, Listed
<1>3. PICK n \in Nat : n = Len(appended)
  BY <1>1
<1>4. /\ n \in 0 .. n /\ lists[n] \in Seq(Nat) /\ 0 \in Nat
      /\ \A m \in 0 .. n : RecordsTo(m) = lists[m]
  <2>1. ASSUME NEW m \in 0 .. n
        PROVE  RecordsTo(m) = lists[m]
    <3>1. m \in 0 .. Len(appended)
      BY <1>3
    <3> QED
      BY <3>1, <1>1, <1>2, RecordsToIs, Zenon
  <2>2. n \in 0 .. n /\ lists \in [0 .. n -> Seq(Nat)]
    BY <1>2, <1>3 DEF Listed, Lists
  <2> QED
    BY <2>1, <2>2
<1>5. TornZeros <=> ZerosOnly(file, appended)
  <2>1. \A r \in 1 .. Len(appended) : /\ Present(r) <=> r \in Begun(file, appended)
                                      /\ IsWhole(r) <=> Whole(file, appended, r)
    BY <1>1, IsWholeIffWhole DEF Present, Begun, Begins
  <2>2. \A r \in Begun(file, appended) : r \in 1 .. Len(appended)
    BY DEF Begun
  <2> QED
    BY <2>1, <2>2 DEF TornZeros, ZerosOnly
<1>6. Records = IF ZerosOnly(file, appended) THEN Append(lists[n], 0) ELSE lists[n]
  <2>1. RecordsTo(Len(appended)) = lists[n]
    BY <1>3, <1>4
  <2>2. PICK l \in Seq(Nat) : l = lists[n]
    BY <1>4
  <2>3. l \o << >> = l /\ l \o <<0>> = Append(l, 0)
    BY <2>2, ConcatEmptySeq, AppendIsConcat
  <2> QED
    BY <1>5, <2>1, <2>2, <2>3 DEF Records, Torn
<1>7. IsLastCovered(file, appended, synced, LastSynced)
  <2> DEFINE S == {r \in 1 .. Len(appended) : IsSynced(r)} \cup {0}
  <2>1. S \in SUBSET (0 .. n) /\ S # {}
    BY <1>3
  <2>2. Max(S) \in S /\ \A y \in S : y <= Max(S)
    <3> HIDE DEF S
    <3> QED
      BY <2>1, MaxFacts
  <2>3. \A r \in 1 .. n : IsSynced(r) <=> Covered(file, appended, synced, r)
    BY DEF IsSynced, Covered, Present, Begins
  <2>4. PICK v : v = Max(S)
    OBVIOUS
  <2>5. IsLastCovered(file, appended, synced, v)
    BY <2>1, <2>2, <2>3, <2>4, <1>3 DEF IsLastCovered
  <2> QED
    BY <2>4, <2>5 DEF LastSynced
<1>8. PICK v : v = LastSynced
  OBVIOUS
<1>9. v \in 0 .. n /\ RecordsTo(v) = lists[v]
  <2>1. v \in 0 .. n
    BY <1>3, <1>7, <1>8 DEF IsLastCovered
  <2> QED
    BY <2>1, <1>4
<1>10. SyncedRecords = IF synced = Len(file) THEN Len(Records) ELSE Len(lists[v])
  BY <1>8, <1>9 DEF SyncedRecords
<1>11. Views(lists, Records, SyncedRecords, file, appended, synced)
  BY <1>2, <1>3, <1>6, <1>7, <1>8, <1>9, <1>10 DEF Views
<1> QED
  BY <1>11 DEF IsView

\* ... and so it is in the next state.
LEMMA ViewOfNext ==
    WalInv' => IsView(Records', SyncedRecords', file', appended', synced')
<1> DEFINE Seen == IsView(Records, SyncedRecords, file, appended, synced)
<1>1. WalInv' => Seen'
  BY ViewOf, PTL
<1> QED
  BY <1>1

\* The lists of the first records are the beginnings of the whole.
LEMMA ViewStarts ==
    ASSUME NEW f, NEW a \in Seq(RecordInfo), NEW s, NEW R, NEW c,
           NEW lists, Views(lists, R, c, f, a, s), NEW v \in 0 .. Len(a)
    PROVE  /\ R \in Seq(Nat) /\ lists[v] \in Seq(Nat)
           /\ Len(R) \in Nat /\ Len(lists[v]) \in Nat
           /\ StartsWith(R, lists[v]) /\ Len(lists[v]) <= Len(R)
           /\ SubSeq(R, 1, Len(lists[v])) = lists[v]
           /\ \A u \in 0 .. v : Len(lists[u]) <= Len(lists[v])
<1>1. PICK n \in Nat : n = Len(a)
  BY LenProperties
<1>2. /\ Lists(lists, Begun(f, a), Kinds(f, a), n) /\ Kinds(f, a) \in [1 .. n -> Nat]
      /\ v \in 0 .. n
  BY <1>1, KindsType DEF Views, Listed
<1>3. lists \in [0 .. n -> Seq(Nat)]
  BY <1>2 DEF Lists
<1>4. PICK l, all : l = lists[v] /\ all = lists[n]
  OBVIOUS
<1>5. l \in Seq(Nat) /\ all \in Seq(Nat) /\ Len(l) \in Nat /\ Len(all) \in Nat
  <2>1. l \in Seq(Nat) /\ all \in Seq(Nat)
    BY <1>2, <1>3, <1>4
  <2> QED
    BY <2>1, LenProperties
<1>6. StartsWith(all, l)
  <2>1. n \in v .. n
    BY <1>2
  <2> QED
    BY <2>1, <1>2, <1>4, ListsGrow
<1>7. R = all \/ R = Append(all, 0)
  BY <1>1, <1>4 DEF Views
<1>8. /\ R \in Seq(Nat) /\ Len(all) <= Len(R) /\ Len(R) \in Nat
      /\ \A x \in 1 .. Len(all) : R[x] = all[x]
  <2>1. CASE R = all
    BY <2>1, <1>5
  <2>2. CASE R = Append(all, 0)
    BY <2>2, <1>5, AppendProperties, LenProperties
  <2> QED
    BY <2>1, <2>2, <1>7
<1>9. Len(l) <= Len(R) /\ \A x \in 1 .. Len(l) : R[x] = l[x]
  <2>1. Len(l) <= Len(all) /\ \A x \in 1 .. Len(l) : all[x] = l[x]
    BY <1>6 DEF StartsWith
  <2>2. Len(l) <= Len(R) /\ \A x \in 1 .. Len(l) : x \in 1 .. Len(all)
    BY <2>1, <1>5, <1>8
  <2> QED
    BY <2>1, <2>2, <1>8
<1>10. SubSeq(R, 1, Len(l)) = l
  <2>1. PICK m, q : m \in Nat /\ m = Len(l) /\ q = SubSeq(R, 1, m)
    BY <1>5
  <2>2. q \in Seq(Nat) /\ Len(q) = m /\ \A x \in 1 .. m : q[x] = R[x]
    BY <2>1, <1>8, <1>9
  <2>3. q = l
    BY <2>1, <2>2, <1>5, <1>9, SeqEqual
  <2> QED
    BY <2>1, <2>3
<1>11. \A u \in 0 .. v : Len(lists[u]) <= Len(l)
  <2> SUFFICES ASSUME NEW u \in 0 .. v
               PROVE  Len(lists[u]) <= Len(l)
    OBVIOUS
  <2>1. u \in 0 .. n /\ v \in u .. n
    BY <1>2
  <2>2. StartsWith(lists[v], lists[u])
    BY <2>1, <1>2, ListsGrow
  <2> QED
    BY <2>2, <1>4 DEF StartsWith
<1>12. StartsWith(R, l)
  BY <1>9 DEF StartsWith
<1> QED
  BY <1>4, <1>5, <1>8, <1>9, <1>10, <1>11, <1>12

\* Each record that is in the file adds one.
LEMMA ViewAdds ==
    ASSUME NEW f, NEW a \in Seq(RecordInfo), NEW s, NEW R, NEW c,
           NEW lists, Views(lists, R, c, f, a, s), NEW v \in Begun(f, a)
    PROVE  /\ v - 1 \in 0 .. Len(a)
           /\ Len(lists[v]) = Len(lists[v - 1]) + 1
           /\ lists[v] = Append(lists[v - 1], IF Whole(f, a, v) THEN v ELSE 0)
           /\ R[Len(lists[v - 1]) + 1] = IF Whole(f, a, v) THEN v ELSE 0
<1>1. Len(a) \in Nat /\ v \in 1 .. Len(a) /\ v - 1 \in 0 .. Len(a) /\ v \in 0 .. Len(a)
  BY LenProperties DEF Begun
<1>2. PICK k : k = IF Whole(f, a, v) THEN v ELSE 0
  OBVIOUS
<1>3. PICK old, new : old = lists[v - 1] /\ new = lists[v]
  OBVIOUS
<1>4. new = Append(old, k)
  BY <1>1, <1>2, <1>3 DEF Views, Listed, Lists, Kinds
<1>5. old \in Seq(Nat) /\ k \in Nat /\ StartsWith(R, new)
  <2>1. lists[v - 1] \in Seq(Nat)
    BY <1>1, ViewStarts, Zenon
  <2>2. StartsWith(R, lists[v])
    BY <1>1, ViewStarts, Zenon
  <2> QED
    BY <2>1, <2>2, <1>1, <1>2, <1>3
<1>6. Len(new) = Len(old) + 1 /\ new[Len(old) + 1] = k /\ Len(old) \in Nat
  BY <1>4, <1>5, AppendProperties, LenProperties
<1>7. R[Len(old) + 1] = k
  BY <1>5, <1>6 DEF StartsWith
<1> QED
  BY <1>1, <1>2, <1>3, <1>4, <1>6, <1>7

\* The synced records are some of the first.
LEMMA ViewCounts ==
    ASSUME NEW f, NEW a \in Seq(RecordInfo), NEW s, NEW R, NEW c, IsView(R, c, f, a, s)
    PROVE  R \in Seq(Nat) /\ Len(R) \in Nat /\ c \in 0 .. Len(R)
<1>1. PICK lists : Views(lists, R, c, f, a, s)
  BY DEF IsView
<1>2. 0 \in 0 .. Len(a)
  BY LenProperties
<1>3. R \in Seq(Nat) /\ Len(R) \in Nat
  BY <1>1, <1>2, ViewStarts
<1>4. CASE s = Len(f)
  BY <1>1, <1>3, <1>4 DEF Views
<1>5. CASE s # Len(f)
  <2>1. PICK v \in 0 .. Len(a) : c = Len(lists[v])
    BY <1>1, <1>5 DEF Views
  <2>2. Len(lists[v]) <= Len(R) /\ Len(lists[v]) \in Nat
    BY <1>1, ViewStarts, Zenon
  <2> QED
    BY <2>1, <2>2, <1>3
<1> QED
  BY <1>3, <1>4, <1>5

-----------------------------------------------------------------------------
(* Which records are in the file, after an append and after a cut          *)

\* Records are in the file in their order, a whole one ends before the next.
LEMMA BegunInOrder ==
    ASSUME NEW f \in Seq(Bytes), NEW a \in Seq(RecordInfo), WellFormed(f, a),
           NEW r \in Begun(f, a), NEW u \in Begun(f, a), r < u
    PROVE  /\ a[r].lsn < a[u].lsn
           /\ Whole(f, a, r) => End(a, r) <= a[u].lsn
<1>1. PICK x, y : x = a[r].lsn + 1 /\ y = a[u].lsn + 1
  OBVIOUS
<1>2. /\ r \in 1 .. Len(a) /\ u \in 1 .. Len(a) /\ Len(a) \in Nat /\ Len(f) \in Nat
      /\ a[r].lsn \in Nat /\ a[u].lsn \in Nat
  BY SizeFacts, LenProperties DEF Begun
<1>3. /\ x \in 1 .. Len(f) /\ y \in 1 .. Len(f)
      /\ f[x] = Byte(r, 1) /\ f[y] = Byte(u, 1)
  BY <1>1, <1>2, SMTT(30) DEF Begun, Begins
<1>4. /\ f[x].rec = r /\ f[y].rec = u /\ f[x] # Zero /\ f[y] # Zero /\ r # u
  BY <1>2, <1>3, ByteFacts
<1>5. \A z \in 1 .. Len(f) : f[z].rec = r /\ f[z] # Zero => z < y
  <2> SUFFICES ASSUME NEW z \in 1 .. Len(f), f[z].rec = r, f[z] # Zero, ~ (z < y)
               PROVE  FALSE
    OBVIOUS
  <2>1. z # y
    BY <1>4
  <2>2. y < z
    BY <2>1, <1>3
  <2>3. f[y].rec <= f[z].rec
    BY <2>2, <1>3 DEF WellFormed, InOrder
  <2> QED
    BY <2>3, <1>2, <1>4
<1>6. x < y
  BY <1>3, <1>4, <1>5
<1>7. ASSUME Whole(f, a, r)
      PROVE  End(a, r) <= a[u].lsn
  <2>1. PICK l, e : l = a[r].lsn /\ e = SizeIn(a, r)
    OBVIOUS
  <2>2. l \in Nat /\ e \in Nat \ {0} /\ End(a, r) = l + e
    BY <1>2, <2>1, SizeFacts, HeaderSize
  <2>3. e \in 1 .. e /\ l + e \in 1 .. Len(f) /\ f[l + e] = Byte(r, e)
    BY <1>2, <2>1, <2>2, <1>7, SMTT(30) DEF Whole
  <2>4. f[l + e].rec = r /\ f[l + e] # Zero
    BY <1>2, <2>2, <2>3, ByteFacts
  <2>5. l + e < y
    BY <2>3, <2>4, <1>5
  <2> QED
    BY <2>2, <2>5, <1>1, <1>2
<1> QED
  BY <1>1, <1>2, <1>6, <1>7

\* An append adds a record and leaves the others as they are.
Adds(f, a, g, b) ==
    /\ \A r \in 1 .. Len(a) : /\ Begins(g, b, r) <=> Begins(f, a, r)
                              /\ Whole(g, b, r) <=> Whole(f, a, r)
                              /\ b[r] = a[r]
    /\ Len(b) = Len(a) + 1 /\ Begins(g, b, Len(b))

\* This is what append does.
LEMMA AppendAdds ==
    ASSUME NEW f \in Seq(Bytes), NEW a \in Seq(RecordInfo), WellFormed(f, a),
           NEW g, NEW b, NEW n, Extended(f, a, g, b, n)
    PROVE  Adds(f, a, g, b)
<1>1. /\ g \in Seq(Bytes) /\ b \in Seq(RecordInfo) /\ Len(b) = Len(a) + 1
      /\ n \in 1 .. SizeIn(b, Len(b)) /\ Len(g) = Len(f) + n
      /\ \A i \in 1 .. Len(f) : g[i] = f[i]
      /\ \A i \in 1 .. Len(g) :
            i > Len(f) => i - Len(f) \in 1 .. n /\ g[i] = Byte(Len(b), i - Len(f))
      /\ \A r \in 1 .. Len(a) : b[r] = a[r]
      /\ b[Len(b)].lsn = Len(f)
  BY DEF Extended
<1>2. Len(f) \in Nat /\ Len(a) \in Nat /\ Len(b) \in Nat /\ n \in Nat \ {0} /\ Len(g) \in Nat
  <2>1. SizeIn(b, Len(b)) \in Nat
    BY <1>1, SizeFacts, LenProperties
  <2> QED
    BY <2>1, <1>1, LenProperties
\* A byte of an old record is an old byte.
<1>3. ASSUME NEW r \in 1 .. Len(a), NEW p \in Nat, NEW i \in 1 .. Len(g), g[i] = Byte(r, p)
      PROVE  i \in 1 .. Len(f) /\ f[i] = Byte(r, p)
  <2>1. CASE i > Len(f)
    <3>1. i - Len(f) \in Nat /\ g[i] = Byte(Len(b), i - Len(f))
      BY <2>1, <1>1, <1>2
    <3>2. Len(b) = r
      BY <3>1, <1>2, <1>3, ByteFacts
    <3> QED
      BY <3>2, <1>1, <1>2
  <2>2. CASE ~ (i > Len(f))
    <3>1. i \in 1 .. Len(f)
      BY <2>2, <1>2
    <3> QED
      BY <3>1, <1>1, <1>3
  <2> QED
    BY <2>1, <2>2
<1>4. ASSUME NEW r \in 1 .. Len(a)
      PROVE  Begins(g, b, r) <=> Begins(f, a, r)
  <2>1. PICK l : l \in Nat /\ l = a[r].lsn /\ l = b[r].lsn
    BY <1>1, SizeFacts
  <2>2. CASE Begins(f, a, r)
    <3>1. l + 1 \in 1 .. Len(f) /\ f[l + 1] = Byte(r, 1)
      BY <2>1, <2>2, <1>2 DEF Begins
    <3>2. l < Len(g) /\ g[l + 1] = Byte(r, 1)
      BY <3>1, <1>1, <1>2, <2>1
    <3> QED
      BY <2>1, <2>2, <3>2 DEF Begins
  <2>3. CASE Begins(g, b, r)
    <3>1. l + 1 \in 1 .. Len(g) /\ g[l + 1] = Byte(r, 1)
      BY <2>1, <2>3, <1>2 DEF Begins
    <3>2. l + 1 \in 1 .. Len(f) /\ f[l + 1] = Byte(r, 1)
      BY <3>1, <1>3
    <3> QED
      BY <2>1, <2>3, <3>2, <1>2 DEF Begins
  <2> QED
    BY <2>2, <2>3
<1>5. ASSUME NEW r \in 1 .. Len(a)
      PROVE  Whole(g, b, r) <=> Whole(f, a, r)
  <2>1. Whole(f, a, r) => Whole(g, b, r)
    BY AppendKeepsWhole
  <2>2. ASSUME Whole(g, b, r)
        PROVE  Whole(f, a, r)
    <3>1. PICK l, e : l = a[r].lsn /\ e = SizeIn(a, r)
      OBVIOUS
    <3>2. /\ l \in Nat /\ e \in Nat \ {0} /\ End(a, r) = l + e
          /\ l = b[r].lsn /\ e = SizeIn(b, r) /\ End(b, r) = l + e
      <4>1. /\ a[r].lsn \in Nat /\ SizeIn(a, r) \in Nat /\ SizeIn(a, r) >= HEADER_SIZE
            /\ End(a, r) = a[r].lsn + SizeIn(a, r)
        BY SizeFacts, Zenon
      <4>2. b[r] = a[r] /\ SizeIn(b, r) = SizeIn(a, r) /\ End(b, r) = End(a, r)
        BY <1>1 DEF SizeIn, End
      <4> QED
        BY <4>1, <4>2, <3>1, HeaderSize
    <3>3. ASSUME NEW p \in 1 .. e
          PROVE  l + p \in 1 .. Len(f) /\ f[l + p] = Byte(r, p)
      <4>1. l + p \in 1 .. Len(g) /\ g[l + p] = Byte(r, p)
        BY <2>2, <3>2, <1>2, SMTT(30) DEF Whole
      <4>2. p \in Nat
        BY <3>2
      <4> QED
        BY <4>1, <4>2, <1>3, Zenon
    <3>4. l + e <= Len(f)
      BY <3>2, <3>3, <1>2
    <3> QED
      BY <3>1, <3>2, <3>3, <3>4 DEF Whole
  <2> QED
    BY <2>1, <2>2
<1>6. Begins(g, b, Len(b))
  <2>1. Len(f) + 1 \in 1 .. Len(g) /\ Len(f) + 1 > Len(f) /\ Len(f) + 1 - Len(f) = 1
    BY <1>1, <1>2
  <2>2. g[Len(f) + 1] = Byte(Len(b), 1)
    BY <2>1, <1>1
  <2> QED
    BY <2>2, <1>1, <1>2 DEF Begins
<1> QED
  BY <1>1, <1>4, <1>5, <1>6 DEF Adds

\* t is the last of the records that have a first byte in g.
IsLastBegun(g, a, t) ==
    t \in 0 .. Len(a) /\ (t # 0 => t \in Begun(g, a)) /\ \A r \in Begun(g, a) : r <= t

\* There is such a t.
LEMMA LastBegun ==
    ASSUME NEW g, NEW a \in Seq(RecordInfo)
    PROVE  \E t \in 0 .. Len(a) : IsLastBegun(g, a, t)
<1>1. Len(a) \in Nat
  BY LenProperties
<1>2. PICK S : S = Begun(g, a) \cup {0}
  OBVIOUS
<1>3. S \in SUBSET (0 .. Len(a)) /\ S # {}
  BY <1>1, <1>2 DEF Begun
<1>4. PICK t \in S : \A r \in S : t >= r
  BY <1>1, <1>3, LargestNumber
<1> QED
  BY <1>1, <1>2, <1>3, <1>4 DEF IsLastBegun

\* What is left of the records when the file is cut to m bytes: t is the last.
Leaves(f, g, m, a, t) ==
    /\ \A r \in 1 .. Len(a) : r \in Begun(g, a) <=> r \in Begun(f, a) /\ a[r].lsn < m
    /\ \A r \in Begun(f, a) : r <= t => r \in Begun(g, a)
    /\ \A r \in Begun(g, a) : Whole(g, a, r) => Whole(f, a, r) /\ End(a, r) <= m
    /\ \A r \in Begun(f, a) : r < t /\ Whole(f, a, r) => Whole(g, a, r)
    /\ \A r \in Begun(f, a) : Whole(f, a, r) /\ End(a, r) <= m => Whole(g, a, r)

\* This is what a cut leaves.
LEMMA CutLeaves ==
    ASSUME NEW f \in Seq(Bytes), NEW a \in Seq(RecordInfo), WellFormed(f, a),
           NEW g, NEW m, Cut(f, g, m), NEW t, IsLastBegun(g, a, t)
    PROVE  Leaves(f, g, m, a, t)
<1>1. /\ g \in Seq(Bytes) /\ Len(g) \in Nat /\ Len(f) \in Nat /\ m \in Nat
      /\ m <= Len(g) /\ Len(g) <= Len(f) /\ Len(a) \in Nat
      /\ \A i \in 1 .. Len(g) : g[i] = IF i <= m THEN f[i] ELSE Zero
  BY LenProperties DEF Cut
\* A byte of a record is where it was.
<1>2. ASSUME NEW r \in 1 .. Len(a), NEW p \in Nat, NEW i \in 1 .. Len(g)
      PROVE  g[i] = Byte(r, p) <=> i <= m /\ f[i] = Byte(r, p)
  <2>1. Byte(r, p) # Zero
    BY ByteFacts
  <2> QED
    BY <2>1, <1>1
<1>3. ASSUME NEW r \in 1 .. Len(a)
      PROVE  r \in Begun(g, a) <=> r \in Begun(f, a) /\ a[r].lsn < m
  <2>1. PICK l : l \in Nat /\ l = a[r].lsn
    BY SizeFacts
  <2>2. CASE l < m
    <3>1. l + 1 \in 1 .. Len(g) /\ l + 1 <= m /\ l < Len(g) /\ l < Len(f)
      BY <2>1, <2>2, <1>1
    <3>2. g[l + 1] = Byte(r, 1) <=> f[l + 1] = Byte(r, 1)
      BY <3>1, <1>2
    <3> QED
      BY <2>1, <2>2, <3>1, <3>2 DEF Begun, Begins
  <2>3. CASE ~ (l < m)
    <3>1. ASSUME l < Len(g)
          PROVE  g[l + 1] # Byte(r, 1)
      <4>1. l + 1 \in 1 .. Len(g) /\ ~ (l + 1 <= m)
        BY <2>1, <2>3, <3>1, <1>1
      <4> QED
        BY <4>1, <1>2
    <3> QED
      BY <2>1, <2>3, <3>1 DEF Begun, Begins
  <2> QED
    BY <2>2, <2>3
<1>4. ASSUME NEW r \in Begun(f, a), r <= t
      PROVE  r \in Begun(g, a)
  <2>1. r \in 1 .. Len(a)
    BY DEF Begun
  <2>2. t \in 1 .. Len(a) /\ t \in Begun(g, a)
    BY <2>1, <1>1, <1>4 DEF IsLastBegun
  <2>3. t \in Begun(f, a) /\ a[t].lsn < m
    BY <2>2, <1>3
  <2>4. CASE r = t
    BY <2>4, <2>2
  <2>5. CASE r # t
    <3>1. r < t
      BY <2>1, <2>2, <2>5, <1>4
    <3>2. a[r].lsn < a[t].lsn
      BY <2>3, <3>1, BegunInOrder
    <3>3. a[r].lsn < m
      BY <2>1, <2>2, <2>3, <3>2, <1>1, SizeFacts, SMTT(30)
    <3> QED
      BY <2>1, <3>3, <1>3
  <2> QED
    BY <2>4, <2>5
<1>5. ASSUME NEW r \in Begun(g, a), Whole(g, a, r)
      PROVE  Whole(f, a, r) /\ End(a, r) <= m
  <2>1. PICK l, e : l = a[r].lsn /\ e = SizeIn(a, r)
    OBVIOUS
  <2>2. r \in 1 .. Len(a) /\ l \in Nat /\ e \in Nat \ {0} /\ End(a, r) = l + e
    BY <2>1, SizeFacts, HeaderSize DEF Begun
  <2>3. ASSUME NEW p \in 1 .. e
        PROVE  l + p <= m /\ f[l + p] = Byte(r, p)
    <3>1. l + p \in 1 .. Len(g) /\ g[l + p] = Byte(r, p)
      BY <1>5, <2>1, <2>2, <1>1, SMTT(30) DEF Whole
    <3>2. p \in Nat
      BY <2>2
    <3> QED
      BY <3>1, <3>2, <2>2, <1>2, Zenon
  <2>4. l + e <= m /\ l + e <= Len(f)
    BY <2>2, <2>3, <1>1
  <2> QED
    BY <2>1, <2>2, <2>3, <2>4 DEF Whole
<1>6. ASSUME NEW r \in Begun(f, a), Whole(f, a, r), End(a, r) <= m
      PROVE  Whole(g, a, r)
  <2>1. r \in 1 .. Len(a)
    BY DEF Begun
  <2> QED
    BY <2>1, <1>6, CutWellFormed
<1>7. ASSUME NEW r \in Begun(f, a), r < t, Whole(f, a, r)
      PROVE  Whole(g, a, r)
  <2>1. r \in 1 .. Len(a)
    BY DEF Begun
  <2>2. t \in 1 .. Len(a) /\ t \in Begun(g, a)
    BY <2>1, <1>1, <1>7 DEF IsLastBegun
  <2>3. t \in Begun(f, a) /\ a[t].lsn < m
    BY <2>2, <1>3
  <2>4. End(a, r) <= a[t].lsn
    BY <2>3, <1>7, BegunInOrder
  <2>5. End(a, r) <= m
    BY <2>1, <2>2, <2>3, <2>4, <1>1, SizeFacts
  <2> QED
    BY <2>5, <1>6, <1>7
<1> QED
  BY <1>3, <1>4, <1>5, <1>6, <1>7 DEF Leaves

-----------------------------------------------------------------------------
(* The records and the synced ones, after each kind of step                *)

\* No byte of a record lies behind what was written of it.
WithinWritten(f, a) ==
    \A i \in 1 .. Len(f) : f[i] # Zero => f[i].pos <= a[f[i].rec].written

\* All that was written of the records that are in the file is there.
Fits(f, a) ==
    \A r \in Begun(f, a) : a[r].lsn + a[r].written <= Len(f)

Sized(a) == \A r \in 1 .. Len(a) : a[r].written \in 1 .. SizeIn(a, r)

\* Of a file there is one view.
LEMMA ViewUnique ==
    ASSUME NEW f, NEW a \in Seq(RecordInfo), NEW s, NEW t,
           NEW R, NEW c, IsView(R, c, f, a, s), NEW Q, NEW d, IsView(Q, d, f, a, t)
    PROVE  Q = R /\ (s = t => d = c)
<1>1. PICK n \in Nat : n = Len(a)
  BY LenProperties
<1>2. PICK lists : Views(lists, R, c, f, a, s)
  BY DEF IsView
<1>3. PICK others : Views(others, Q, d, f, a, t)
  BY DEF IsView
<1>4. \A i \in 0 .. n : lists[i] = others[i]
  <2>1. PICK P, w : P = Begun(f, a) /\ w = Kinds(f, a)
    OBVIOUS
  <2>2. Lists(lists, P, w, n) /\ Lists(others, P, w, n)
    BY <2>1, <1>1, <1>2, <1>3 DEF Views, Listed
  <2>3. n <= n /\ \A i \in 1 .. n : (i \in P <=> i \in P) /\ (i \in P => w[i] = w[i])
    OBVIOUS
  <2> QED
    BY <2>2, <2>3, ListsAgree
<1>5. Q = R
  <2>1. lists[n] = others[n]
    BY <1>4
  <2> QED
    BY <2>1, <1>1, <1>2, <1>3 DEF Views
<1>6. ASSUME s = t
      PROVE  d = c
  <2>1. CASE s = Len(f)
    BY <2>1, <1>2, <1>3, <1>5, <1>6 DEF Views
  <2>2. CASE s # Len(f)
    <3>1. PICK v \in 0 .. n : IsLastCovered(f, a, s, v) /\ c = Len(lists[v])
      BY <2>2, <1>1, <1>2 DEF Views
    <3>2. PICK u \in 0 .. n : IsLastCovered(f, a, s, u) /\ d = Len(others[u])
      BY <2>2, <1>1, <1>3, <1>6 DEF Views
    <3>3. u = v
      BY <3>1, <3>2, <1>1 DEF IsLastCovered
    <3> QED
      BY <3>1, <3>2, <3>3, <1>4
  <2> QED
    BY <2>1, <2>2
<1> QED
  BY <1>5, <1>6

\* A process never has zeros in its log.
LEMMA NoZerosOnly ==
    ASSUME NEW f \in Seq(Bytes), NEW a, NoZeros(f)
    PROVE  ~ ZerosOnly(f, a)
<1> SUFFICES ASSUME f # << >>, f[Len(f)] = Zero
             PROVE  FALSE
  BY DEF ZerosOnly
<1>1. Len(f) \in 1 .. Len(f)
  BY EmptySeq, LenProperties
<1> QED
  BY <1>1 DEF NoZeros

\* R has one record more, whole or torn.
LEMMA ViewAppend ==
    ASSUME NEW f \in Seq(Bytes), NEW a \in Seq(RecordInfo), WellFormed(f, a),
           NoZeros(f), Fits(f, a), NEW g, NEW b, NEW n, Extended(f, a, g, b, n), NoZeros(g),
           NEW s \in 0 .. Len(f), NEW R, NEW c, IsView(R, c, f, a, s),
           NEW Q, NEW d, IsView(Q, d, g, b, s)
    PROVE  Q \in {Append(R, Len(b)), Append(R, 0)} /\ d = c
<1>1. /\ g \in Seq(Bytes) /\ b \in Seq(RecordInfo) /\ Len(b) = Len(a) + 1
      /\ Len(g) = Len(f) + n /\ b[Len(b)].lsn = Len(f) /\ b[Len(b)].written = n
      /\ n \in 1 .. SizeIn(b, Len(b))
  BY DEF Extended
<1>2. PICK k, q : k \in Nat /\ k = Len(a) /\ q = k + 1 /\ q = Len(b)
  BY <1>1, LenProperties
<1>3. Adds(f, a, g, b)
  BY AppendAdds
<1>4. PICK lists : Views(lists, R, c, f, a, s)
  BY DEF IsView
<1>5. PICK others : Views(others, Q, d, g, b, s)
  BY DEF IsView
<1>6. R = lists[k] /\ Q = others[q]
  BY <1>1, <1>2, <1>4, <1>5, NoZerosOnly DEF Views
<1>7. \A i \in 0 .. k : lists[i] = others[i]
  <2>1. /\ Lists(lists, Begun(f, a), Kinds(f, a), k)
        /\ Lists(others, Begun(g, b), Kinds(g, b), q)
    BY <1>2, <1>4, <1>5 DEF Views, Listed
  <2>2. \A i \in 1 .. k : /\ i \in Begun(f, a) <=> i \in Begun(g, b)
                          /\ Kinds(f, a)[i] = Kinds(g, b)[i]
    BY <1>2, <1>3 DEF Adds, Begun, Kinds
  <2>3. k \in Nat /\ q \in Nat /\ k <= k /\ k <= q
    BY <1>2
  <2> QED
    BY <2>1, <2>2, <2>3, ListsAgree
<1>8. Q \in {Append(R, q), Append(R, 0)}
  <2>1. q \in Begun(g, b)
    BY <1>2, <1>3 DEF Adds, Begun
  <2>2. others[q] = Append(others[q - 1], IF Whole(g, b, q) THEN q ELSE 0)
    BY <2>1, <1>1, <1>5, ViewAdds
  <2>3. others[q - 1] = R
    BY <1>2, <1>6, <1>7
  <2> QED
    BY <2>2, <2>3, <1>6
<1>9. s # Len(g) /\ n \in Nat \ {0} /\ Len(f) \in Nat
  <2>1. SizeIn(b, Len(b)) \in Nat
    BY <1>1, <1>2, SizeFacts
  <2> QED
    BY <2>1, <1>1, LenProperties
<1>10. PICK v \in 0 .. q : IsLastCovered(g, b, s, v) /\ d = Len(others[v])
  BY <1>2, <1>5, <1>9 DEF Views
<1>11. v \in 0 .. k
  <2>1. ~ Covered(g, b, s, q)
    BY <1>1, <1>2, <1>9 DEF Covered
  <2> QED
    BY <2>1, <1>2, <1>10 DEF IsLastCovered
<1>12. \A r \in 1 .. k : Covered(g, b, s, r) <=> Covered(f, a, s, r)
  BY <1>2, <1>3 DEF Adds, Covered
<1>13. IsLastCovered(f, a, s, v)
  <2>1. \A r \in 1 .. k : Covered(f, a, s, r) => r <= v
    BY <1>2, <1>10, <1>12 DEF IsLastCovered
  <2>2. v # 0 => Covered(f, a, s, v)
    BY <1>11, <1>10, <1>12 DEF IsLastCovered
  <2> QED
    BY <2>1, <2>2, <1>2, <1>11 DEF IsLastCovered
<1>14. d = Len(lists[v])
  BY <1>7, <1>10, <1>11
<1>15. CASE s = Len(f)
  <2>1. \A r \in (v + 1) .. k : r \notin Begun(f, a)
    <3> SUFFICES ASSUME NEW r \in (v + 1) .. k, r \in Begun(f, a)
                 PROVE  FALSE
      OBVIOUS
    <3>1. r \in 1 .. k /\ ~ (r <= v)
      BY <1>2, <1>11
    <3>2. Covered(f, a, s, r)
      BY <1>15 DEF Covered, Begun, Fits
    <3> QED
      BY <3>1, <3>2, <1>2, <1>13 DEF IsLastCovered
  <2>2. Lists(lists, Begun(f, a), Kinds(f, a), k) /\ k \in v .. k /\ v \in 0 .. k
    BY <1>2, <1>4, <1>11 DEF Views, Listed
  <2>3. lists[k] = lists[v]
    BY <2>1, <2>2, <1>2, ListsRest
  <2>4. c = Len(R)
    BY <1>4, <1>15 DEF Views
  <2> QED
    BY <2>3, <2>4, <1>2, <1>6, <1>8, <1>14
<1>16. CASE s # Len(f)
  <2>1. PICK u \in 0 .. k : IsLastCovered(f, a, s, u) /\ c = Len(lists[u])
    BY <1>2, <1>4, <1>16 DEF Views
  <2>2. u = v
    BY <2>1, <1>2, <1>11, <1>13 DEF IsLastCovered
  <2> QED
    BY <2>1, <2>2, <1>2, <1>8, <1>14
<1> QED
  BY <1>15, <1>16

\* What the lists are after a cut: up to the last record, and from it on.
Agree(lists, others, f, g, a, t) ==
    /\ others[Len(a)] = others[t]
    /\ \A i \in 0 .. t : i # t \/ (t # 0 => (Whole(f, a, t) <=> Whole(g, a, t))) =>
          others[i] = lists[i]

\* They do agree.
LEMMA ViewCut ==
    ASSUME NEW f, NEW a \in Seq(RecordInfo), NEW g, NEW m, NEW t,
           IsLastBegun(g, a, t), Leaves(f, g, m, a, t),
           NEW s, NEW R, NEW c, NEW lists, Views(lists, R, c, f, a, s),
           NEW u, NEW Q, NEW d, NEW others, Views(others, Q, d, g, a, u)
    PROVE  Agree(lists, others, f, g, a, t)
<1>1. PICK n \in Nat : n = Len(a)
  BY LenProperties
<1>2. /\ Lists(lists, Begun(f, a), Kinds(f, a), n)
      /\ Lists(others, Begun(g, a), Kinds(g, a), n)
      /\ t \in 0 .. n
  BY <1>1 DEF Views, Listed, IsLastBegun
<1>3. others[n] = others[t]
  <2>1. n \in t .. n
    BY <1>2
  <2>2. \A i \in (t + 1) .. n : i \notin Begun(g, a)
    <3> SUFFICES ASSUME NEW i \in (t + 1) .. n, i \in Begun(g, a)
                 PROVE  FALSE
      OBVIOUS
    <3>1. i <= t
      BY DEF IsLastBegun
    <3> QED
      BY <3>1, <1>2
  <2> QED
    BY <2>1, <2>2, <1>2, ListsRest
<1>4. \A i \in 1 .. t : /\ i \in Begun(f, a) <=> i \in Begun(g, a)
                        /\ i < t /\ i \in Begun(f, a) => (Whole(f, a, i) <=> Whole(g, a, i))
  <2> SUFFICES ASSUME NEW i \in 1 .. t
               PROVE  /\ i \in Begun(f, a) <=> i \in Begun(g, a)
                      /\ i < t /\ i \in Begun(f, a) => (Whole(f, a, i) <=> Whole(g, a, i))
    OBVIOUS
  <2>1. i \in 1 .. Len(a) /\ i <= t
    BY <1>1, <1>2
  <2>2. i \in Begun(f, a) <=> i \in Begun(g, a)
    BY <2>1 DEF Leaves
  <2> QED
    BY <2>2 DEF Leaves
<1>5. ASSUME NEW k \in Nat, k <= t,
             k # t \/ (t # 0 => (Whole(f, a, t) <=> Whole(g, a, t)))
      PROVE  \A i \in 0 .. k : lists[i] = others[i]
  <2>1. ASSUME NEW i \in 1 .. k
        PROVE  /\ i \in Begun(f, a) <=> i \in Begun(g, a)
               /\ i \in Begun(f, a) => Kinds(f, a)[i] = Kinds(g, a)[i]
    <3>1. i \in 1 .. t /\ i \in 1 .. n /\ (i < t \/ (i = t /\ k = t /\ t # 0))
      BY <1>2, <1>5
    <3>2. i \in Begun(f, a) => (Whole(f, a, i) <=> Whole(g, a, i))
      BY <3>1, <1>4, <1>5
    <3> QED
      BY <3>1, <3>2, <1>1, <1>4 DEF Kinds
  <2>2. k <= n
    BY <1>2, <1>5
  <2> QED
    BY <2>1, <2>2, <1>2, ListsAgree
<1>6. ASSUME NEW i \in 0 .. t, i # t \/ (t # 0 => (Whole(f, a, t) <=> Whole(g, a, t)))
      PROVE  others[i] = lists[i]
  <2>1. i \in Nat /\ i <= t /\ i \in 0 .. i
    BY <1>2
  <2>2. \A j \in 0 .. i : lists[j] = others[j]
    BY <2>1, <1>5, <1>6, Zenon
  <2> QED
    BY <2>1, <2>2
<1> QED
  BY <1>1, <1>3, <1>6 DEF Agree

\* What RecordLog's PowerLoss makes of the records.
Lost(R, c, Q) ==
    \E k \in c .. Len(R) :
        \/ Q = SubSeq(R, 1, k)
        \/ k < Len(R) /\ Q = Append(SubSeq(R, 1, k), 0)

\* Of what no fdatasync covers a part is left.
LEMMA ViewLoss ==
    ASSUME NEW f \in Seq(Bytes), NEW a \in Seq(RecordInfo), WellFormed(f, a),
           NoZeros(f), WithinWritten(f, a), Sized(a),
           NEW g, NEW m, Cut(f, g, m), m < Len(f), NEW s \in 0 .. m,
           NEW R, NEW c, IsView(R, c, f, a, s),
           NEW Q, NEW d, IsView(Q, d, g, a, Len(g))
    PROVE  Lost(R, c, Q) /\ d = Len(Q)
<1>1. PICK n \in Nat : n = Len(a)
  BY LenProperties
<1>2. m \in Nat /\ s \in Nat /\ s <= m /\ Len(f) \in Nat /\ s # Len(f)
  BY LenProperties DEF Cut
<1>3. PICK lists : Views(lists, R, c, f, a, s)
  BY DEF IsView
<1>4. PICK others : Views(others, Q, d, g, a, Len(g))
  BY DEF IsView
<1>5. PICK t \in 0 .. n : IsLastBegun(g, a, t)
  BY <1>1, LastBegun
<1>6. Leaves(f, g, m, a, t)
  BY <1>5, CutLeaves
<1>7. PICK v \in 0 .. n : IsLastCovered(f, a, s, v) /\ c = Len(lists[v])
  BY <1>1, <1>2, <1>3 DEF Views
\* What was synced is left.
<1>8. ASSUME v # 0
      PROVE  v \in Begun(g, a) /\ v <= t /\ a[v].lsn + a[v].written <= m
  <2>1. v \in 1 .. Len(a) /\ Covered(f, a, s, v)
    BY <1>1, <1>7, <1>8 DEF IsLastCovered
  <2>2. PICK l, w : l = a[v].lsn /\ w = a[v].written
    OBVIOUS
  <2>3. l \in Nat /\ w \in Nat \ {0}
    <3>1. SizeIn(a, v) \in Nat /\ a[v].lsn \in Nat
      BY <2>1, SizeFacts
    <3> QED
      BY <3>1, <2>1, <2>2 DEF Sized
  <2>4. Begins(f, a, v) /\ l + w <= s
    BY <2>1, <2>2 DEF Covered
  <2>5. l < m /\ l + w <= m
    BY <2>3, <2>4, <1>2
  <2>6. v \in Begun(g, a)
    BY <2>1, <2>2, <2>4, <2>5, <1>6 DEF Leaves, Begun
  <2> QED
    BY <2>2, <2>5, <2>6, <1>5 DEF IsLastBegun
<1>9. v <= t
  BY <1>7, <1>8, <1>5
<1>10. \A i \in 0 .. n : /\ lists[i] \in Seq(Nat) /\ Len(lists[i]) \in Nat
                         /\ Len(lists[i]) <= Len(R)
                         /\ SubSeq(R, 1, Len(lists[i])) = lists[i]
                         /\ \A j \in 0 .. i : Len(lists[j]) <= Len(lists[i])
  <2>1. ASSUME NEW i \in 0 .. n
        PROVE  /\ lists[i] \in Seq(Nat) /\ Len(lists[i]) \in Nat
               /\ Len(lists[i]) <= Len(R)
               /\ SubSeq(R, 1, Len(lists[i])) = lists[i]
               /\ \A j \in 0 .. i : Len(lists[j]) <= Len(lists[i])
    <3>1. i \in 0 .. Len(a)
      BY <1>1
    <3>2. lists[i] \in Seq(Nat) /\ Len(lists[i]) \in Nat
      BY <3>1, <1>3, ViewStarts, Zenon
    <3>3. Len(lists[i]) <= Len(R)
      BY <3>1, <1>3, ViewStarts, Zenon
    <3>5. SubSeq(R, 1, Len(lists[i])) = lists[i]
      BY <3>1, <1>3, ViewStarts
    <3>4. \A j \in 0 .. i : Len(lists[j]) <= Len(lists[i])
      BY <3>1, <1>3, ViewStarts, Zenon
    <3> QED
      BY <3>2, <3>3, <3>4, <3>5
  <2> QED
    BY <2>1
<1>r. Len(R) \in Nat /\ d = Len(Q)
  BY <1>3, <1>4, ViewCounts DEF IsView, Views
<1>a. Agree(lists, others, f, g, a, t)
  BY <1>3, <1>4, <1>5, <1>6, ViewCut
<1>11. others[n] = others[t]
  BY <1>1, <1>a DEF Agree
<1>12. CASE t # 0 => (Whole(f, a, t) <=> Whole(g, a, t))
  <2>1. others[t] = lists[t]
    <3>1. t \in 0 .. t
      BY <1>1
    <3>2. \A i \in 0 .. t : i # t \/ (t # 0 => (Whole(f, a, t) <=> Whole(g, a, t))) =>
             others[i] = lists[i]
      BY <1>a DEF Agree
    <3> QED
      BY <3>1, <3>2, <1>12
  <2>2. PICK k : k = Len(lists[t])
    OBVIOUS
  <2>3. k \in c .. Len(R) /\ SubSeq(R, 1, k) = lists[t]
    <3>1. v \in 0 .. t /\ t \in 0 .. n
      BY <1>7, <1>9, <1>5
    <3> QED
      BY <3>1, <2>2, <1>7, <1>10
  <2>4. CASE ~ ZerosOnly(g, a)
    <3>1. Q = SubSeq(R, 1, k)
      BY <2>1, <2>3, <2>4, <1>1, <1>4, <1>11 DEF Views
    <3> QED
      BY <3>1, <2>3, <1>r DEF Lost
  \* There was more in the file, and it was of a record that is gone.
  <2>5. CASE ZerosOnly(g, a)
    <3>1. Q = Append(SubSeq(R, 1, k), 0)
      BY <2>1, <2>3, <2>5, <1>1, <1>4, <1>11 DEF Views
    <3>2. PICK u, p : u = f[m + 1].rec /\ p = f[m + 1].pos
      OBVIOUS
    <3>3. m + 1 \in 1 .. Len(f) /\ f[m + 1] # Zero
      BY <1>2 DEF NoZeros
    <3>4. u \in 1 .. Len(a) /\ p \in 1 .. SizeIn(a, u) /\ m + 1 = a[u].lsn + p
      BY <3>2, <3>3 DEF WellFormed, Placed
    <3>5. \A i \in 1 .. p : f[a[u].lsn + i] = Byte(u, i)
      BY <3>2, <3>3 DEF WellFormed, Prefixed
    <3>6. PICK l \in Nat, e \in Nat : l = a[u].lsn /\ e = SizeIn(a, u) /\ End(a, u) = l + e
      BY <3>4, SizeFacts
    <3>7. u \in Begun(f, a)
      <4>1. 1 \in 1 .. p /\ l < Len(f)
        BY <3>3, <3>4, <3>6
      <4> QED
        BY <4>1, <3>4, <3>5, <3>6 DEF Begun, Begins
    <3>8. u \notin Begun(g, a)
      <4>1. ASSUME u \in Begun(g, a)
            PROVE  FALSE
        <5>1. Whole(g, a, u)
          BY <4>1, <2>5 DEF ZerosOnly
        <5>2. End(a, u) <= m
          BY <4>1, <5>1, <1>6 DEF Leaves
        <5> QED
          BY <5>2, <3>4, <3>6, <1>2, SMTT(30)
      <4> QED
        BY <4>1
    <3>9. ~ (u <= t)
      BY <3>7, <3>8, <1>6 DEF Leaves
    <3>10. u \in 0 .. n /\ u - 1 \in 0 .. n /\ t \in 0 .. (u - 1)
      BY <3>4, <3>9, <1>1
    <3>11. Len(lists[u]) = Len(lists[u - 1]) + 1
      BY <3>7, <1>3, ViewAdds
    <3>12. k < Len(R)
      <4>1. PICK x, y : x = Len(lists[u - 1]) /\ y = Len(lists[u])
        OBVIOUS
      <4>2. x \in Nat /\ y \in Nat /\ k <= x /\ y <= Len(R) /\ y = x + 1
        BY <4>1, <3>10, <3>11, <2>2, <1>10
      <4> QED
        BY <4>2, <2>3, <1>r
    <3> QED
      BY <3>1, <3>12, <2>3, <1>r DEF Lost
  <2> QED
    BY <2>4, <2>5
\* The last record is cut in two.
<1>13. CASE ~ (t # 0 => (Whole(f, a, t) <=> Whole(g, a, t)))
  <2>1. t # 0 /\ t \in Begun(g, a) /\ Whole(f, a, t) /\ ~ Whole(g, a, t)
    BY <1>5, <1>6, <1>13 DEF IsLastBegun, Leaves
  <2>2. t \in Begun(f, a) /\ t \in 1 .. Len(a) /\ t - 1 \in 0 .. n /\ t - 1 \in 0 .. t /\ t - 1 # t
    <3>1. t \in 1 .. Len(a)
      BY <2>1 DEF Begun
    <3> QED
      BY <3>1, <2>1, <1>1, <1>6 DEF Leaves
  <2>3. others[t - 1] = lists[t - 1]
    BY <2>2, <1>a DEF Agree
  <2>4. others[t] = Append(others[t - 1], 0)
    <3>1. others[t] = Append(others[t - 1], IF Whole(g, a, t) THEN t ELSE 0)
      BY <2>1, <1>4, ViewAdds
    <3> QED
      BY <3>1, <2>1
  <2>5. ~ ZerosOnly(g, a)
    BY <2>1 DEF ZerosOnly
  <2>6. PICK k : k = Len(lists[t - 1])
    OBVIOUS
  <2>7. v <= t - 1
    <3>1. ASSUME v = t
          PROVE  FALSE
      <4>1. PICK l \in Nat, e \in Nat \ {0} : l = a[t].lsn /\ e = SizeIn(a, t) /\ End(a, t) = l + e
        BY <2>2, SizeFacts, HeaderSize
      <4>2. e \in 1 .. e /\ l + e \in 1 .. Len(f) /\ f[l + e] = Byte(t, e)
        <5>1. e \in 1 .. e /\ l + e >= 1 /\ l + e \in Nat
          <6>1. l \in Nat /\ e \in Nat /\ e # 0
            OBVIOUS
          <6> QED
            BY <6>1
        <5>2. l + e <= Len(f)
          BY <4>1, <2>1 DEF Whole
        <5>3. f[l + e] = Byte(t, e)
          BY <4>1, <5>1, <2>1 DEF Whole
        <5> QED
          BY <5>1, <5>2, <5>3, <4>1, <1>2
      <4>3. f[l + e].rec = t /\ f[l + e].pos = e /\ f[l + e] # Zero
        BY <4>1, <4>2, <2>1, <2>2, <1>1, ByteFacts, SMTT(30)
      <4>4. e <= a[t].written
        BY <4>2, <4>3 DEF WithinWritten
      <4>5. PICK w \in Nat : w = a[t].written
        BY <4>1, <2>2 DEF Sized
      <4>6. l + w <= m
        BY <3>1, <4>1, <4>5, <2>1, <1>8
      <4>7. End(a, t) <= m
        BY <4>1, <4>4, <4>5, <4>6, <1>2, SMTT(30)
      <4> QED
        BY <4>7, <2>1, <2>2, <1>6 DEF Leaves
    <3> QED
      BY <3>1, <1>9, <1>1
  <2>8. k \in c .. Len(R) /\ k < Len(R) /\ SubSeq(R, 1, k) = lists[t - 1]
    <3>1. v \in 0 .. (t - 1)
      BY <2>7, <1>7, <1>1
    <3>2. Len(lists[t]) = k + 1
      BY <2>2, <2>6, <1>3, ViewAdds
    <3>3. k \in Nat /\ c <= k /\ c \in Nat /\ SubSeq(R, 1, k) = lists[t - 1]
      BY <3>1, <2>2, <2>6, <1>7, <1>10
    <3>4. k + 1 <= Len(R)
      BY <3>2, <1>10
    <3> QED
      BY <3>3, <3>4, <1>r
  <2>9. Q = Append(SubSeq(R, 1, k), 0)
    BY <2>3, <2>4, <2>5, <2>8, <1>1, <1>4, <1>11 DEF Views
  <2> QED
    BY <2>8, <2>9, <1>r DEF Lost
<1> QED
  BY <1>12, <1>13

\* What RecordLog's Restart makes of the records and of the synced ones.
Restarted(R, c, Q, d) ==
    \E k \in 0 .. Len(R) :
        /\ Q = SubSeq(R, 1, k)
        /\ d = Smaller(c, k)
        /\ \A i \in 1 .. k : R[i] # 0
        /\ k < Len(R) => R[k + 1] = 0

\* What the records are comes from the file.
LEMMA ViewKinds ==
    ASSUME NEW f, NEW a \in Seq(RecordInfo), NEW s, NEW R, NEW c,
           NEW lists, Views(lists, R, c, f, a, s), NEW v \in 0 .. Len(a),
           NEW i \in 1 .. Len(lists[v])
    PROVE  \E j \in 1 .. v : j \in Begun(f, a) /\ R[i] = IF Whole(f, a, j) THEN j ELSE 0
<1>1. PICK n \in Nat : n = Len(a)
  BY LenProperties
<1>2. PICK P, w : P = Begun(f, a) /\ w = Kinds(f, a)
  OBVIOUS
<1>3. Lists(lists, P, w, n) /\ w \in [1 .. n -> Nat] /\ v \in 0 .. n
  BY <1>1, <1>2, KindsType DEF Views, Listed
<1>4. PICK j \in 1 .. v : j \in P /\ lists[v][i] = w[j]
  <2>1. From(lists, P, w, v)
    BY <1>3, ListsFrom
  <2> QED
    BY <2>1 DEF From
<1>5. R[i] = lists[v][i]
  <2>1. StartsWith(R, lists[v])
    BY ViewStarts, Zenon
  <2> QED
    BY <2>1 DEF StartsWith
<1> QED
  BY <1>1, <1>2, <1>3, <1>4, <1>5 DEF Kinds

\* No whole record begins behind the first m bytes.
NoneWholeAt(f, a, m) == \A r \in 1 .. Len(a) : Whole(f, a, r) => a[r].lsn # m

\* The first record behind whole ones that is not whole.
LEMMA TornNext ==
    ASSUME NEW f \in Seq(Bytes), NEW a \in Seq(RecordInfo), WellFormed(f, a),
           NEW m, WholeTo(f, a, m),
           NoneWholeAt(f, a, m),
           NEW t \in Nat, NEW u \in Begun(f, a),
           \A r \in Begun(f, a) : r < u => r <= t,
           \A r \in Begun(f, a) : r <= t => a[r].lsn < m,
           ~ (a[u].lsn < m)
    PROVE  ~ Whole(f, a, u)
<1>1. m \in 0 .. Len(f) /\ Len(f) \in Nat /\ m \in Nat
  BY LenProperties DEF WholeTo
<1>2. PICK l : l = a[u].lsn
  OBVIOUS
<1>3. /\ u \in 1 .. Len(a) /\ l \in Nat /\ m <= l /\ l + 1 \in 1 .. Len(f)
      /\ f[l + 1] = Byte(u, 1)
  <2>1. u \in 1 .. Len(a) /\ l < Len(f) /\ f[l + 1] = Byte(u, 1)
    BY <1>2 DEF Begun, Begins
  <2>2. l \in Nat
    BY <2>1, <1>2, SizeFacts
  <2>3. ~ (l < m)
    BY <1>2
  <2>4. m <= l /\ l + 1 \in 1 .. Len(f)
    BY <2>1, <2>2, <2>3, <1>1
  <2> QED
    BY <2>1, <2>2, <2>4
<1>4. m + 1 \in 1 .. Len(f) /\ (m + 1 = l + 1 \/ m + 1 < l + 1)
  BY <1>1, <1>3
<1>5. Len(a) \in Nat /\ u \in Nat /\ f[l + 1] # Zero /\ f[l + 1].rec = u
  BY <1>3, ByteFacts, LenProperties
<1>6. f[m + 1] # Zero
  BY <1>3, <1>4, <1>5 DEF WellFormed, ZerosLast
<1>7. PICK q, p : q = f[m + 1].rec /\ p = f[m + 1].pos
  OBVIOUS
<1>8. /\ q \in 1 .. Len(a) /\ p \in 1 .. SizeIn(a, q) /\ m + 1 = a[q].lsn + p
      /\ \A x \in 1 .. p : f[a[q].lsn + x] = Byte(q, x)
  BY <1>4, <1>6, <1>7 DEF WellFormed, Placed, Prefixed
<1>9. PICK k \in Nat, e \in Nat : k = a[q].lsn /\ e = SizeIn(a, q) /\ End(a, q) = k + e
  BY <1>8, SizeFacts
<1>10. q \in Begun(f, a)
  <2>1. 1 \in 1 .. p /\ k < Len(f)
    BY <1>1, <1>4, <1>8, <1>9
  <2> QED
    BY <2>1, <1>8, <1>9 DEF Begun, Begins
<1>11. ~ (q <= t)
  <2>1. ASSUME q <= t
        PROVE  FALSE
    <3>1. k < m /\ f[k + 1] = Byte(q, 1)
      BY <2>1, <1>9, <1>10 DEF Begun, Begins
    <3>2. k + 1 \in 1 .. m /\ f[k + 1].rec = q
      <4>1. q \in Nat /\ 1 \in Nat /\ k \in Nat
        BY <1>5, <1>8
      <4>2. f[k + 1].rec = q
        BY <4>1, <3>1, ByteFacts
      <4> QED
        BY <4>1, <4>2, <3>1, <1>1
    <3>3. End(a, q) <= m
      BY <3>2 DEF WholeTo
    <3> QED
      BY <3>3, <1>1, <1>8, <1>9, SMTT(30)
  <2> QED
    BY <2>1
<1>12. q <= u
  BY <1>3, <1>4, <1>5, <1>7, <1>8 DEF WellFormed, InOrder
<1>13. q = u
  BY <1>5, <1>8, <1>10, <1>11, <1>12
<1>14. l = m
  <2>1. k = l
    BY <1>2, <1>9, <1>13
  <2>2. p \in Nat \ {0} /\ m + 1 = k + p
    BY <1>8, <1>9
  <2> QED
    BY <2>1, <2>2, <1>1, <1>3
<1> QED
  BY <1>2, <1>3, <1>14 DEF NoneWholeAt

\* The process that starts leaves the whole records up to the first torn one.
LEMMA ViewTruncated ==
    ASSUME NEW f \in Seq(Bytes), NEW a \in Seq(RecordInfo), WellFormed(f, a), Sized(a),
           NEW g, NEW m, Cut(f, g, m), Len(g) = m, WholeTo(f, a, m),
           NoneWholeAt(f, a, m),
           NEW s \in 0 .. Len(f),
           NEW R, NEW c, IsView(R, c, f, a, s),
           NEW Q, NEW d, IsView(Q, d, g, a, Smaller(s, m))
    PROVE  Restarted(R, c, Q, d)
<1>1. PICK n \in Nat : n = Len(a)
  BY LenProperties
<1>2. /\ g \in Seq(Bytes) /\ m \in Nat /\ s \in Nat /\ Len(f) \in Nat /\ m <= Len(f)
      /\ \A i \in 1 .. m : g[i] = f[i]
  <2>1. /\ g \in Seq(Bytes) /\ m \in 0 .. Len(f) /\ Len(f) \in Nat
        /\ \A i \in 1 .. Len(g) : g[i] = IF i <= m THEN f[i] ELSE Zero
    BY LenProperties DEF Cut
  <2> QED
    BY <2>1
<1>3. PICK lists : Views(lists, R, c, f, a, s)
  BY DEF IsView
<1>4. PICK others : Views(others, Q, d, g, a, Smaller(s, m))
  BY DEF IsView
<1>5. PICK t \in 0 .. n : IsLastBegun(g, a, t)
  BY <1>1, LastBegun
<1>6. Leaves(f, g, m, a, t)
  BY <1>5, CutLeaves
<1>7. NoZeros(g) /\ ~ ZerosOnly(g, a)
  <2>1. NoZeros(g)
    BY <1>2 DEF NoZeros, WholeTo
  <2> QED
    BY <2>1, <1>2, NoZerosOnly
\* What is left is whole.
<1>8. ASSUME NEW r \in Begun(g, a)
      PROVE  /\ r \in 1 .. Len(a) /\ r \in Begun(f, a) /\ a[r].lsn < m
             /\ Whole(f, a, r) /\ End(a, r) <= m /\ Whole(g, a, r)
  <2>1. r \in 1 .. Len(a)
    BY DEF Begun
  <2>2. PICK l : l = a[r].lsn
    OBVIOUS
  <2>3. r \in Begun(f, a) /\ l < m /\ l \in Nat
    BY <2>1, <2>2, <1>6, SizeFacts DEF Leaves
  <2>4. l + 1 \in 1 .. m /\ f[l + 1] = Byte(r, 1)
    <3>1. l + 1 \in 1 .. m
      BY <2>3, <1>2
    <3>2. f[l + 1] = Byte(r, 1)
      BY <2>2, <2>3 DEF Begun, Begins
    <3> QED
      BY <3>1, <3>2
  <2>5. f[l + 1].rec = r
    <3>1. r \in Nat /\ 1 \in Nat
      BY <2>1
    <3> QED
      BY <2>4, <3>1, ByteFacts
  <2>6. Whole(f, a, r) /\ End(a, r) <= m
    BY <2>4, <2>5 DEF WholeTo
  <2>7. Whole(g, a, r)
    BY <2>3, <2>6, <1>6 DEF Leaves
  <2> QED
    BY <2>1, <2>2, <2>3, <2>6, <2>7
<1>9. PICK k : k = Len(lists[t])
  OBVIOUS
<1>10. Q = lists[t] /\ others[n] = others[t] /\ \A i \in 0 .. t : others[i] = lists[i]
  <2>0. PICK z : z = Smaller(s, m)
    OBVIOUS
  <2>1. Agree(lists, others, f, g, a, t)
    <3>1. Views(others, Q, d, g, a, z)
      BY <2>0, <1>4
    <3> QED
      BY <3>1, <1>3, <1>5, <1>6, ViewCut
  <2>2. others[n] = others[t]
    BY <2>1, <1>1 DEF Agree
  <2>3. t # 0 => (Whole(f, a, t) <=> Whole(g, a, t))
    BY <1>5, <1>8 DEF IsLastBegun
  <2>4. \A i \in 0 .. t : others[i] = lists[i]
    BY <2>1, <2>3 DEF Agree
  <2>5. t \in 0 .. t
    OBVIOUS
  <2> QED
    BY <2>2, <2>4, <2>5, <1>1, <1>4, <1>7 DEF Views
<1>11. \A i \in 0 .. n : /\ Len(lists[i]) \in Nat /\ Len(lists[i]) <= Len(R)
                         /\ SubSeq(R, 1, Len(lists[i])) = lists[i]
                         /\ StartsWith(R, lists[i])
                         /\ \A j \in 0 .. i : Len(lists[j]) <= Len(lists[i])
  <2>1. ASSUME NEW i \in 0 .. n
        PROVE  /\ Len(lists[i]) \in Nat /\ Len(lists[i]) <= Len(R)
               /\ SubSeq(R, 1, Len(lists[i])) = lists[i]
               /\ StartsWith(R, lists[i])
               /\ \A j \in 0 .. i : Len(lists[j]) <= Len(lists[i])
    <3>1. i \in 0 .. Len(a)
      BY <1>1
    <3>2. Len(lists[i]) \in Nat /\ Len(lists[i]) <= Len(R)
      BY <3>1, <1>3, ViewStarts, Zenon
    <3>3. SubSeq(R, 1, Len(lists[i])) = lists[i]
      BY <3>1, <1>3, ViewStarts
    <3>4. StartsWith(R, lists[i])
      BY <3>1, <1>3, ViewStarts, Zenon
    <3>5. \A j \in 0 .. i : Len(lists[j]) <= Len(lists[i])
      BY <3>1, <1>3, ViewStarts, Zenon
    <3> QED
      BY <3>2, <3>3, <3>4, <3>5
  <2> QED
    BY <2>1
<1>12. k \in 0 .. Len(R) /\ Q = SubSeq(R, 1, k) /\ Len(Q) = k /\ Len(R) \in Nat /\ k \in Nat
  <2>1. Len(R) \in Nat
    BY ViewCounts
  <2> QED
    BY <2>1, <1>9, <1>10, <1>11
\* None of it is torn.
<1>13. ASSUME NEW i \in 1 .. k
       PROVE  R[i] # 0
  <2>1. t \in 0 .. Len(a) /\ i \in 1 .. Len(lists[t])
    BY <1>1, <1>9
  <2>2. PICK j \in 1 .. t : j \in Begun(f, a) /\ R[i] = IF Whole(f, a, j) THEN j ELSE 0
    BY <2>1, <1>3, ViewKinds
  <2>3. j \in Begun(g, a) /\ j # 0
    BY <2>2, <1>6 DEF Leaves
  <2> QED
    BY <2>2, <2>3, <1>8
\* What comes next, if anything, is.
<1>14. ASSUME k < Len(R)
       PROVE  R[k + 1] = 0
  <2>1. CASE \A r \in Begun(f, a) : r <= t
    <3>1. lists[n] = lists[t]
      <4>1. n \in t .. n /\ \A i \in (t + 1) .. n : i \notin Begun(f, a)
        BY <2>1
      <4>2. Lists(lists, Begun(f, a), Kinds(f, a), n)
        BY <1>1, <1>3 DEF Views, Listed
      <4> QED
        BY <4>1, <4>2, ListsRest
    <3>2. R = lists[t] \/ R = Append(lists[t], 0)
      BY <3>1, <1>1, <1>3 DEF Views
    <3>3. R = Append(lists[t], 0)
      BY <3>2, <1>9, <1>12, <1>14
    <3>4. lists[t] \in Seq(Nat)
      <4>1. Lists(lists, Begun(f, a), Kinds(f, a), n)
        BY <1>1, <1>3 DEF Views, Listed
      <4>2. lists \in [0 .. n -> Seq(Nat)]
        BY <4>1 DEF Lists
      <4> QED
        BY <4>2
    <3> QED
      BY <3>3, <3>4, <1>9, AppendProperties
  <2>2. CASE ~ \A r \in Begun(f, a) : r <= t
    <3>1. PICK S : S = {r \in Begun(f, a) : ~ (r <= t)}
      OBVIOUS
    <3>2. S \in SUBSET Nat /\ S # {}
      BY <3>1, <2>2 DEF Begun
    <3>3. PICK u \in S : \A r \in S : u <= r
      BY <3>2, LeastNumber
    <3>4. u \in Begun(f, a) /\ u \in 1 .. n /\ ~ (u <= t)
      BY <3>1, <1>1 DEF Begun
    <3>5. \A r \in Begun(f, a) : r \in 1 .. n /\ (r < u => r <= t)
      <4>1. ASSUME NEW r \in Begun(f, a)
            PROVE  r \in 1 .. n /\ (r < u => r <= t)
        <5>1. r \in 1 .. n
          BY <1>1 DEF Begun
        <5>2. ~ (r <= t) => u <= r
          BY <3>1, <3>3
        <5> QED
          BY <5>1, <5>2, <3>4
      <4> QED
        BY <4>1
    <3>6. PICK x : x = u - 1 /\ x \in t .. n /\ x + 1 = u
      BY <3>4
    <3>7. lists[x] = lists[t]
      <4>1. \A i \in (t + 1) .. x : i \notin Begun(f, a)
        BY <3>4, <3>5, <3>6
      <4>2. Lists(lists, Begun(f, a), Kinds(f, a), n)
        BY <1>1, <1>3 DEF Views, Listed
      <4> QED
        BY <4>1, <4>2, <3>6, ListsRest
    <3>8. R[k + 1] = IF Whole(f, a, u) THEN u ELSE 0
      <4>1. R[Len(lists[u - 1]) + 1] = IF Whole(f, a, u) THEN u ELSE 0
        BY <3>4, <1>3, ViewAdds
      <4> QED
        BY <4>1, <3>6, <3>7, <1>9
    <3>9. ~ Whole(f, a, u)
      <4>1. \A r \in Begun(f, a) : r <= t => a[r].lsn < m
        BY <1>6, <1>8 DEF Leaves
      <4>2. ~ (a[u].lsn < m)
        <5>1. u \notin Begun(g, a)
          BY <3>4, <1>5 DEF IsLastBegun
        <5> QED
          BY <5>1, <3>4, <1>1, <1>6 DEF Leaves
      <4>3. t \in Nat /\ \A r \in Begun(f, a) : r < u => r <= t
        BY <3>5
      <4> QED
        BY <4>1, <4>2, <4>3, <3>4, TornNext
    <3> QED
      BY <3>8, <3>9
  <2> QED
    BY <2>1, <2>2
<1>15. d = Smaller(c, k)
  <2>0. c \in Nat /\ c <= Len(R)
    BY ViewCounts
  <2>1. CASE m <= s
    <3>1. Smaller(s, m) = Len(g)
      BY <2>1, <1>2 DEF Smaller
    <3>2. d = k
      BY <3>1, <1>4, <1>12 DEF Views
    <3>3. k <= c
      <4>1. CASE s = Len(f)
        BY <4>1, <1>3, <1>12 DEF Views
      <4>2. CASE s # Len(f)
        <5>1. PICK v \in 0 .. n : IsLastCovered(f, a, s, v) /\ c = Len(lists[v])
          BY <4>2, <1>1, <1>3 DEF Views
        <5>2. t \in 0 .. v
          <6>1. CASE t = 0
            BY <6>1
          <6>2. CASE t # 0
            <7>1. t \in Begun(g, a)
              BY <6>2, <1>5 DEF IsLastBegun
            <7>2. /\ t \in 1 .. Len(a) /\ Begins(f, a, t) /\ End(a, t) <= m
              BY <7>1, <1>8 DEF Begun
            <7>3. PICK l, e, w : /\ l = a[t].lsn /\ e = SizeIn(a, t) /\ w = a[t].written
                                 /\ End(a, t) = l + e
              BY DEF End
            <7>4. l \in Nat /\ e \in Nat /\ w \in 1 .. e
              BY <7>2, <7>3, SizeFacts DEF Sized
            <7>5. l + w <= s
              <8>1. l + e <= m
                BY <7>2, <7>3
              <8>2. e \in Nat
                BY <7>2, <7>3, SizeFacts
              <8> QED
                BY <8>1, <8>2, <7>4, <2>1, <1>2
            <7>6. t <= v
              BY <7>2, <7>3, <7>5, <5>1 DEF IsLastCovered, Covered
            <7> QED
              BY <7>6
          <6> QED
            BY <6>1, <6>2
        <5> QED
          BY <5>1, <5>2, <1>9, <1>11
      <4> QED
        BY <4>1, <4>2
    <3> QED
      BY <3>2, <3>3, <2>0, <1>12 DEF Smaller
  <2>2. CASE s < m
    <3>1. Smaller(s, m) = s /\ s # Len(f) /\ s # Len(g)
      BY <2>2, <1>2 DEF Smaller
    <3>2. PICK v \in 0 .. n : IsLastCovered(f, a, s, v) /\ c = Len(lists[v])
      BY <3>1, <1>1, <1>3 DEF Views
    <3>3. PICK w \in 0 .. n : IsLastCovered(g, a, s, w) /\ d = Len(others[w])
      BY <3>1, <1>1, <1>4 DEF Views
    <3>4. ASSUME NEW r \in 1 .. Len(a)
          PROVE  /\ Covered(f, a, s, r) <=> Covered(g, a, s, r)
                 /\ Covered(f, a, s, r) => r <= t
      <4>1. PICK l, x : l = a[r].lsn /\ x = a[r].written
        OBVIOUS
      <4>2. l \in Nat /\ x \in Nat
        <5>1. l \in Nat /\ SizeIn(a, r) \in Nat
          BY <4>1, SizeFacts
        <5> QED
          BY <5>1, <4>1 DEF Sized
      <4>3. Begins(g, a, r) <=> Begins(f, a, r) /\ l < m
        BY <4>1, <1>6 DEF Leaves, Begun
      <4>4. l + x <= s => l < m
        BY <4>2, <2>2, <1>2
      <4>5. Begins(g, a, r) => r <= t
        BY <1>5 DEF IsLastBegun, Begun
      <4> QED
        BY <4>1, <4>3, <4>4, <4>5 DEF Covered
    <3>5. v = w
      BY <3>2, <3>3, <3>4, <1>1 DEF IsLastCovered
    <3>6. v <= t
      BY <3>2, <3>4, <1>1 DEF IsLastCovered
    <3>7. v \in 0 .. t /\ others[v] = lists[v]
      BY <3>6, <1>10
    <3>8. d = c /\ c <= k
      BY <3>2, <3>3, <3>5, <3>7, <1>9, <1>11
    <3> QED
      BY <3>8, <2>0, <1>12 DEF Smaller
  <2> QED
    BY <2>1, <2>2, <1>2
<1> QED
  BY <1>12, <1>13, <1>14, <1>15 DEF Restarted

-----------------------------------------------------------------------------
(* Wal implements RecordLog *)

\* What WalInv does not say and the lists need: a file with zeros was synced
\* when the power was lost; a process has all that was written in its log.
ListInv ==
    /\ WithinWritten(file, appended)
    /\ stage \in {"read", "open"} => Fits(file, appended)
    /\ NoZeros(file) \/ synced = Len(file)

\* What RecordLog looks at of a sequence one longer.
LEMMA AppendLast ==
    ASSUME NEW R \in Seq(Nat), NEW x \in Nat, NEW Q, Q = Append(R, x)
    PROVE  /\ Q # << >> /\ Len(Q) \in Nat /\ Q[Len(Q)] = x
           /\ SubSeq(Q, 1, Len(Q) - 1) = R
<1>1. /\ Q \in Seq(Nat) /\ Len(Q) = Len(R) + 1 /\ Q[Len(Q)] = x /\ Len(R) \in Nat
      /\ \A i \in 1 .. Len(R) : Q[i] = R[i]
  BY AppendProperties, LenProperties
<1>2. Len(Q) - 1 = Len(R) /\ Len(R) \in 0 .. Len(Q)
  BY <1>1
<1>3. PICK S : S = SubSeq(Q, 1, Len(R))
  OBVIOUS
<1>4. S \in Seq(Nat) /\ Len(S) = Len(R) /\ \A i \in 1 .. Len(R) : S[i] = Q[i]
  BY <1>1, <1>2, <1>3, SubSeqProperties
<1>5. S = R
  BY <1>1, <1>4, SeqEqual
<1> QED
  BY <1>1, <1>2, <1>3, <1>5, EmptySeq

\* WAL.append, whole or not, adds one record, whole or torn.
LEMMA WriteIsAppend ==
    ASSUME WalInv, WalInv', ListInv, stage = "open", synced' = synced,
           NEW len \in Nat, NEW n \in 1 .. (HEADER_SIZE + len), Write(len, n)
    PROVE  ListInv' /\ Log!AppendRecord
<1>1. /\ file \in Seq(Bytes) /\ appended \in Seq(RecordInfo)
      /\ WellFormed(file, appended) /\ NoZeros(file) /\ synced \in 0 .. Len(file)
      /\ Len(file) \in Nat /\ Len(appended) \in Nat
  BY LenProperties DEF WalInv, TypeInv, FileInv
<1>2. /\ file' = file \o BytesOf(Len(appended) + 1, 1, n)
      /\ appended' = Append(appended, [lsn |-> Len(file), length |-> len, written |-> n])
      /\ Len(appended) + 1 <= MaxRecords
  BY DEF Write
<1>3. PICK g, b : g = file' /\ b = appended'
  OBVIOUS
<1>4. Extended(file, appended, g, b, n)
  BY <1>1, <1>2, <1>3, AppendExtends
<1>5. NoZeros(g)
  BY <1>1, <1>4, AppendWellFormed
<1>6. /\ Len(b) = Len(appended) + 1 /\ Len(g) = Len(file) + n
      /\ \A i \in 1 .. Len(file) : g[i] = file[i]
      /\ \A i \in 1 .. Len(g) :
            i > Len(file) => i - Len(file) \in 1 .. n /\ g[i] = Byte(Len(b), i - Len(file))
      /\ \A r \in 1 .. Len(appended) : b[r] = appended[r]
      /\ b[Len(b)].lsn = Len(file) /\ b[Len(b)].written = n
  BY <1>4 DEF Extended
<1>7. n \in Nat /\ Len(g) \in Nat
  BY <1>1, <1>6, HeaderSize
<1>8. WithinWritten(g, b)
  <2>1. ASSUME NEW i \in 1 .. Len(g)
        PROVE  g[i].pos <= b[g[i].rec].written
    <3>1. CASE i <= Len(file)
      <4>1. i \in 1 .. Len(file)
        BY <3>1, <1>1, <1>7
      <4>2. /\ file[i] # Zero /\ file[i].rec \in 1 .. Len(appended)
            /\ file[i].pos <= appended[file[i].rec].written
        BY <4>1, <1>1 DEF NoZeros, WellFormed, Placed, ListInv, WithinWritten
      <4> QED
        BY <4>1, <4>2, <1>6
    <3>2. CASE ~ (i <= Len(file))
      <4>1. i - Len(file) \in 1 .. n /\ g[i] = Byte(Len(b), i - Len(file))
        BY <3>2, <1>1, <1>6
      <4>2. PICK p \in 1 .. n : p = i - Len(file)
        BY <4>1
      <4>3. g[i].rec = Len(b) /\ g[i].pos = p
        BY <4>1, <4>2, <1>1, <1>6, ByteFacts
      <4> QED
        BY <4>2, <4>3, <1>6, <1>7
    <3> QED
      BY <3>1, <3>2
  <2> QED
    BY <2>1 DEF WithinWritten
<1>9. Fits(g, b)
  <2>1. Adds(file, appended, g, b)
    BY <1>1, <1>4, AppendAdds
  <2>2. ASSUME NEW r \in Begun(g, b)
        PROVE  b[r].lsn + b[r].written <= Len(g)
    <3>1. r \in 1 .. Len(b) /\ Begins(g, b, r)
      BY DEF Begun
    <3>2. CASE r = Len(b)
      BY <3>2, <1>6, <1>7, <1>1
    <3>3. CASE r # Len(b)
      <4>1. r \in 1 .. Len(appended)
        BY <3>1, <3>3, <1>1, <1>6
      <4>2. r \in Begun(file, appended) /\ b[r] = appended[r]
        BY <4>1, <3>1, <2>1 DEF Adds, Begun
      <4>3. PICK l, w : l = b[r].lsn /\ w = b[r].written
        OBVIOUS
      <4>4. l + w <= Len(file)
        BY <4>2, <4>3 DEF ListInv, Fits
      <4>5. l \in Nat /\ w \in Nat
        <5>1. appended[r] \in RecordInfo
          BY <4>1, <1>1, ElementOfSeq
        <5> QED
          BY <5>1, <4>2, <4>3 DEF RecordInfo
      <4>6. l + w <= Len(g)
        BY <4>4, <4>5, <1>1, <1>6, <1>7
      <4> QED
        BY <4>3, <4>6
    <3> QED
      BY <3>2, <3>3
  <2> QED
    BY <2>2 DEF Fits
<1>10. ListInv'
  BY <1>3, <1>5, <1>8, <1>9 DEF ListInv
<1>11. PICK R, c, Q, d : R = Records /\ c = SyncedRecords /\ Q = Records' /\ d = SyncedRecords'
  OBVIOUS
<1>12. IsView(R, c, file, appended, synced)
  BY <1>11, ViewOf
<1>13. IsView(Q, d, g, b, synced)
  BY <1>3, <1>11, ViewOfNext
<1>14. Q \in {Append(R, Len(b)), Append(R, 0)} /\ d = c
  <2>1. Fits(file, appended)
    BY DEF ListInv
  <2> QED
    BY <2>1, <1>1, <1>4, <1>5, <1>12, <1>13, ViewAppend
<1>15. PICK x \in 1 .. MaxRecords \cup {0} : Q = Append(R, x)
  BY <1>14, <1>1, <1>2, <1>6, WalAssumption, SMTT(30)
<1>16. R \in Seq(Nat) /\ x \in Nat
  <2>1. R \in Seq(Nat)
    BY <1>1, <1>12, ViewCounts
  <2>2. x \in Nat
    BY WalAssumption
  <2> QED
    BY <2>1, <2>2
<1>17. /\ Q # << >> /\ Q[Len(Q)] = x /\ SubSeq(Q, 1, Len(Q) - 1) = R
  BY <1>15, <1>16, AppendLast
<1>18. Log!AppendRecord
  BY <1>11, <1>14, <1>17 DEF Log!AppendRecord, Log!Last, Log!Front, Torn
<1> QED
  BY <1>10, <1>18

\* WAL.sync has all records on the disk.
LEMMA SyncIsSync ==
    ASSUME WalInv, WalInv', ListInv, Sync
    PROVE  ListInv' /\ Log!Sync
<1>1. /\ stage = "open" /\ stage' = stage /\ synced' = Len(file) /\ file' = file
      /\ appended' = appended /\ appended \in Seq(RecordInfo)
  BY DEF Sync, WalInv, TypeInv
<1>2. ListInv'
  BY <1>1 DEF ListInv
<1>3. PICK R, c, Q, d : R = Records /\ c = SyncedRecords /\ Q = Records' /\ d = SyncedRecords'
  OBVIOUS
<1>4. IsView(R, c, file, appended, synced)
  BY <1>3, ViewOf
<1>5. IsView(Q, d, file, appended, Len(file))
  BY <1>1, <1>3, ViewOfNext
<1>6. Q = R
  BY <1>1, <1>4, <1>5, ViewUnique
<1>7. d = Len(Q)
  BY <1>5 DEF IsView, Views
<1> QED
  BY <1>2, <1>3, <1>6, <1>7 DEF Log!Sync

\* A power loss leaves the synced records and some of the others, the last perhaps torn.
LEMMA PowerLossIsPowerLoss ==
    ASSUME WalInv, WalInv', ListInv, PowerLoss
    PROVE  ListInv' /\ Log!PowerLoss
<1>1. /\ file \in Seq(Bytes) /\ appended \in Seq(RecordInfo)
      /\ WellFormed(file, appended) /\ synced \in 0 .. Len(file)
      /\ Len(file) \in Nat /\ Sized(appended)
  BY LenProperties DEF WalInv, TypeInv, FileInv, Sized
<1>2. stage' = "down" /\ appended' = appended
  BY DEF PowerLoss, Dies
<1>3. PICK m \in synced .. Len(file) : \E z \in 0 .. (Len(file) - m) :
         /\ file' = SubSeq(file, 1, m) \o Zeros(z)
         /\ synced' = m + z
  BY DEF PowerLoss
<1>4. PICK z \in 0 .. (Len(file) - m) :
         /\ file' = SubSeq(file, 1, m) \o Zeros(z)
         /\ synced' = m + z
  BY <1>3
<1>5. m \in 0 .. Len(file) /\ synced \in 0 .. m
  BY <1>1
<1>6. PICK g : g = file'
  OBVIOUS
<1>7. Cut(file, g, m) /\ Len(g) = m + z /\ synced' = Len(g)
  BY <1>1, <1>4, <1>5, <1>6, CutsOff
<1>8. WithinWritten(g, appended)
  <2>1. ASSUME NEW i \in 1 .. Len(g), g[i] # Zero
        PROVE  g[i].pos <= appended[g[i].rec].written
    <3>1. g[i] = file[i] /\ i \in 1 .. Len(file)
      BY <2>1, <1>1, <1>7 DEF Cut
    <3> QED
      BY <3>1, <2>1 DEF ListInv, WithinWritten
  <2> QED
    BY <2>1 DEF WithinWritten
<1>9. ListInv'
  BY <1>2, <1>6, <1>7, <1>8 DEF ListInv
<1>10. PICK R, c, Q, d : R = Records /\ c = SyncedRecords /\ Q = Records' /\ d = SyncedRecords'
  OBVIOUS
<1>11. IsView(R, c, file, appended, synced)
  BY <1>10, ViewOf
<1>12. IsView(Q, d, g, appended, Len(g))
  BY <1>2, <1>6, <1>7, <1>10, ViewOfNext
<1>13. Lost(R, c, Q) /\ d = Len(Q)
  \* Nothing is lost.
  <2>1. CASE m = Len(file)
    <3>1. g = file
      <4>1. Len(g) = Len(file) /\ \A i \in 1 .. Len(file) : g[i] = file[i]
        BY <2>1, <1>1, <1>7 DEF Cut
      <4>2. g \in Seq(Bytes)
        BY <1>7 DEF Cut
      <4> QED
        BY <4>1, <4>2, <1>1, SeqEqual
    <3>2. Q = R
      BY <3>1, <1>1, <1>11, <1>12, ViewUnique
    <3>3. d = Len(Q)
      BY <1>12 DEF IsView, Views
    <3>4. R \in Seq(Nat) /\ Len(R) \in Nat /\ c \in 0 .. Len(R)
      BY <1>1, <1>11, ViewCounts
    <3>5. R = SubSeq(R, 1, Len(R))
      BY <3>4
    <3>6. Len(R) \in c .. Len(R)
      BY <3>4
    <3> QED
      BY <3>2, <3>3, <3>5, <3>6 DEF Lost
  <2>2. CASE m # Len(file)
    <3>1. m < Len(file) /\ NoZeros(file)
      BY <2>2, <1>1, <1>5 DEF ListInv
    <3>2. WithinWritten(file, appended)
      BY DEF ListInv
    <3> QED
      BY <3>1, <3>2, <1>1, <1>5, <1>7, <1>11, <1>12, ViewLoss
  <2> QED
    BY <2>1, <2>2
<1>14. Log!PowerLoss
  BY <1>10, <1>13 DEF Log!PowerLoss, Lost, Torn
<1> QED
  BY <1>9, <1>14

\* _recover_and_truncate cuts at the first torn record.
LEMMA TruncateIsRestart ==
    ASSUME WalInv, WalInv', ListInv, Truncate
    PROVE  ListInv' /\ Log!Restart
<1>1. /\ file \in Seq(Bytes) /\ appended \in Seq(RecordInfo)
      /\ WellFormed(file, appended) /\ synced \in 0 .. Len(file)
      /\ Len(file) \in Nat /\ Sized(appended)
  BY LenProperties DEF WalInv, TypeInv, FileInv, Sized
<1>2. /\ ~ Valid(position) /\ stage = "scan" /\ stage' = "read" /\ appended' = appended
      /\ file' = SubSeq(file, 1, lsn) /\ synced' = Smaller(synced, lsn)
  BY DEF Truncate
<1>3. PICK m, g : m = position /\ g = file'
  OBVIOUS
<1>4. lsn = m /\ m \in 0 .. Len(file) /\ WholeTo(file, appended, m)
  BY <1>2, <1>3 DEF WalInv, TypeInv, ScanInv
<1>5. Cut(file, g, m) /\ Len(g) = m
  <2>1. 0 \in 0 .. (Len(file) - m)
    BY <1>1, <1>4
  <2> QED
    BY <2>1, <1>1, <1>2, <1>3, <1>4, CutsOff
<1>6. NoneWholeAt(file, appended, m)
  <2>1. ASSUME NEW r \in 1 .. Len(appended), Whole(file, appended, r), appended[r].lsn = m
        PROVE  FALSE
    <3>1. Valid(m)
      BY <2>1, <1>1, WholeIsValid
    <3> QED
      BY <3>1, <1>2, <1>3
  <2> QED
    BY <2>1 DEF NoneWholeAt
<1>7. WholeTo(g, appended, m)
  <2>1. m \in 0 .. m
    BY <1>4
  <2> QED
    BY <2>1, <1>1, <1>4, <1>5, CutWellFormed
<1>8. WithinWritten(g, appended)
  <2>1. ASSUME NEW i \in 1 .. Len(g), g[i] # Zero
        PROVE  g[i].pos <= appended[g[i].rec].written
    <3>1. g[i] = file[i] /\ i \in 1 .. Len(file)
      BY <2>1, <1>1, <1>5 DEF Cut
    <3> QED
      BY <3>1, <2>1 DEF ListInv, WithinWritten
  <2> QED
    BY <2>1 DEF WithinWritten
<1>9. Fits(g, appended) /\ NoZeros(g)
  <2>1. NoZeros(g)
    BY <1>5, <1>7 DEF WholeTo, NoZeros
  <2>2. ASSUME NEW r \in Begun(g, appended)
        PROVE  appended[r].lsn + appended[r].written <= Len(g)
    <3>1. PICK l, e, w : /\ l = appended[r].lsn /\ e = SizeIn(appended, r)
                         /\ w = appended[r].written /\ End(appended, r) = l + e
      BY DEF End
    <3>2. /\ r \in 1 .. Len(appended) /\ l < m /\ g[l + 1] = Byte(r, 1)
      BY <3>1, <1>5 DEF Begun, Begins
    <3>3. l \in Nat /\ e \in Nat /\ w \in 1 .. e
      BY <3>1, <3>2, <1>1, SizeFacts DEF Sized
    <3>4. l + 1 \in 1 .. m /\ g[l + 1].rec = r
      <4>1. r \in Nat /\ 1 \in Nat
        BY <3>2
      <4>2. g[l + 1].rec = r
        BY <4>1, <3>2, ByteFacts
      <4> QED
        BY <4>2, <3>2, <3>3, <1>1, <1>4
    <3>5. l + e <= m
      BY <3>1, <3>4, <1>7 DEF WholeTo
    <3>6. l + w <= Len(g)
      BY <3>3, <3>5, <1>1, <1>4, <1>5
    <3> QED
      BY <3>1, <3>6
  <2> QED
    BY <2>1, <2>2 DEF Fits
<1>10. ListInv'
  BY <1>2, <1>3, <1>8, <1>9 DEF ListInv
<1>11. PICK R, c, Q, d : R = Records /\ c = SyncedRecords /\ Q = Records' /\ d = SyncedRecords'
  OBVIOUS
<1>12. IsView(R, c, file, appended, synced)
  BY <1>11, ViewOf
<1>13. IsView(Q, d, g, appended, Smaller(synced, m))
  BY <1>2, <1>3, <1>4, <1>11, ViewOfNext
<1>14. Restarted(R, c, Q, d)
  BY <1>1, <1>4, <1>5, <1>6, <1>12, <1>13, ViewTruncated
<1>15. PICK k \in 0 .. Len(R) : /\ Q = SubSeq(R, 1, k)
                                /\ d = Smaller(c, k)
                                /\ \A i \in 1 .. k : R[i] # 0
                                /\ k < Len(R) => R[k + 1] = 0
  BY <1>14 DEF Restarted
<1>16. Len(R) \in Nat /\ c \in 0 .. Len(R)
  BY <1>1, <1>12, ViewCounts
<1>17. Min({c, k}) = Smaller(c, k)
  <2>1. c \in Nat /\ k \in Nat
    BY <1>16
  <2> QED
    BY <2>1 DEF Min, Smaller
<1>18. Log!IsValidPrefix(k)
  BY <1>11, <1>15 DEF Log!IsValidPrefix, Torn
<1>19. Log!Restart
  BY <1>11, <1>15, <1>17, <1>18 DEF Log!Restart, Log!Min, Min
<1> QED
  BY <1>10, <1>19

\* What leaves the bytes as they are leaves the records so.
LEMMA UnseenStep ==
    ASSUME WalInv, WalInv', ListInv,
           file' = file, synced' = synced, appended' = appended,
           stage' \in {"read", "open"} => stage \in {"read", "open"}
    PROVE  ListInv' /\ UNCHANGED Log!vars
<1>1. ListInv'
  BY DEF ListInv
<1>2. PICK R, c, Q, d : R = Records /\ c = SyncedRecords /\ Q = Records' /\ d = SyncedRecords'
  OBVIOUS
<1>3. IsView(R, c, file, appended, synced)
  BY <1>2, ViewOf
<1>4. IsView(Q, d, file, appended, synced)
  BY <1>2, ViewOfNext
<1>5. appended \in Seq(RecordInfo)
  BY DEF WalInv, TypeInv
<1>6. Q = R /\ d = c
  BY <1>3, <1>4, <1>5, ViewUnique
<1> QED
  BY <1>1, <1>2, <1>6 DEF Log!vars

\* No bytes are no records.
LEMMA InitIsEmpty ==
    ASSUME WalInv, Init
    PROVE  ListInv /\ Log!Init
<1>1. file = << >> /\ synced = 0 /\ appended = << >> /\ stage = "down"
  BY DEF Init
<1>2. Len(file) = 0 /\ Len(appended) = 0 /\ appended \in Seq(RecordInfo)
  BY <1>1
<1>3. ListInv
  BY <1>1, <1>2 DEF ListInv, WithinWritten, NoZeros
<1>4. PICK R, c : R = Records /\ c = SyncedRecords
  OBVIOUS
<1>5. IsView(R, c, file, appended, synced)
  BY <1>4, ViewOf
<1>6. PICK lists : Views(lists, R, c, file, appended, synced)
  BY <1>5 DEF IsView
<1>7. R = << >>
  <2>1. lists[0] = << >>
    BY <1>2, <1>6 DEF Views, Listed, Lists
  <2>2. ~ ZerosOnly(file, appended)
    BY <1>1 DEF ZerosOnly
  <2> QED
    BY <2>1, <2>2, <1>2, <1>6 DEF Views
<1>8. c = 0
  <2>1. c \in 0 .. Len(R) /\ Len(R) = 0
    BY <1>2, <1>5, <1>7, ViewCounts
  <2> QED
    BY <2>1
<1> QED
  BY <1>3, <1>4, <1>7, <1>8 DEF Log!Init

(***************************************************************************)
(* What happens to the bytes of wal.log is, to its records, an append, an  *)
(* fdatasync, a power loss or the cut at the first torn record, or nothing:*)
(* wal.py gives the log that Engine is modelled over (RecordLog).          *)
(***************************************************************************)
THEOREM WalImplementsRecordLog == Spec => ImplementsRecordLog
<1>1. Init /\ WalInv => ListInv /\ Log!Init
  BY InitIsEmpty
<1>2. WalInv /\ WalInv' /\ ListInv /\ [Next]_vars => ListInv' /\ [Log!Next]_(Log!vars)
  <2> SUFFICES ASSUME WalInv, WalInv', ListInv, [Next]_vars
               PROVE  ListInv' /\ [Log!Next]_(Log!vars)
    OBVIOUS
  <2>1. ASSUME NEW len \in Lengths, WriteRecord(len)
        PROVE  ListInv' /\ Log!AppendRecord
    <3>1. /\ stage = "open" /\ synced' = synced /\ Write(len, HEADER_SIZE + len)
          /\ len \in Nat
      BY <2>1, WalAssumption DEF WriteRecord
    <3>2. PICK n \in 1 .. (HEADER_SIZE + len) : n = HEADER_SIZE + len
      BY <3>1, HeaderSize
    <3> QED
      BY <3>1, <3>2, WriteIsAppend
  <2>2. ASSUME NEW len \in Lengths, NEW n \in 1 .. (HEADER_SIZE + len - 1),
               ShortWrite(len, n) \/ KillInWrite(len, n)
        PROVE  ListInv' /\ Log!AppendRecord
    <3>1. /\ stage = "open" /\ synced' = synced /\ Write(len, n)
          /\ len \in Nat /\ n \in 1 .. (HEADER_SIZE + len)
      BY <2>2, WalAssumption, HeaderSize DEF ShortWrite, KillInWrite
    <3> QED
      BY <3>1, WriteIsAppend
  <2>3. CASE Sync
    BY <2>3, SyncIsSync DEF Log!Next
  <2>4. CASE PowerLoss
    BY <2>4, PowerLossIsPowerLoss DEF Log!Next
  <2>5. CASE Truncate
    BY <2>5, TruncateIsRestart DEF Log!Next
  <2>6. CASE Close \/ Open \/ ScanRecord \/ ReadRecord \/ ReadDone \/ UNCHANGED vars
    <3>1. /\ file' = file /\ synced' = synced /\ appended' = appended
          /\ stage' \in {"read", "open"} => stage \in {"read", "open"}
      BY <2>6 DEF Close, Dies, Open, ScanRecord, ReadRecord, ReadDone, AtEnd, vars
    <3> QED
      BY <3>1, UnseenStep
  <2> QED
    BY <2>1, <2>2, <2>3, <2>4, <2>5, <2>6 DEF Next, Log!Next
<1> QED
  BY <1>1, <1>2, WalInvariant, PTL DEF Spec, ImplementsRecordLog, Log!Spec
=============================================================================
