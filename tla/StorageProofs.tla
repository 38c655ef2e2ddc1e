---------------------------- MODULE StorageProofs ----------------------------
(***************************************************************************)
(* The page storage keeps what it was given, for any number of pages, of   *)
(* pool places, of crashes and of errors: what meta says was checkpointed  *)
(* is in heap.db, meta itself never goes back, a caller that holds one     *)
(* page at a time loses no change, and only dirty pages let the pool grow. *)
(***************************************************************************)
EXTENDS StorageProperties, FiniteSetTheorems, SequenceTheorems, TLAPS

-----------------------------------------------------------------------------
\* The invariant

Entries(list) == {list[i] : i \in 1 .. Len(list)}

Cached == Entries(pool)

\* A dictionary has one page per id.
OnePerId(list) ==
    \A i, j \in 1 .. Len(list) : list[i].page_id = list[j].page_id => i = j

\* What is no page has no stamp.
Blank(f) == \A p \in PageId : f[p].kind # "good" => f[p].stamp = 0

TypeInv ==
    /\ TypeOK
    /\ OnePerId(pool)
    /\ Blank(file) /\ Blank(disk)
    /\ stage = "down" => pool = << >> /\ held = {} /\ orphans = {}

\* No stamp is from the future.
Bounded ==
    /\ \A e \in Cached : e.stamp <= changes
    /\ \A p \in PageId :
          /\ file[p].stamp <= changes /\ disk[p].stamp <= changes
          /\ meta.covers[p] <= changes /\ meta_disk.covers[p] <= changes
          /\ covers[p] <= changes

\* A page of the pool is as new as the file's, and as what a checkpoint
\* saved; a clean one is the file's.
KnownEntry(e) ==
    /\ file[e.page_id].stamp <= e.stamp
    /\ ~ e.dirty => file[e.page_id].stamp = e.stamp
    /\ meta.covers[e.page_id] <= e.stamp
    /\ meta_disk.covers[e.page_id] <= e.stamp

PoolKnown == \A e \in Cached : KnownEntry(e)

\* In the pages f, of which a torn write left those in t, is what the meta
\* file m says was checkpointed of page p.
SavedAt(f, t, m, p) ==
    m.covers[p] > 0 =>
        \/ f[p].kind = "good" /\ m.covers[p] <= f[p].stamp
        \/ f[p].kind = "bad" /\ p \in t

Saved(f, t, m) == \A p \in PageId : SavedAt(f, t, m, p)

AllSaved ==
    /\ Saved(file, torn, meta) /\ Saved(file, torn, meta_disk)
    /\ Saved(disk, torn_disk, meta) /\ Saved(disk, torn_disk, meta_disk)

\* How far a checkpoint has come.
CheckpointProgress ==
    /\ stage = "flush" =>
         /\ \A e \in Cached : covers[e.page_id] <= e.stamp
         /\ \A p \in PageId \ IdsOf(pool) : covers[p] <= file[p].stamp
    /\ stage \in {"sync", "save", "tmp", "rename", "dir"} =>
         \A p \in PageId : covers[p] <= file[p].stamp
    /\ stage \in {"save", "tmp", "rename", "dir"} =>
         \A p \in PageId : covers[p] <= disk[p].stamp

\* Every meta file there may be after a crash is whole ...
MetaWhole ==
    /\ meta.synced /\ meta_disk.synced
    /\ stage = "rename" => tmp_synced

\* ... and no older than the last checkpoint that returned.
MetaOrder ==
    /\ last_done <= meta.lsn /\ last_done <= meta_disk.lsn
    /\ meta.lsn <= wal_size /\ meta_disk.lsn <= wal_size
    /\ checkpoint_lsn <= wal_size
    /\ stage # "down" => last_done <= checkpoint_lsn
    /\ stage = "dir" => meta.lsn = checkpoint_lsn

MetaKept == MetaWhole /\ MetaOrder

SavedInv == Bounded /\ PoolKnown /\ AllSaved /\ CheckpointProgress

\* The pool, or else the file, has the last change to every page, and the
\* caller holds no page that the pool let go.
PoolLatest ==
    stage # "down" =>
        /\ orphans = {}
        /\ \A e \in Cached : e.stamp = latest[e.page_id]
        /\ \A p \in PageId \ IdsOf(pool) : file[p].stamp = latest[p]

-----------------------------------------------------------------------------
\* What the pool's operations do to a list of entries

LEMMA MinFacts ==
    ASSUME NEW S \in SUBSET Nat, S # {}
    PROVE  Min(S) \in S /\ \A y \in S : Min(S) <= y
<1> DEFINE less == OpToRel(<, Nat)
<1> HIDE DEF less
<1>1. PICK x \in S : \A y \in S : <<y, x>> \notin less
    <2>1. IsWellFoundedOn(less, Nat)
        BY NatLessThanWellFounded DEF less
    <2> QED
        BY <2>1, WFMin
<1>2. \A y \in S : ~ (y < x)
    BY <1>1 DEF OpToRel, less
<1>3. \A y \in S : x <= y
    BY <1>2
<1> QED
    BY <1>3 DEF Min

LEMMA ListFacts ==
    ASSUME NEW list \in Seq(Entry)
    PROVE  /\ Len(list) \in Nat
           /\ \A i \in 1 .. Len(list) : list[i] \in Entry
           /\ Entries(list) \subseteq Entry
           /\ \A e \in Entry : /\ e.page_id \in PageId /\ e.stamp \in Nat
                               /\ e.dirty \in BOOLEAN
           /\ IdsOf(list) = {e.page_id : e \in Entries(list)}
<1>1. Len(list) \in Nat /\ \A i \in 1 .. Len(list) : list[i] \in Entry
    BY LenProperties, ElementOfSeq
<1> QED
    BY <1>1 DEF Entries, IdsOf, Entry

\* A page that is put at the place of one with the same id, or at the end,
\* and maybe at the cost of a clean one.
Replaced(list, new, e) ==
    /\ e \in Entries(new)
    /\ \A x \in Entries(new) :
          x = e \/ (x \in Entries(list) /\ x.page_id # e.page_id)
    /\ \A x \in Entries(list) :
          x \in Entries(new) \/ x.page_id = e.page_id \/ ~ x.dirty

LEMMA RemoveAtFacts ==
    ASSUME NEW list \in Seq(Entry), NEW x \in 1 .. Len(list)
    PROVE  LET kept == RemoveAt(list, x)
           IN  /\ kept \in Seq(Entry) /\ Len(kept) = Len(list) - 1
               /\ \A i \in 1 .. (Len(list) - 1) :
                     kept[i] = IF i < x THEN list[i] ELSE list[i + 1]
<1> DEFINE n == Len(list)
           left == SubSeq(list, 1, x - 1)
           right == SubSeq(list, x + 1, n)
<1>1. n \in Nat /\ \A i \in 1 .. n : list[i] \in Entry
    BY ListFacts
<1>2. /\ left \in Seq(Entry) /\ Len(left) = x - 1
      /\ \A i \in 1 .. (x - 1) : left[i] = list[i]
    BY <1>1
<1>3. /\ right \in Seq(Entry) /\ Len(right) = n - x
      /\ \A i \in 1 .. (n - x) : right[i] = list[x + i]
    BY <1>1
<1>4. RemoveAt(list, x) = left \o right
    BY DEF RemoveAt
<1> HIDE DEF left, right
<1>5. /\ left \o right \in Seq(Entry) /\ Len(left \o right) = n - 1
      /\ \A i \in 1 .. (n - 1) :
            (left \o right)[i] = IF i < x THEN left[i] ELSE right[i - (x - 1)]
    <2>1. Len(left) + Len(right) = n - 1
        BY <1>1, <1>2, <1>3
    <2>2. /\ left \o right \in Seq(Entry)
          /\ Len(left \o right) = Len(left) + Len(right)
          /\ \A i \in 1 .. Len(left) + Len(right) :
                (left \o right)[i] = IF i <= Len(left) THEN left[i]
                                     ELSE right[i - Len(left)]
        BY <1>2, <1>3, ConcatProperties
    <2>3. \A i \in 1 .. (n - 1) : i <= x - 1 <=> i < x
        BY <1>1
    <2> QED
        BY <1>2, <2>1, <2>2, <2>3
<1>6. \A i \in 1 .. (n - 1) :
         /\ i < x => left[i] = list[i]
         /\ ~ (i < x) => right[i - (x - 1)] = list[i + 1]
    BY <1>1, <1>2, <1>3
<1> QED
    BY <1>1, <1>4, <1>5, <1>6

LEMMA EvictFacts ==
    ASSUME NEW list \in Seq(Entry), OnePerId(list)
    PROVE  LET kept == Evict(list)
           IN  /\ kept \in Seq(Entry) /\ OnePerId(kept)
               /\ Entries(kept) \subseteq Entries(list)
               /\ \A e \in Entries(list) : e \in Entries(kept) \/ ~ e.dirty
               /\ \/ kept = list
                  \/ Len(kept) = Len(list) - 1
               /\ kept = list =>
                     \/ Len(list) < MaxPages
                     \/ \A i \in 1 .. Len(list) : list[i].dirty
<1> DEFINE n == Len(list)
           clean == {i \in 1 .. n : ~ list[i].dirty}
           kept == Evict(list)
<1>1. n \in Nat
    BY ListFacts
<1>2. CASE n < MaxPages \/ clean = {}
    BY <1>1, <1>2 DEF Evict
<1>3. CASE ~ (n < MaxPages \/ clean = {})
    <2>1. PICK x \in clean : kept = RemoveAt(list, x)
        <3>1. clean \in SUBSET Nat /\ clean # {}
            BY <1>1, <1>3
        <3>2. Min(clean) \in clean
            <4> HIDE DEF clean
            <4> QED
                BY <3>1, MinFacts
        <3> QED
            BY <1>3, <3>2 DEF Evict
    <2>2. x \in 1 .. n /\ ~ list[x].dirty
        OBVIOUS
    <2>3. /\ kept \in Seq(Entry) /\ Len(kept) = n - 1
          /\ \A i \in 1 .. (n - 1) :
                kept[i] = IF i < x THEN list[i] ELSE list[i + 1]
        BY <2>1, <2>2, RemoveAtFacts
    <2> HIDE DEF kept, clean
    <2>4. OnePerId(kept)
        BY <1>1, <2>2, <2>3 DEF OnePerId
    <2>5. Entries(kept) \subseteq Entries(list)
        BY <1>1, <2>2, <2>3 DEF Entries
    <2>6. ASSUME NEW j \in 1 .. n, list[j].dirty
          PROVE  list[j] \in Entries(kept)
        <3>1. CASE j < x
            <4>1. j \in 1 .. (n - 1) /\ kept[j] = list[j]
                BY <1>1, <2>2, <2>3, <3>1
            <4> QED
                BY <2>3, <4>1 DEF Entries
        <3>2. CASE j > x
            <4>1. j - 1 \in 1 .. (n - 1) /\ kept[j - 1] = list[j]
                BY <1>1, <2>2, <2>3, <3>2
            <4> QED
                BY <2>3, <4>1 DEF Entries
        <3> QED
            BY <1>1, <2>2, <2>6, <3>1, <3>2
    <2>7. kept # list
        BY <1>1, <2>3
    <2> QED
        BY <2>3, <2>4, <2>5, <2>6, <2>7 DEF Entries, kept
<1> QED
    BY <1>2, <1>3

LEMMA ExceptFacts ==
    ASSUME NEW list \in Seq(Entry), OnePerId(list), NEW d \in 1 .. Len(list),
           NEW e \in Entry, e.page_id = list[d].page_id
    PROVE  LET new == [list EXCEPT ![d] = e]
           IN  /\ new \in Seq(Entry) /\ OnePerId(new)
               /\ Len(new) = Len(list)
               /\ Replaced(list, new, e)
               /\ IdsOf(new) = IdsOf(list)
<1> DEFINE n == Len(list)
           new == [list EXCEPT ![d] = e]
<1>1. n \in Nat
    BY ListFacts
<1>2. /\ new \in Seq(Entry) /\ Len(new) = n
      /\ \A i \in 1 .. n : new[i] = IF i = d THEN e ELSE list[i]
    BY <1>1, ExceptSeq
<1> HIDE DEF new
<1>3. OnePerId(new)
    BY <1>2 DEF OnePerId
<1>4. \A x \in Entries(new) :
         x = e \/ (x \in Entries(list) /\ x.page_id # e.page_id)
    BY <1>2 DEF OnePerId, Entries
<1>5. e \in Entries(new)
    BY <1>2 DEF Entries
<1>6. \A x \in Entries(list) : x \in Entries(new) \/ x.page_id = e.page_id
    BY <1>2 DEF Entries
<1>7. IdsOf(new) = IdsOf(list)
    BY <1>2 DEF IdsOf
<1> QED
    BY <1>2, <1>3, <1>4, <1>5, <1>6, <1>7 DEF Replaced, new

LEMMA PutFacts ==
    ASSUME NEW list \in Seq(Entry), OnePerId(list), NEW e \in Entry
    PROVE  LET new == Put(list, e)
           IN  /\ new \in Seq(Entry) /\ OnePerId(new)
               /\ Len(new) \in {Len(list), Len(list) + 1}
               /\ Replaced(list, new, e)
               /\ IdsOf(new) = IdsOf(list) \cup {e.page_id}
<1> DEFINE n == Len(list)
           same == {i \in 1 .. n : list[i].page_id = e.page_id}
           new == Put(list, e)
<1>1. n \in Nat
    BY ListFacts
<1>2. CASE same = {}
    <2>1. new = Append(list, e)
        BY <1>2 DEF Put
    <2>2. /\ new \in Seq(Entry) /\ Len(new) = n + 1
          /\ \A i \in 1 .. n : new[i] = list[i]
          /\ new[n + 1] = e
        BY <1>1, <2>1
    <2>3. \A i \in 1 .. n : list[i].page_id # e.page_id
        BY <1>2
    <2> HIDE DEF new, same
    <2>4. OnePerId(new)
        BY <1>1, <2>2, <2>3 DEF OnePerId
    <2>5. Replaced(list, new, e)
        BY <1>1, <2>2, <2>3 DEF Replaced, Entries
    <2>6. IdsOf(new) = IdsOf(list) \cup {e.page_id}
        BY <1>1, <2>2 DEF IdsOf
    <2> QED
        BY <2>2, <2>4, <2>5, <2>6 DEF new
<1>3. CASE same # {}
    <2>1. PICK d \in same : new = [list EXCEPT ![d] = e]
        <3>1. same \in SUBSET Nat /\ same # {}
            BY <1>1, <1>3
        <3>2. Min(same) \in same
            <4> HIDE DEF same
            <4> QED
                BY <3>1, MinFacts
        <3> QED
            BY <1>3, <3>2 DEF Put
    <2>2. d \in 1 .. n /\ e.page_id = list[d].page_id
        OBVIOUS
    <2>3. /\ new \in Seq(Entry) /\ OnePerId(new) /\ Len(new) = n
          /\ Replaced(list, new, e) /\ IdsOf(new) = IdsOf(list)
        <3> HIDE DEF new
        <3> QED
            BY <2>1, <2>2, ExceptFacts
    <2>4. e.page_id \in IdsOf(list)
        BY <2>2 DEF IdsOf
    <2> QED
        BY <2>3, <2>4
<1> QED
    BY <1>2, <1>3

\* Room is made for a page, and it is put into the pool.
LEMMA EvictPutFacts ==
    ASSUME NEW list \in Seq(Entry), OnePerId(list), NEW e \in Entry
    PROVE  LET new == Put(Evict(list), e)
           IN  /\ new \in Seq(Entry) /\ OnePerId(new)
               /\ Replaced(list, new, e)
               /\ IdsOf(new) = IdsOf(Evict(list)) \cup {e.page_id}
               /\ Len(new) > Len(list) /\ Len(list) >= MaxPages =>
                     \A i \in 1 .. Len(list) : list[i].dirty
<1>1. PICK kept \in Seq(Entry) : kept = Evict(list)
    BY EvictFacts
<1>2. /\ OnePerId(kept)
      /\ Entries(kept) \subseteq Entries(list)
      /\ \A x \in Entries(list) : x \in Entries(kept) \/ ~ x.dirty
      /\ kept = list \/ Len(kept) = Len(list) - 1
      /\ kept = list => \/ Len(list) < MaxPages
                        \/ \A i \in 1 .. Len(list) : list[i].dirty
    BY <1>1, EvictFacts
<1>3. PICK new \in Seq(Entry) : new = Put(kept, e)
    BY <1>2, PutFacts
<1>4. /\ OnePerId(new) /\ Replaced(kept, new, e)
      /\ Len(new) \in {Len(kept), Len(kept) + 1}
      /\ IdsOf(new) = IdsOf(kept) \cup {e.page_id}
    BY <1>2, <1>3, PutFacts
<1>5. Replaced(list, new, e)
    BY <1>2, <1>4 DEF Replaced
<1>6. Len(list) \in Nat /\ Len(kept) \in Nat /\ MaxPages \in Nat
    BY ListFacts, StorageAssumption
<1>7. Len(new) > Len(list) /\ Len(list) >= MaxPages =>
         \A i \in 1 .. Len(list) : list[i].dirty
    BY <1>2, <1>4, <1>6
<1> QED
    BY <1>1, <1>3, <1>4, <1>5, <1>7

LEMMA CountIds ==
    ASSUME NEW list \in Seq(Entry), OnePerId(list)
    PROVE  Cardinality(IdsOf(list)) = Len(list)
<1> DEFINE n == Len(list)
           f == [i \in 1 .. n |-> list[i].page_id]
<1>1. n \in Nat
    BY ListFacts
<1>2. f \in Bijection(1 .. n, IdsOf(list))
    BY DEF OnePerId, IdsOf, Bijection, Injection, IsInjective, Surjection
<1>3. ExistsBijection(1 .. n, IdsOf(list))
    BY <1>2 DEF ExistsBijection
<1> QED
    BY <1>1, <1>3, FS_CountingElements

-----------------------------------------------------------------------------
\* What the steps do to the pool

\* The entry of a page in the pool.
LEMMA PlaceFacts ==
    ASSUME TypeInv, NEW p \in PageId
    PROVE  /\ InPool(p) <=> p \in IdsOf(pool)
           /\ p \in IdsOf(pool) =>
                /\ PlaceOf(p) \in 1 .. Len(pool)
                /\ pool[PlaceOf(p)] \in Cached
                /\ pool[PlaceOf(p)].page_id = p
    BY DEF InPool, PlaceOf, IdsOf, Cached, Entries

LEMMA EntryFacts ==
    ASSUME TypeInv
    PROVE  /\ pool \in Seq(Entry) /\ Len(pool) \in Nat
           /\ \A e \in Cached : /\ e \in Entry /\ e.page_id \in PageId
                                /\ e.page_id \in IdsOf(pool)
                                /\ e.stamp \in Nat /\ e.dirty \in BOOLEAN
           /\ \A d \in 1 .. Len(pool) : pool[d] \in Cached
           /\ \A e, x \in Cached : e.page_id = x.page_id => e = x
<1>1. pool \in Seq(Entry)
    BY DEF TypeInv, TypeOK
<1>2. \A e, x \in Cached : e.page_id = x.page_id => e = x
    BY DEF TypeInv, OnePerId, Cached, Entries
<1> QED
    BY <1>1, <1>2, ListFacts DEF Cached, Entries

\* A page of the pool is changed, or marked.
Marks(d, e) ==
    /\ e.page_id = pool[d].page_id
    /\ pool' = [pool EXCEPT ![d] = e]

LEMMA MakeDirtyFacts ==
    ASSUME TypeInv, NEW p \in PageId, MakeDirty(p)
    PROVE  \E d \in 1 .. Len(pool), e \in Entry :
              Marks(d, e) /\ e.stamp = pool[d].stamp /\ e.dirty
<1>1. PICK d \in 1 .. Len(pool) : d = PlaceOf(p)
    BY PlaceFacts DEF MakeDirty
<1>2. pool[d] \in Entry /\ pool' = [pool EXCEPT ![d].dirty = TRUE]
    BY <1>1, EntryFacts, ListFacts DEF MakeDirty
<1>3. PICK e \in Entry : e = [pool[d] EXCEPT !.dirty = TRUE]
    BY <1>2 DEF Entry
<1>4. e.page_id = pool[d].page_id /\ e.stamp = pool[d].stamp /\ e.dirty
    BY <1>2, <1>3 DEF Entry
<1> QED
    BY <1>2, <1>3, <1>4 DEF Marks

LEMMA ChangeFacts ==
    ASSUME TypeInv, NEW p \in PageId, Change(p)
    PROVE  \/ pool' = pool /\ p \in orphans
           \/ \E d \in 1 .. Len(pool), e \in Entry :
                 Marks(d, e) /\ e.page_id = p /\ e.stamp = changes + 1 /\ e.dirty
<1> SUFFICES ASSUME ~ (pool' = pool /\ p \in orphans)
             PROVE  \E d \in 1 .. Len(pool), e \in Entry :
                 Marks(d, e) /\ e.page_id = p /\ e.stamp = changes + 1 /\ e.dirty
    OBVIOUS
<1>1. /\ p \in held
      /\ pool' = [pool EXCEPT ![PlaceOf(p)].stamp = changes + 1,
                              ![PlaceOf(p)].dirty = TRUE]
    BY DEF Change
<1>2. PICK d \in 1 .. Len(pool) : d = PlaceOf(p) /\ pool[d].page_id = p
    BY <1>1, PlaceFacts DEF TypeInv, TypeOK
<1>3. pool[d] \in Entry /\ pool \in Seq(Entry) /\ changes \in Nat
    BY EntryFacts, ListFacts DEF TypeInv, TypeOK
<1>4. PICK e \in Entry :
        e = [[pool[d] EXCEPT !.stamp = changes + 1] EXCEPT !.dirty = TRUE]
    <2>1. PICK n \in Nat : n = changes + 1
        BY <1>3
    <2>2. [[pool[d] EXCEPT !.stamp = n] EXCEPT !.dirty = TRUE] \in Entry
        BY <1>3 DEF Entry
    <2> QED
        BY <2>1, <2>2
<1>5. e.page_id = p /\ e.stamp = changes + 1 /\ e.dirty
    BY <1>2, <1>3, <1>4 DEF Entry
<1>6. pool' = [pool EXCEPT ![d] = e]
    BY <1>1, <1>2, <1>3, <1>4
<1> QED
    BY <1>2, <1>5, <1>6 DEF Marks

\* The next dirty page of flush_all_dirty.
LEMMA NextDirty ==
    ASSUME TypeInv, Dirty # {}
    PROVE  \E d \in 1 .. Len(pool) : /\ d = Min(Dirty)
                                     /\ pool[d] \in Entry /\ pool[d].dirty
<1>1. Dirty \in SUBSET Nat /\ Len(pool) \in Nat
    BY EntryFacts DEF Dirty
<1>2. Min(Dirty) \in Dirty
    BY <1>1, MinFacts
<1> QED
    BY <1>2, EntryFacts, ListFacts DEF Dirty

LEMMA FlushFacts ==
    ASSUME TypeInv, FlushPage
    PROVE  \E d \in 1 .. Len(pool), e \in Entry :
              /\ Marks(d, e) /\ ~ e.dirty /\ e.stamp = pool[d].stamp
              /\ pool[d].dirty
              /\ file' = Written(e)
              /\ torn' = torn \ {e.page_id}
<1>1. PICK d \in 1 .. Len(pool) : d = Min(Dirty) /\ pool[d] \in Entry /\ pool[d].dirty
    BY NextDirty DEF FlushPage
<1>2. /\ pool' = [pool EXCEPT ![d].dirty = FALSE]
      /\ file' = Written(pool[d]) /\ torn' = torn \ {pool[d].page_id}
    BY <1>1 DEF FlushPage
<1>3. PICK e \in Entry : e = [pool[d] EXCEPT !.dirty = FALSE]
    BY <1>1 DEF Entry
<1>4. e.page_id = pool[d].page_id /\ e.stamp = pool[d].stamp /\ ~ e.dirty
    BY <1>1, <1>3 DEF Entry
<1>5. Written(e) = Written(pool[d])
    BY <1>4 DEF Written
<1> QED
    BY <1>1, <1>2, <1>3, <1>4, <1>5 DEF Marks

-----------------------------------------------------------------------------
\* What the steps do to the file

Pages == [PageId -> Blocks]

\* A block is as it was, but that one which is no page may become a bad one.
Kept(f, g, p) ==
    /\ g[p].stamp = f[p].stamp
    /\ g[p] = f[p] \/ (f[p].kind \in {"none", "half"} /\ g[p].kind = "bad")

LEMMA BlockFacts ==
    ASSUME NEW f \in Pages, NEW p \in PageId
    PROVE  /\ f[p] \in Blocks /\ f[p].stamp \in Nat
           /\ f[p].kind \in {"none", "half", "good", "bad"}
    BY DEF Pages, Blocks

LEMMA NewBlocks ==
    /\ \A n \in Nat : /\ GoodPage(n) \in Blocks
                      /\ GoodPage(n).kind = "good" /\ GoodPage(n).stamp = n
    /\ HalfPage \in Blocks /\ HalfPage.kind = "half" /\ HalfPage.stamp = 0
    /\ BadPage \in Blocks /\ BadPage.kind = "bad" /\ BadPage.stamp = 0
    /\ NoPage \in Blocks /\ NoPage.kind = "none" /\ NoPage.stamp = 0
    BY DEF GoodPage, HalfPage, BadPage, NoPage, Blocks

LEMMA GapFacts ==
    ASSUME NEW f \in Pages, Blank(f)
    PROVE  /\ WithoutGaps(f) \in Pages /\ Blank(WithoutGaps(f))
           /\ \A p \in PageId : Kept(f, WithoutGaps(f), p)
<1> DEFINE g == WithoutGaps(f)
<1>1. ASSUME NEW p \in PageId
      PROVE  /\ g[p] \in Blocks
             /\ g[p] = f[p] \/ (f[p].kind \in {"none", "half"} /\ g[p] = BadPage)
    <2>1. g[p] = IF /\ f[p].kind \in {"none", "half"}
                    /\ \E q \in PageId : q > p /\ f[q].kind # "none"
                 THEN BadPage ELSE f[p]
        BY DEF WithoutGaps
    <2> QED
        BY <2>1, BlockFacts, NewBlocks
<1>2. g \in Pages
    <2>1. g = [p \in PageId |-> g[p]]
        BY DEF WithoutGaps
    <2> QED
        BY <1>1, <2>1 DEF Pages
<1>3. \A p \in PageId : Kept(f, g, p)
    BY <1>1, NewBlocks DEF Kept, Blank
<1>4. Blank(g)
    BY <1>1, NewBlocks DEF Blank
<1> QED
    BY <1>2, <1>3, <1>4

\* One block of the file is written, and gaps may be filled.
Writes(f, g, p, b) ==
    /\ g \in Pages /\ Blank(g)
    /\ g[p].stamp = b.stamp
    /\ g[p] = b \/ (b.kind \in {"none", "half"} /\ g[p].kind = "bad")
    /\ \A q \in PageId \ {p} : Kept(f, g, q)

LEMMA WriteFacts ==
    ASSUME NEW f \in Pages, Blank(f), NEW p \in PageId, NEW b \in Blocks,
           b.kind # "good" => b.stamp = 0
    PROVE  Writes(f, WithoutGaps([f EXCEPT ![p] = b]), p, b)
<1> DEFINE h == [f EXCEPT ![p] = b]
<1>1. h \in Pages /\ h[p] = b /\ \A q \in PageId \ {p} : h[q] = f[q]
    BY DEF Pages
<1> HIDE DEF h
<1>2. Blank(h)
    BY <1>1 DEF Blank
<1>3. /\ WithoutGaps(h) \in Pages /\ Blank(WithoutGaps(h))
      /\ \A q \in PageId : Kept(h, WithoutGaps(h), q)
    BY <1>1, <1>2, GapFacts
<1>4. Writes(f, WithoutGaps(h), p, b)
    BY <1>1, <1>3 DEF Writes, Kept
<1> QED
    BY <1>4 DEF h

LEMMA FileTypes ==
    ASSUME TypeInv
    PROVE  /\ file \in Pages /\ disk \in Pages
           /\ Blank(file) /\ Blank(disk)
           /\ \A p \in PageId : file[p].stamp \in Nat /\ disk[p].stamp \in Nat
    BY BlockFacts DEF TypeInv, TypeOK, Pages

LEMMA FlushWrites ==
    ASSUME TypeInv, NEW e \in Entry, file' = Written(e)
    PROVE  Writes(file, file', e.page_id, GoodPage(e.stamp))
<1>1. e.page_id \in PageId /\ e.stamp \in Nat
    BY DEF Entry
<1>2. GoodPage(e.stamp) \in Blocks /\ GoodPage(e.stamp).kind = "good"
    BY <1>1, NewBlocks
<1> QED
    BY <1>1, <1>2, FileTypes, WriteFacts DEF Written

\* Half of a dirty page is written: what is there was no page, and is none,
\* or it becomes a bad page, or the very page that was to be written.
LEMMA TornFacts ==
    ASSUME TypeInv, TornWrite
    PROVE  \E e \in Cached, b \in Blocks :
              /\ e.dirty /\ torn' = torn \cup {e.page_id}
              /\ Writes(file, file', e.page_id, b)
              /\ \/ /\ file[e.page_id].kind \in {"none", "half"}
                    /\ b = HalfPage
                 \/ /\ file[e.page_id].kind \in {"good", "bad"}
                    /\ b \in {BadPage, GoodPage(e.stamp)}
<1>1. PICK d \in 1 .. Len(pool) : d = Min(Dirty) /\ pool[d].dirty
    BY NextDirty DEF TornWrite
<1>2. PICK e \in Cached : e = pool[d]
    BY EntryFacts
<1>3. /\ torn' = torn \cup {e.page_id} /\ e.dirty
      /\ \E b \in Halves(file[e.page_id], e.stamp) :
            file' = WithoutGaps([file EXCEPT ![e.page_id] = b])
    BY <1>1, <1>2 DEF TornWrite
<1>4. PICK b \in Halves(file[e.page_id], e.stamp) :
        file' = WithoutGaps([file EXCEPT ![e.page_id] = b])
    BY <1>3
<1>5. e.page_id \in PageId /\ e.stamp \in Nat
    BY EntryFacts
<1>6. file[e.page_id].kind \in {"none", "half", "good", "bad"}
    BY <1>5, BlockFacts, FileTypes
<1>7. \/ file[e.page_id].kind \in {"none", "half"} /\ b = HalfPage
      \/ /\ file[e.page_id].kind \in {"good", "bad"}
         /\ b \in {BadPage, GoodPage(e.stamp)}
    BY <1>6 DEF Halves
<1>8. b \in Blocks /\ (b.kind # "good" => b.stamp = 0)
    BY <1>5, <1>7, NewBlocks
<1>9. Writes(file, file', e.page_id, b)
    BY <1>4, <1>5, <1>8, FileTypes, WriteFacts
<1> QED
    BY <1>3, <1>7, <1>8, <1>9

\* After a power loss a page is the file's or the disk's.
LEMMA PowerFacts ==
    ASSUME TypeInv, PowerLoss
    PROVE  /\ file' \in Pages /\ Blank(file') /\ disk' = file'
           /\ torn_disk' = torn' /\ torn' \subseteq PageId
           /\ \A p \in PageId :
                \/ Kept(file, file', p) /\ (p \in torn => p \in torn')
                \/ Kept(disk, file', p) /\ (p \in torn_disk => p \in torn')
<1>1. PICK lost \in SUBSET PageId :
        /\ file' = WithoutGaps([p \in PageId |-> IF p \in lost THEN disk[p]
                                                              ELSE file[p]])
        /\ torn' = (torn \ lost) \cup (torn_disk \cap lost)
    BY DEF PowerLoss
<1> DEFINE h == [p \in PageId |-> IF p \in lost THEN disk[p] ELSE file[p]]
<1>2. h \in Pages
    BY FileTypes DEF Pages
<1>3. \A p \in PageId : h[p] = IF p \in lost THEN disk[p] ELSE file[p]
    OBVIOUS
<1>4. file' = WithoutGaps(h)
    BY <1>1
<1> HIDE DEF h
<1>5. Blank(h)
    BY <1>3, FileTypes DEF Blank
<1>6. /\ file' \in Pages /\ Blank(file')
      /\ \A p \in PageId : Kept(h, file', p)
    BY <1>2, <1>4, <1>5, GapFacts
<1>7. disk' = file' /\ torn_disk' = torn' /\ torn' \subseteq PageId
    BY <1>1 DEF PowerLoss, TypeInv, TypeOK
<1> QED
    BY <1>1, <1>3, <1>6, <1>7 DEF Kept

-----------------------------------------------------------------------------
\* The shapes of a change to the pool

LEMMA MarkedFacts ==
    ASSUME TypeInv, NEW d \in 1 .. Len(pool), NEW e \in Entry, Marks(d, e)
    PROVE  /\ pool' \in Seq(Entry) /\ OnePerId(pool')
           /\ Replaced(pool, pool', e) /\ pool[d] \in Cached
           /\ IdsOf(pool') = IdsOf(pool)
           /\ Len(pool') = Len(pool)
    BY EntryFacts, ExceptFacts DEF Marks, TypeInv

LEMMA EvictedFacts ==
    ASSUME TypeInv
    PROVE  /\ Evict(pool) \in Seq(Entry) /\ OnePerId(Evict(pool))
           /\ Entries(Evict(pool)) \subseteq Cached
           /\ IdsOf(Evict(pool)) \subseteq IdsOf(pool)
           /\ \A e \in Cached : e \in Entries(Evict(pool)) \/ ~ e.dirty
           /\ Len(Evict(pool)) <= Len(pool)
<1>1. /\ Evict(pool) \in Seq(Entry) /\ OnePerId(Evict(pool))
      /\ Entries(Evict(pool)) \subseteq Cached
      /\ \A e \in Cached : e \in Entries(Evict(pool)) \/ ~ e.dirty
      /\ Evict(pool) = pool \/ Len(Evict(pool)) = Len(pool) - 1
    BY EntryFacts, EvictFacts DEF TypeInv, Cached
<1>2. IdsOf(Evict(pool)) \subseteq IdsOf(pool)
    BY <1>1, EntryFacts, ListFacts
<1> QED
    BY <1>1, <1>2, EntryFacts

\* get_page and new_page put e into the pool.
Puts(e) == pool' = Put(Evict(pool), e)

LEMMA PutIntoPool ==
    ASSUME TypeInv, NEW e \in Entry, Puts(e)
    PROVE  /\ pool' \in Seq(Entry) /\ OnePerId(pool')
           /\ Replaced(pool, pool', e)
           /\ IdsOf(pool') = IdsOf(Evict(pool)) \cup {e.page_id}
           /\ Len(pool') > Len(pool) /\ Len(pool) >= MaxPages =>
                 \A i \in 1 .. Len(pool) : pool[i].dirty
    BY EntryFacts, EvictPutFacts DEF Puts, TypeInv

LEMMA GetFromFileFacts ==
    ASSUME TypeInv, NEW p \in PageId, GetFromFile(p)
    PROVE  \E e \in Entry : /\ Puts(e)
                            /\ e.page_id = p /\ e.stamp = file[p].stamp
                            /\ ~ e.dirty
<1>1. file[p].stamp \in Nat
    BY FileTypes
<1>2. PICK e \in Entry :
        e = [page_id |-> p, stamp |-> file[p].stamp, dirty |-> FALSE]
    BY <1>1 DEF Entry
<1> QED
    BY <1>2 DEF GetFromFile, Puts

LEMMA NewPageFacts ==
    ASSUME TypeInv, NewPage
    PROVE  /\ next_page_id \in PageId
           /\ \E e \in Entry : /\ Puts(e)
                               /\ e.page_id = next_page_id
                               /\ e.stamp = changes + 1 /\ e.dirty
<1>1. next_page_id \in PageId
    BY StorageAssumption, SMTT(30) DEF NewPage, TypeInv, TypeOK, PageId
<1>2. PICK n \in Nat : n = changes + 1
    BY DEF TypeInv, TypeOK
<1>3. PICK e \in Entry :
        e = [page_id |-> next_page_id, stamp |-> n, dirty |-> TRUE]
    BY <1>1 DEF Entry
<1> QED
    BY <1>1, <1>2, <1>3 DEF NewPage, Puts

-----------------------------------------------------------------------------
\* The type invariant

LEMMA InitTypeInv == Init => TypeInv
<1> SUFFICES ASSUME Init PROVE TypeInv
    OBVIOUS
<1>1. pool = << >> /\ pool \in Seq(Entry) /\ OnePerId(pool)
    BY DEF Init, OnePerId
<1>2. Cardinality(IdsOf(pool)) = Len(pool)
    BY <1>1, CountIds
<1>3. file \in Pages /\ disk \in Pages /\ Blank(file) /\ Blank(disk)
    BY NewBlocks DEF Init, Pages, Blank
<1>4. /\ NoMeta \in [lsn : Nat, covers : [PageId -> Nat], synced : BOOLEAN]
      /\ NoMeta.covers \in [PageId -> Nat]
    BY DEF NoMeta
<1>5. next_page_id \in 0 .. PageLimit
    BY StorageAssumption DEF Init
<1>6. stage \in Stages /\ stage = "idle"
    BY DEF Init, Stages
<1>7. catalog \subseteq 1 .. wal_size /\ latest \in [PageId -> Nat]
    BY DEF Init
<1>8. held \subseteq IdsOf(pool) /\ orphans \subseteq PageId
    BY DEF Init
<1>9. /\ {meta, meta_disk}
            \subseteq [lsn : Nat, covers : [PageId -> Nat], synced : BOOLEAN]
      /\ tmp_synced \in BOOLEAN /\ covers \in [PageId -> Nat]
      /\ {checkpoint_lsn, wal_size, last_done, changes, incidents} \subseteq Nat
      /\ torn \subseteq PageId /\ torn_disk \subseteq PageId
    <2>1. meta = NoMeta /\ meta_disk = NoMeta /\ covers = NoMeta.covers
        BY DEF Init
    <2>2. /\ tmp_synced = FALSE /\ torn = {} /\ torn_disk = {}
          /\ checkpoint_lsn = 0 /\ wal_size = 0 /\ last_done = 0
          /\ changes = 0 /\ incidents = 0
        BY DEF Init
    <2>3. {meta, meta_disk}
             \subseteq [lsn : Nat, covers : [PageId -> Nat], synced : BOOLEAN]
        BY <1>4, <2>1
    <2>4. tmp_synced \in BOOLEAN
        BY <2>2
    <2>5. {checkpoint_lsn, wal_size, last_done, changes, incidents} \subseteq Nat
        BY <2>2
    <2> QED
        BY <1>4, <2>1, <2>2, <2>3, <2>4, <2>5
<1> HIDE DEF Init
<1> QED
    BY <1>1, <1>2, <1>3, <1>5, <1>6, <1>7, <1>8, <1>9
       DEF TypeInv, TypeOK, Pages

\* What a call of the pool leaves alone.
CallFrame ==
    /\ stage = "idle"
    /\ UNCHANGED <<fileVars, metaVars, commitVars, ckptVars>>

LEMMA CallTypes ==
    ASSUME TypeInv, CallFrame,
           pool' \in Seq(Entry), OnePerId(pool'),
           held' \subseteq IdsOf(pool'), orphans' \subseteq PageId,
           next_page_id' \in 0 .. PageLimit, latest' \in [PageId -> Nat],
           changes' \in Nat, incidents' \in Nat
    PROVE  TypeInv'
<1>1. Cardinality(IdsOf(pool')) = Len(pool')
    BY CountIds
<1> QED
    BY <1>1 DEF TypeInv, TypeOK, CallFrame, fileVars, metaVars, commitVars,
                ckptVars

LEMMA CallsKeepTypes ==
    ASSUME TypeInv, PoolCall
    PROVE  TypeInv' /\ CallFrame
<1> USE DEF poolVars, callerVars, boundVars
<1>1. held \subseteq PageId /\ IdsOf(pool) \subseteq PageId
    <2>1. IdsOf(pool) \subseteq PageId
        BY EntryFacts DEF IdsOf
    <2> QED
        BY <2>1 DEF TypeInv, TypeOK
<1>2. CASE NewPage
    <2>1. PICK e \in Entry : Puts(e) /\ e.page_id = next_page_id
        BY <1>2, NewPageFacts
    <2>2. CallFrame /\ incidents' = incidents
        BY <1>2 DEF NewPage, CallFrame
    <2>3. held' \subseteq IdsOf(pool') /\ orphans' \subseteq PageId
        BY <1>1, <1>2, <2>1, PutIntoPool DEF NewPage, TypeInv, TypeOK
    <2>4. next_page_id' \in 0 .. PageLimit /\ changes' \in Nat
        <3>1. /\ next_page_id' = next_page_id + 1 /\ changes' = changes + 1
              /\ next_page_id < PageLimit
            BY <1>2 DEF NewPage
        <3>2. next_page_id \in 0 .. PageLimit /\ changes \in Nat
            BY DEF TypeInv, TypeOK
        <3> QED
            BY <3>1, <3>2, StorageAssumption
    <2>5. latest' \in [PageId -> Nat]
        BY <1>2, <2>4 DEF NewPage, TypeInv, TypeOK
    <2> QED
        BY <2>1, <2>2, <2>3, <2>4, <2>5, PutIntoPool, CallTypes
           DEF TypeInv, TypeOK
<1>3. ASSUME NEW p \in PageId, GetCached(p)
      PROVE  TypeInv' /\ CallFrame
    <2>1. CallFrame
        BY <1>3 DEF GetCached, CallFrame
    <2>2. held' \subseteq IdsOf(pool') /\ orphans' \subseteq PageId
        BY <1>3, PlaceFacts DEF GetCached, TypeInv, TypeOK
    <2> QED
        BY <1>3, <2>1, <2>2, CallTypes DEF GetCached, TypeInv, TypeOK
<1>4. ASSUME NEW p \in PageId, GetFromFile(p)
      PROVE  TypeInv' /\ CallFrame
    <2>1. PICK e \in Entry : Puts(e) /\ e.page_id = p
        BY <1>4, GetFromFileFacts
    <2>2. CallFrame
        BY <1>4 DEF GetFromFile, CallFrame
    <2>3. held' \subseteq IdsOf(pool') /\ orphans' \subseteq PageId
        BY <1>1, <1>4, <2>1, PutIntoPool DEF GetFromFile, TypeInv, TypeOK
    <2> QED
        BY <1>4, <2>1, <2>2, <2>3, PutIntoPool, CallTypes
           DEF GetFromFile, TypeInv, TypeOK
<1>5. ASSUME NEW p \in PageId, GetCorrupt(p)
      PROVE  TypeInv' /\ CallFrame
    <2>1. CallFrame
        BY <1>5 DEF GetCorrupt, CallFrame
    <2>2. held' \subseteq IdsOf(pool') /\ orphans' \subseteq PageId
        BY <1>1, <1>5, EvictedFacts DEF GetCorrupt, LetGo, TypeInv, TypeOK
    <2> QED
        BY <1>5, <2>1, <2>2, EvictedFacts, CallTypes
           DEF GetCorrupt, TypeInv, TypeOK
<1>6. ASSUME NEW p \in PageId, Change(p)
      PROVE  TypeInv' /\ CallFrame
    <2>1. CallFrame /\ UNCHANGED <<held, orphans, next_page_id, incidents>>
        BY <1>6 DEF Change, CallFrame
    <2>2. pool' \in Seq(Entry) /\ OnePerId(pool') /\ IdsOf(pool') = IdsOf(pool)
        BY <1>6, ChangeFacts, MarkedFacts DEF TypeInv, TypeOK
    <2>3. changes' \in Nat
        BY <1>6 DEF Change, TypeInv, TypeOK
    <2>4. latest' \in [PageId -> Nat]
        BY <1>6, <2>3 DEF Change, TypeInv, TypeOK
    <2> QED
        BY <2>1, <2>2, <2>3, <2>4, CallTypes DEF TypeInv, TypeOK
<1>7. ASSUME NEW p \in PageId, MakeDirty(p)
      PROVE  TypeInv' /\ CallFrame
    <2>1. /\ CallFrame
          /\ UNCHANGED <<held, orphans, next_page_id, latest, changes, incidents>>
        BY <1>7 DEF MakeDirty, CallFrame
    <2>2. pool' \in Seq(Entry) /\ OnePerId(pool') /\ IdsOf(pool') = IdsOf(pool)
        BY <1>7, MakeDirtyFacts, MarkedFacts
    <2> QED
        BY <2>1, <2>2, CallTypes DEF TypeInv, TypeOK
<1>8. ASSUME NEW p \in PageId, Release(p)
      PROVE  TypeInv' /\ CallFrame
    <2>1. CallFrame
        BY <1>8 DEF Release, CallFrame
    <2>2. held' \subseteq IdsOf(pool') /\ orphans' \subseteq PageId
        BY <1>8 DEF Release, TypeInv, TypeOK
    <2> QED
        BY <1>8, <2>1, <2>2, CallTypes DEF Release, TypeInv, TypeOK
<1> QED
    BY <1>2, <1>3, <1>4, <1>5, <1>6, <1>7, <1>8 DEF PoolCall

LEMMA StepsKeepTypes ==
    ASSUME TypeInv, Commit \/ Checkpoint
    PROVE  TypeInv'
<1> USE DEF poolVars, callerVars, fileVars, metaVars, commitVars, ckptVars,
            boundVars
<1>1. CASE Commit
    <2>1. wal_size \in Nat /\ catalog \subseteq 1 .. wal_size
        BY DEF TypeInv, TypeOK
    <2>2. /\ wal_size' = wal_size + 1
          /\ catalog' = catalog \cup {wal_size + 1}
        BY <1>1 DEF Commit
    <2>3. wal_size' \in Nat /\ 1 .. wal_size \subseteq 1 .. (wal_size + 1)
          /\ wal_size + 1 \in 1 .. (wal_size + 1)
        BY <2>1, <2>2
    <2>4. catalog' \subseteq 1 .. wal_size'
        BY <2>1, <2>2, <2>3
    <2> QED
        BY <1>1, <2>3, <2>4 DEF Commit, TypeInv, TypeOK, Dirty
<1>2. CASE CheckpointStart
    <2>1. covers' \in [PageId -> Nat]
        <3>1. \A p \in PageId : Content(p) \in Nat
            BY PlaceFacts, EntryFacts, FileTypes DEF Content
        <3> QED
            BY <1>2, <3>1 DEF CheckpointStart
    <2>2. stage' \in Stages /\ stage' = "flush"
        BY <1>2 DEF CheckpointStart, Stages
    <2> QED
        BY <1>2, <2>1, <2>2 DEF CheckpointStart, TypeInv, TypeOK
<1>3. CASE FlushPage
    <2>1. PICK d \in 1 .. Len(pool), e \in Entry :
            Marks(d, e) /\ file' = Written(e) /\ torn' = torn \ {e.page_id}
        BY <1>3, FlushFacts
    <2>2. /\ pool' \in Seq(Entry) /\ OnePerId(pool')
          /\ IdsOf(pool') = IdsOf(pool)
        BY <2>1, MarkedFacts
    <2>3. file' \in Pages /\ Blank(file')
        BY <2>1, FlushWrites DEF Writes
    <2>4. Cardinality(IdsOf(pool')) = Len(pool')
        BY <2>2, CountIds
    <2> QED
        BY <1>3, <2>1, <2>2, <2>3, <2>4
           DEF FlushPage, TypeInv, TypeOK, Pages
<1>4. CASE FlushDone
    <2>1. Dirty' = {} /\ stage' \in Stages /\ stage' = "sync"
        BY <1>4 DEF FlushDone, Stages, Dirty
    <2> QED
        BY <1>4, <2>1 DEF FlushDone, TypeInv, TypeOK
<1>5. CASE SyncHeap
    <2>1. Dirty' = Dirty /\ stage' \in Stages /\ stage' = "save"
        BY <1>5 DEF SyncHeap, Stages, Dirty
    <2> QED
        BY <1>5, <2>1 DEF SyncHeap, TypeInv, TypeOK
<1>6. CASE SaveTmp
    <2>1. Dirty' = Dirty /\ stage' \in Stages /\ stage' = "tmp"
        BY <1>6 DEF SaveTmp, Stages, Dirty
    <2> QED
        BY <1>6, <2>1 DEF SaveTmp, TypeInv, TypeOK
<1>7. CASE SyncTmp
    <2>1. Dirty' = Dirty /\ stage' \in Stages /\ stage' = "rename"
        BY <1>7 DEF SyncTmp, Stages, Dirty
    <2> QED
        BY <1>7, <2>1 DEF SyncTmp, TypeInv, TypeOK
<1>8. CASE RenameTmp
    <2>1. Dirty' = Dirty /\ stage' \in Stages /\ stage' = "dir"
        BY <1>8 DEF RenameTmp, Stages, Dirty
    <2>2. meta' \in [lsn : Nat, covers : [PageId -> Nat], synced : BOOLEAN]
        BY <1>8 DEF RenameTmp, TypeInv, TypeOK
    <2> QED
        BY <1>8, <2>1, <2>2 DEF RenameTmp, TypeInv, TypeOK
<1>9. CASE SyncDir
    <2>1. Dirty' = Dirty /\ stage' \in Stages /\ stage' = "idle"
        BY <1>9 DEF SyncDir, Stages, Dirty
    <2> QED
        BY <1>9, <2>1 DEF SyncDir, TypeInv, TypeOK
<1> QED
    BY <1>1, <1>2, <1>3, <1>4, <1>5, <1>6, <1>7, <1>8, <1>9 DEF Checkpoint

LEMMA LoadableFacts ==
    ASSUME TypeInv, PowerLoss
    PROVE  meta' \in [lsn : Nat, covers : [PageId -> Nat], synced : BOOLEAN]
<1>1. NoMeta \in [lsn : Nat, covers : [PageId -> Nat], synced : BOOLEAN]
    BY DEF NoMeta
<1> QED
    BY <1>1 DEF PowerLoss, Loadable, TypeInv, TypeOK

LEMMA EmptyPool ==
    /\ << >> \in Seq(Entry) /\ OnePerId(<< >>)
    /\ IdsOf(<< >>) = {} /\ Entries(<< >>) = {}
    /\ Cardinality(IdsOf(<< >>)) = Len(<< >>)
<1>1. << >> \in Seq(Entry) /\ OnePerId(<< >>)
    BY DEF OnePerId
<1>2. IdsOf(<< >>) = {} /\ Entries(<< >>) = {}
    BY DEF IdsOf, Entries
<1> QED
    BY <1>1, <1>2, CountIds

LEMMA EndsKeepTypes ==
    ASSUME TypeInv, ProcessEnds, incidents' = incidents + 1,
           file' \in Pages, disk' \in Pages, Blank(file'), Blank(disk'),
           torn' \subseteq PageId, torn_disk' \subseteq PageId,
           {meta', meta_disk'} \subseteq
              [lsn : Nat, covers : [PageId -> Nat], synced : BOOLEAN]
    PROVE  TypeInv'
<1>1. /\ pool' = << >> /\ held' = {} /\ orphans' = {}
      /\ stage' \in Stages /\ stage' = "down"
    BY DEF ProcessEnds, Stages
<1>2. /\ pool' \in Seq(Entry) /\ OnePerId(pool')
      /\ Cardinality(IdsOf(pool')) = Len(pool')
    BY <1>1, EmptyPool
<1>3. next_page_id' \in 0 .. PageLimit
    BY StorageAssumption DEF ProcessEnds
<1>4. incidents' \in Nat /\ catalog' \subseteq 1 .. wal_size'
    BY DEF TypeInv, TypeOK, ProcessEnds
<1> QED
    BY <1>1, <1>2, <1>3, <1>4 DEF ProcessEnds, TypeInv, TypeOK, Pages

LEMMA CrashesKeepTypes ==
    ASSUME TypeInv, Crash \/ Restart
    PROVE  TypeInv'
<1> USE DEF poolVars, callerVars, fileVars, metaVars, commitVars, ckptVars,
            boundVars
<1>1. CASE CheckpointRaises
    <2>1. incidents' \in Nat /\ stage' = "idle" /\ stage' \in Stages
        BY <1>1 DEF CheckpointRaises, Incident, TypeInv, TypeOK, Stages
    <2> QED
        BY <1>1, <2>1 DEF CheckpointRaises, TypeInv, TypeOK
<1>2. CASE Kill
    BY <1>2, FileTypes, EndsKeepTypes DEF Kill, Incident, TypeInv, TypeOK
<1>3. CASE TornWrite
    <2>1. PICK e \in Cached, b \in Blocks :
            /\ torn' = torn \cup {e.page_id}
            /\ Writes(file, file', e.page_id, b)
        BY <1>3, TornFacts
    <2>2. file' \in Pages /\ Blank(file') /\ torn' \subseteq PageId
        <3>1. e.page_id \in PageId /\ torn \subseteq PageId
            BY EntryFacts DEF TypeInv, TypeOK
        <3> QED
            BY <2>1, <3>1 DEF Writes
    <2>3. /\ ProcessEnds /\ incidents' = incidents + 1
          /\ UNCHANGED <<disk, torn_disk, meta, meta_disk>>
        BY <1>3 DEF TornWrite, Incident
    <2>4. /\ disk' \in Pages /\ Blank(disk') /\ torn_disk' \subseteq PageId
          /\ {meta', meta_disk'} \subseteq
                [lsn : Nat, covers : [PageId -> Nat], synced : BOOLEAN]
        BY <2>3, FileTypes DEF TypeInv, TypeOK
    <2> QED
        BY <2>2, <2>3, <2>4, EndsKeepTypes
<1>4. CASE PowerLoss
    <2>1. /\ ProcessEnds /\ incidents' = incidents + 1
          /\ meta_disk' = meta'
        BY <1>4 DEF PowerLoss, Incident
    <2>2. meta' \in [lsn : Nat, covers : [PageId -> Nat], synced : BOOLEAN]
        BY <1>4, LoadableFacts
    <2>3. {meta', meta_disk'} \subseteq
             [lsn : Nat, covers : [PageId -> Nat], synced : BOOLEAN]
        BY <2>1, <2>2
    <2> QED
        BY <1>4, <2>1, <2>3, PowerFacts, EndsKeepTypes
<1>5. CASE Restart
    <2>1. stage' = "idle" /\ stage' \in Stages
        BY <1>5 DEF Restart, Stages
    <2>2. latest' \in [PageId -> Nat]
        BY <1>5, FileTypes DEF Restart
    <2>3. catalog' \subseteq 1 .. wal_size' /\ checkpoint_lsn' \in Nat
        BY <1>5 DEF Restart, TypeInv, TypeOK
    <2> QED
        BY <1>5, <2>1, <2>2, <2>3 DEF Restart, TypeInv, TypeOK
<1> QED
    BY <1>1, <1>2, <1>3, <1>4, <1>5 DEF Crash

LEMMA NextTypeInv ==
    ASSUME TypeInv, [Next]_vars
    PROVE  TypeInv'
<1>1. CASE Next
    BY <1>1, CallsKeepTypes, StepsKeepTypes, CrashesKeepTypes DEF Next
<1>2. CASE UNCHANGED vars
    BY <1>2 DEF TypeInv, TypeOK, Dirty, vars, poolVars, callerVars, fileVars,
                metaVars, commitVars, ckptVars, boundVars
<1> QED
    BY <1>1, <1>2

LEMMA TypeInvariant == Spec => []TypeInv
<1>1. Init => TypeInv
    BY InitTypeInv
<1>2. TypeInv /\ [Next]_vars => TypeInv'
    BY NextTypeInv
<1> QED
    BY <1>1, <1>2, PTL DEF Spec

\* The state of the storage has its type: the pool has one entry for each page
\* id (BufferPool.pages), the caller's pages are in it, and after
\* flush_all_dirty no page is dirty until the checkpoint is over.
THEOREM StorageTypes == Spec => []TypeOK
<1>1. TypeInv => TypeOK
    BY DEF TypeInv
<1> QED
    BY <1>1, TypeInvariant, PTL

-----------------------------------------------------------------------------
\* The meta file

LEMMA NextMetaWhole ==
    ASSUME TypeInv, MetaWhole, [Next]_vars
    PROVE  MetaWhole'
<1> USE DEF MetaWhole, metaVars, ckptVars
<1>1. CASE PoolCall
    BY <1>1, CallsKeepTypes DEF CallFrame
<1>2. CASE Commit
    BY <1>2 DEF Commit
<1>3. CASE CheckpointStart
    BY <1>3 DEF CheckpointStart
<1>4. CASE FlushPage
    BY <1>4 DEF FlushPage
<1>5. CASE FlushDone
    BY <1>5 DEF FlushDone
<1>6. CASE SyncHeap
    BY <1>6 DEF SyncHeap
<1>7. CASE SaveTmp
    BY <1>7 DEF SaveTmp
<1>8. CASE SyncTmp
    BY <1>8 DEF SyncTmp
<1>9. CASE RenameTmp
    BY <1>9 DEF RenameTmp
<1>10. CASE SyncDir
    BY <1>10 DEF SyncDir
<1>11. CASE CheckpointRaises
    BY <1>11 DEF CheckpointRaises
<1>12. CASE Kill
    BY <1>12 DEF Kill, ProcessEnds
<1>13. CASE TornWrite
    BY <1>13 DEF TornWrite, ProcessEnds
<1>14. CASE PowerLoss
    BY <1>14 DEF PowerLoss, ProcessEnds, Loadable
<1>15. CASE Restart
    BY <1>15 DEF Restart
<1>16. CASE UNCHANGED vars
    BY <1>16 DEF vars
<1> QED
    BY <1>1, <1>2, <1>3, <1>4, <1>5, <1>6, <1>7, <1>8, <1>9, <1>10, <1>11,
       <1>12, <1>13, <1>14, <1>15, <1>16 DEF Next, Checkpoint, Crash

LEMMA NextMetaOrder ==
    ASSUME TypeInv, MetaWhole, MetaOrder, [Next]_vars
    PROVE  MetaOrder'
<1> USE DEF MetaOrder, metaVars, ckptVars, commitVars
<1>0. {last_done, wal_size, checkpoint_lsn, meta.lsn, meta_disk.lsn} \subseteq Nat
    BY DEF TypeInv, TypeOK
<1>1. CASE PoolCall
    BY <1>1, CallsKeepTypes DEF CallFrame
<1>2. CASE Commit
    BY <1>0, <1>2 DEF Commit
<1>3. CASE CheckpointStart
    BY <1>3 DEF CheckpointStart
<1>4. CASE FlushPage
    BY <1>4 DEF FlushPage
<1>5. CASE FlushDone
    BY <1>5 DEF FlushDone
<1>6. CASE SyncHeap
    BY <1>6 DEF SyncHeap
<1>7. CASE SaveTmp
    BY <1>0, <1>7 DEF SaveTmp
<1>8. CASE SyncTmp
    BY <1>8 DEF SyncTmp
<1>9. CASE RenameTmp
    <2>1. meta'.lsn = checkpoint_lsn
        BY <1>9 DEF RenameTmp
    <2> QED
        BY <1>9, <2>1 DEF RenameTmp
<1>10. CASE SyncDir
    BY <1>0, <1>10 DEF SyncDir
<1>11. CASE CheckpointRaises
    BY <1>11 DEF CheckpointRaises
<1>12. CASE Kill
    BY <1>12 DEF Kill, ProcessEnds
<1>13. CASE TornWrite
    BY <1>13 DEF TornWrite, ProcessEnds
<1>14. CASE PowerLoss
    <2>1. meta' \in {meta, meta_disk} /\ meta_disk' = meta'
        BY <1>14 DEF PowerLoss, Loadable, MetaWhole
    <2>2. /\ stage' = "down"
          /\ UNCHANGED <<checkpoint_lsn, wal_size, last_done>>
        BY <1>14 DEF PowerLoss, ProcessEnds
    <2> QED
        BY <2>1, <2>2
<1>15. CASE Restart
    BY <1>0, <1>15 DEF Restart
<1>16. CASE UNCHANGED vars
    BY <1>16 DEF vars
<1> QED
    BY <1>1, <1>2, <1>3, <1>4, <1>5, <1>6, <1>7, <1>8, <1>9, <1>10, <1>11,
       <1>12, <1>13, <1>14, <1>15, <1>16 DEF Next, Checkpoint, Crash

LEMMA MetaInvariant == Spec => [](TypeInv /\ MetaKept)
<1>1. Init => TypeInv /\ MetaKept
    BY InitTypeInv DEF Init, NoMeta, MetaKept, MetaWhole, MetaOrder
<1>2. TypeInv /\ MetaKept /\ [Next]_vars => TypeInv' /\ MetaKept'
    BY NextTypeInv, NextMetaWhole, NextMetaOrder DEF MetaKept
<1> QED
    BY <1>1, <1>2, PTL DEF Spec

\* Recovery never starts before the last checkpoint that returned: the file
\* meta is replaced whole, by a rename, after meta.tmp is synced, and the
\* directory is synced before checkpoint() returns (Meta.save, Meta.load).
THEOREM CheckpointsAreKept == Spec => []CheckpointKept
<1>1. TypeInv /\ MetaKept => CheckpointKept
    BY DEF TypeInv, TypeOK, MetaKept, MetaOrder, CheckpointKept
<1> QED
    BY <1>1, MetaInvariant, PTL

-----------------------------------------------------------------------------
\* What was checkpointed is on the disk

LEMMA Numbers ==
    ASSUME TypeInv
    PROVE  /\ changes \in Nat
           /\ \A p \in PageId : /\ file[p].stamp \in Nat /\ disk[p].stamp \in Nat
                                /\ meta.covers[p] \in Nat
                                /\ meta_disk.covers[p] \in Nat
                                /\ covers[p] \in Nat
<1>1. /\ meta.covers \in [PageId -> Nat] /\ meta_disk.covers \in [PageId -> Nat]
      /\ covers \in [PageId -> Nat] /\ changes \in Nat
    BY DEF TypeInv, TypeOK
<1> QED
    BY <1>1, FileTypes

LEMMA InitSavedInv == Init => SavedInv
<1> SUFFICES ASSUME Init PROVE SavedInv
    OBVIOUS
<1>1. Cached = {} /\ stage = "idle" /\ changes = 0
    BY EmptyPool DEF Init, Cached
<1>2. \A p \in PageId : /\ file[p].stamp = 0 /\ disk[p].stamp = 0
                        /\ meta.covers[p] = 0 /\ meta_disk.covers[p] = 0
                        /\ covers[p] = 0
    BY DEF Init, NoPage, NoMeta
<1> HIDE DEF Init
<1>3. Bounded
    BY <1>1, <1>2 DEF Bounded
<1>4. PoolKnown /\ CheckpointProgress
    BY <1>1 DEF PoolKnown, CheckpointProgress
<1>5. AllSaved
    BY <1>2 DEF AllSaved, Saved, SavedAt
<1> QED
    BY <1>3, <1>4, <1>5 DEF SavedInv

\* A call leaves the pool's entries alone, but one that it makes.
LEMMA CallsKeepSaved ==
    ASSUME TypeInv, SavedInv, CallFrame, changes' \in Nat, changes <= changes',
           \A x \in Cached' : \/ x \in Cached
                              \/ KnownEntry(x) /\ x.stamp <= changes'
    PROVE  SavedInv'
<1>1. UNCHANGED <<file, disk, torn, torn_disk, meta, meta_disk, covers, stage>>
    BY DEF CallFrame, fileVars, metaVars, ckptVars
<1>2. \A x \in Cached' : KnownEntry(x)
    BY DEF SavedInv, PoolKnown
<1>3. PoolKnown'
    BY <1>1, <1>2 DEF PoolKnown, KnownEntry
<1>4. Bounded'
    <2>1. \A x \in Cached' : x.stamp <= changes'
        BY EntryFacts, Numbers DEF SavedInv, Bounded
    <2>2. \A p \in PageId :
             /\ file[p].stamp <= changes' /\ disk[p].stamp <= changes'
             /\ meta.covers[p] <= changes' /\ meta_disk.covers[p] <= changes'
             /\ covers[p] <= changes'
        BY Numbers DEF SavedInv, Bounded
    <2> QED
        BY <1>1, <2>1, <2>2 DEF Bounded
<1>5. AllSaved'
    BY <1>1 DEF SavedInv, AllSaved, Saved, SavedAt
<1>6. CheckpointProgress'
    BY <1>1 DEF CallFrame, CheckpointProgress
<1> QED
    BY <1>3, <1>4, <1>5, <1>6 DEF SavedInv

\* An entry is known if it is as new as the last change, ...
LEMMA NewIsKnown ==
    ASSUME TypeInv, SavedInv, NEW e \in Entry, e.stamp = changes + 1, e.dirty
    PROVE  KnownEntry(e)
<1>1. e.page_id \in PageId
    BY DEF Entry
<1> QED
    BY <1>1, Numbers DEF SavedInv, Bounded, KnownEntry

\* ... or if it was read from the file.
LEMMA ReadIsKnown ==
    ASSUME TypeInv, SavedInv, NEW e \in Entry,
           e.stamp = file[e.page_id].stamp, file[e.page_id].kind # "bad"
    PROVE  KnownEntry(e) /\ e.stamp <= changes
<1>1. e.page_id \in PageId
    BY DEF Entry
<1>2. SavedAt(file, torn, meta, e.page_id) /\ SavedAt(file, torn, meta_disk, e.page_id)
    BY <1>1 DEF SavedInv, AllSaved, Saved
<1> QED
    BY <1>1, <1>2, Numbers DEF SavedInv, Bounded, KnownEntry, SavedAt

LEMMA CallSavedInv ==
    ASSUME TypeInv, SavedInv, PoolCall
    PROVE  SavedInv'
<1> USE DEF poolVars, callerVars, boundVars
<1>0. CallFrame /\ changes \in Nat
    BY CallsKeepTypes, Numbers
<1>1. CASE NewPage
    <2>1. PICK e \in Entry : Puts(e) /\ e.stamp = changes + 1 /\ e.dirty
        BY <1>1, NewPageFacts
    <2>2. \A x \in Cached' : x \in Cached \/ x = e
        BY <2>1, PutIntoPool DEF Replaced, Cached
    <2>3. changes' = changes + 1
        BY <1>1 DEF NewPage
    <2> QED
        BY <1>0, <2>1, <2>2, <2>3, NewIsKnown, CallsKeepSaved
<1>2. ASSUME NEW p \in PageId, GetCached(p)
      PROVE  SavedInv'
    BY <1>0, <1>2, CallsKeepSaved DEF GetCached, Cached
<1>3. ASSUME NEW p \in PageId, GetFromFile(p)
      PROVE  SavedInv'
    <2>1. PICK e \in Entry : /\ Puts(e)
                             /\ e.page_id = p /\ e.stamp = file[p].stamp
        BY <1>3, GetFromFileFacts
    <2>2. \A x \in Cached' : x \in Cached \/ x = e
        BY <2>1, PutIntoPool DEF Replaced, Cached
    <2>3. changes' = changes /\ file[p].kind # "bad"
        BY <1>3 DEF GetFromFile
    <2>4. KnownEntry(e) /\ e.stamp <= changes
        BY <2>1, <2>3, ReadIsKnown
    <2> QED
        BY <1>0, <2>2, <2>3, <2>4, CallsKeepSaved
<1>4. ASSUME NEW p \in PageId, GetCorrupt(p)
      PROVE  SavedInv'
    <2>1. Cached' \subseteq Cached /\ changes' = changes
        BY <1>4, EvictedFacts DEF GetCorrupt, Cached
    <2> QED
        BY <1>0, <2>1, CallsKeepSaved
<1>5. ASSUME NEW p \in PageId, Change(p)
      PROVE  SavedInv'
    <2>1. changes' = changes + 1
        BY <1>5 DEF Change
    <2>2. CASE pool' = pool
        BY <1>0, <2>1, <2>2, CallsKeepSaved DEF Cached
    <2>3. CASE pool' # pool
        <3>1. PICK d \in 1 .. Len(pool), e \in Entry :
                Marks(d, e) /\ e.stamp = changes + 1 /\ e.dirty
            BY <1>5, <2>3, ChangeFacts
        <3>2. \A x \in Cached' : x \in Cached \/ x = e
            BY <3>1, MarkedFacts DEF Replaced, Cached
        <3> QED
            BY <1>0, <2>1, <3>1, <3>2, NewIsKnown, CallsKeepSaved
    <2> QED
        BY <2>2, <2>3
<1>6. ASSUME NEW p \in PageId, MakeDirty(p)
      PROVE  SavedInv'
    <2>1. PICK d \in 1 .. Len(pool), e \in Entry :
            Marks(d, e) /\ e.stamp = pool[d].stamp /\ e.dirty
        BY <1>6, MakeDirtyFacts
    <2>2. /\ \A x \in Cached' : x \in Cached \/ x = e
          /\ pool[d] \in Cached /\ e.page_id = pool[d].page_id
        BY <2>1, MarkedFacts DEF Replaced, Cached, Marks
    <2>3. KnownEntry(e) /\ e.stamp <= changes
        BY <2>1, <2>2 DEF SavedInv, PoolKnown, KnownEntry, Bounded
    <2>4. changes' = changes
        BY <1>6 DEF MakeDirty
    <2> QED
        BY <1>0, <2>2, <2>3, <2>4, CallsKeepSaved
<1>7. ASSUME NEW p \in PageId, Release(p)
      PROVE  SavedInv'
    BY <1>0, <1>7, CallsKeepSaved DEF Release, Cached
<1> QED
    BY <1>1, <1>2, <1>3, <1>4, <1>5, <1>6, <1>7 DEF PoolCall

\* A step that touches neither the pages nor what meta says.
LEMMA QuietSaved ==
    ASSUME SavedInv, CheckpointProgress',
           UNCHANGED <<pool, file, disk, torn, torn_disk, meta, meta_disk,
                       covers, changes>>
    PROVE  SavedInv'
<1>1. Bounded' /\ PoolKnown'
    BY DEF SavedInv, Bounded, PoolKnown, KnownEntry, Cached
<1>2. AllSaved'
    BY DEF SavedInv, AllSaved, Saved, SavedAt
<1> QED
    BY <1>1, <1>2 DEF SavedInv

LEMMA StartSavedInv ==
    ASSUME TypeInv, SavedInv, CheckpointStart
    PROVE  SavedInv'
<1>1. /\ UNCHANGED <<pool, file, disk, torn, torn_disk, meta, meta_disk, changes>>
      /\ stage' = "flush"
      /\ \A p \in PageId : covers'[p] = Content(p)
    BY DEF CheckpointStart, poolVars, fileVars, metaVars, boundVars
<1>2. \A p \in PageId : Content(p) <= changes
    <2>1. ASSUME NEW p \in PageId PROVE Content(p) <= changes
        <3>1. CASE InPool(p)
            BY <3>1, PlaceFacts DEF Content, SavedInv, Bounded
        <3>2. CASE ~ InPool(p)
            BY <3>2 DEF Content, SavedInv, Bounded
        <3> QED
            BY <3>1, <3>2
    <2> QED
        BY <2>1
<1>3. Bounded'
    BY <1>1, <1>2 DEF SavedInv, Bounded, Cached
<1>4. PoolKnown' /\ AllSaved'
    BY <1>1 DEF SavedInv, PoolKnown, KnownEntry, Cached, AllSaved, Saved, SavedAt
<1>5. CheckpointProgress'
    <2>1. ASSUME NEW e \in Cached PROVE covers'[e.page_id] <= e.stamp
        <3>1. e.page_id \in PageId /\ e.page_id \in IdsOf(pool) /\ e.stamp \in Nat
            BY EntryFacts
        <3>2. /\ InPool(e.page_id) /\ pool[PlaceOf(e.page_id)] \in Cached
              /\ pool[PlaceOf(e.page_id)].page_id = e.page_id
            BY <3>1, PlaceFacts
        <3>3. pool[PlaceOf(e.page_id)] = e
            BY <3>2, EntryFacts
        <3> QED
            BY <1>1, <3>1, <3>2, <3>3 DEF Content
    <2>2. ASSUME NEW p \in PageId \ IdsOf(pool) PROVE covers'[p] <= file[p].stamp
        BY <1>1, <2>2, PlaceFacts, Numbers DEF Content
    <2> QED
        BY <1>1, <2>1, <2>2 DEF CheckpointProgress, Cached
<1> QED
    BY <1>3, <1>4, <1>5 DEF SavedInv

\* A dirty page, as it is in the pool, gets to the file.
LEMMA FlushSavedInv ==
    ASSUME TypeInv, SavedInv, FlushPage
    PROVE  SavedInv'
<1>1. PICK d \in 1 .. Len(pool), e \in Entry :
        /\ Marks(d, e) /\ ~ e.dirty /\ e.stamp = pool[d].stamp
        /\ file' = Written(e) /\ torn' = torn \ {e.page_id}
    BY FlushFacts
<1>2. /\ UNCHANGED <<disk, torn_disk, meta, meta_disk, covers, changes, stage>>
      /\ stage = "flush"
    BY DEF FlushPage, metaVars, ckptVars, boundVars
<1>3. /\ Replaced(pool, pool', e) /\ pool[d] \in Cached
      /\ IdsOf(pool') = IdsOf(pool) /\ e.page_id = pool[d].page_id
    BY <1>1, MarkedFacts DEF Marks
<1>4. /\ e.page_id \in PageId /\ e.stamp \in Nat
      /\ e.page_id \in IdsOf(pool)
    BY <1>3, EntryFacts DEF Entry
<1>5. /\ file'[e.page_id] = GoodPage(e.stamp)
      /\ \A p \in PageId \ {e.page_id} : Kept(file, file', p)
    BY <1>1, <1>4, FlushWrites, NewBlocks DEF Writes
<1>6. /\ file'[e.page_id].kind = "good" /\ file'[e.page_id].stamp = e.stamp
      /\ \A p \in PageId \ {e.page_id} : file'[p].stamp = file[p].stamp
    BY <1>4, <1>5, NewBlocks DEF Kept
<1>7. \A x \in Cached' : x = e \/ (x \in Cached /\ x.page_id # e.page_id)
    BY <1>3 DEF Replaced, Cached
<1>8. /\ e.stamp <= changes
      /\ meta.covers[e.page_id] <= e.stamp /\ meta_disk.covers[e.page_id] <= e.stamp
      /\ covers[e.page_id] <= e.stamp
    BY <1>1, <1>2, <1>3
       DEF SavedInv, Bounded, PoolKnown, KnownEntry, CheckpointProgress
<1>9. Bounded'
    BY <1>2, <1>6, <1>7, <1>8 DEF SavedInv, Bounded
<1>10. PoolKnown'
    <2>1. ASSUME NEW x \in Cached' PROVE KnownEntry(x)'
        <3>1. CASE x = e
            BY <1>1, <1>2, <1>4, <1>6, <1>8, <3>1 DEF KnownEntry
        <3>2. CASE x \in Cached /\ x.page_id # e.page_id
            <4>1. x.page_id \in PageId \ {e.page_id} /\ KnownEntry(x)
                BY <3>2, EntryFacts DEF SavedInv, PoolKnown
            <4> QED
                BY <1>2, <1>6, <4>1 DEF KnownEntry
        <3> QED
            BY <1>7, <3>1, <3>2
    <2> QED
        BY <2>1 DEF PoolKnown
<1>11. AllSaved'
    <2>1. ASSUME NEW m \in {meta, meta_disk}, NEW p \in PageId
          PROVE  SavedAt(file', torn', m, p)
        <3>1. CASE p = e.page_id
            BY <1>6, <1>8, <3>1 DEF SavedAt
        <3>2. CASE p # e.page_id
            <4>1. SavedAt(file, torn, m, p) /\ Kept(file, file', p)
                BY <1>5, <3>2 DEF SavedInv, AllSaved, Saved
            <4>2. p \in torn => p \in torn'
                BY <1>1, <3>2
            <4> QED
                BY <4>1, <4>2 DEF SavedAt, Kept
        <3> QED
            BY <3>1, <3>2
    <2>2. Saved(disk, torn_disk, meta) /\ Saved(disk, torn_disk, meta_disk)
        BY DEF SavedInv, AllSaved
    <2> QED
        BY <1>2, <2>1, <2>2 DEF AllSaved, Saved
<1>12. CheckpointProgress'
    <2>1. \A x \in Cached' : covers[x.page_id] <= x.stamp
        BY <1>2, <1>7, <1>8 DEF SavedInv, CheckpointProgress
    <2>2. \A p \in PageId \ IdsOf(pool') : covers[p] <= file'[p].stamp
        BY <1>2, <1>3, <1>4, <1>6 DEF SavedInv, CheckpointProgress
    <2> QED
        BY <1>2, <2>1, <2>2 DEF CheckpointProgress
<1> QED
    BY <1>9, <1>10, <1>11, <1>12 DEF SavedInv

\* No page is dirty any more: the file has them all.
LEMMA FlushDoneSavedInv ==
    ASSUME TypeInv, SavedInv, FlushDone
    PROVE  SavedInv'
<1>1. /\ UNCHANGED <<pool, file, disk, torn, torn_disk, meta, meta_disk, covers,
                     changes>>
      /\ stage = "flush" /\ stage' = "sync" /\ Dirty = {}
    BY DEF FlushDone, poolVars, fileVars, metaVars, boundVars
<1>2. ASSUME NEW p \in PageId PROVE covers[p] <= file[p].stamp
    <2>1. CASE p \in IdsOf(pool)
        <3>1. PICK i \in 1 .. Len(pool) : i = PlaceOf(p) /\ pool[i].page_id = p
            BY <2>1, PlaceFacts
        <3>2. pool[i] \in Cached /\ ~ pool[i].dirty
            BY <1>1, EntryFacts DEF Dirty
        <3>3. /\ covers[p] <= pool[i].stamp
              /\ file[p].stamp = pool[i].stamp
            BY <1>1, <3>1, <3>2
               DEF SavedInv, PoolKnown, KnownEntry, CheckpointProgress
        <3> QED
            BY <3>3
    <2>2. CASE p \notin IdsOf(pool)
        BY <1>1, <2>2 DEF SavedInv, CheckpointProgress
    <2> QED
        BY <2>1, <2>2
<1>3. CheckpointProgress'
    BY <1>1, <1>2 DEF CheckpointProgress
<1> QED
    BY <1>1, <1>3, QuietSaved

LEMMA SyncSavedInv ==
    ASSUME TypeInv, SavedInv, SyncHeap
    PROVE  SavedInv'
<1>1. /\ UNCHANGED <<pool, file, torn, meta, meta_disk, covers, changes>>
      /\ stage = "sync" /\ stage' = "save"
      /\ disk' = file /\ torn_disk' = torn
    BY DEF SyncHeap, poolVars, metaVars, boundVars
<1>2. Bounded' /\ PoolKnown'
    BY <1>1 DEF SavedInv, Bounded, PoolKnown, KnownEntry, Cached
<1>3. AllSaved'
    BY <1>1 DEF SavedInv, AllSaved, Saved, SavedAt
<1>4. CheckpointProgress'
    BY <1>1 DEF SavedInv, CheckpointProgress
<1> QED
    BY <1>2, <1>3, <1>4 DEF SavedInv

\* The pages are on the disk before meta speaks of them.
LEMMA RenameSavedInv ==
    ASSUME TypeInv, SavedInv, RenameTmp
    PROVE  SavedInv'
<1>1. /\ UNCHANGED <<pool, file, disk, torn, torn_disk, meta_disk, covers,
                     changes>>
      /\ stage = "rename" /\ stage' = "dir" /\ meta'.covers = covers
    BY DEF RenameTmp, poolVars, fileVars, boundVars
<1>2. \A p \in PageId : covers[p] <= file[p].stamp /\ covers[p] <= disk[p].stamp
    BY <1>1 DEF SavedInv, CheckpointProgress
<1>3. Bounded'
    BY <1>1 DEF SavedInv, Bounded, Cached
<1>4. PoolKnown'
    <2>1. ASSUME NEW x \in Cached PROVE KnownEntry(x)'
        <3>1. /\ x.page_id \in PageId /\ x.stamp \in Nat /\ KnownEntry(x)
              /\ covers[x.page_id] \in Nat /\ file[x.page_id].stamp \in Nat
            BY EntryFacts, Numbers DEF SavedInv, PoolKnown
        <3>2. covers[x.page_id] <= x.stamp
            BY <1>2, <3>1 DEF KnownEntry
        <3> QED
            BY <1>1, <3>1, <3>2 DEF KnownEntry
    <2> QED
        BY <1>1, <2>1 DEF PoolKnown, Cached
<1>5. AllSaved'
    <2>1. ASSUME NEW p \in PageId, covers[p] > 0
          PROVE  file[p].kind = "good" /\ disk[p].kind = "good"
        <3>1. file[p].stamp # 0 /\ disk[p].stamp # 0
            BY <1>2, <2>1, Numbers
        <3> QED
            BY <3>1, FileTypes DEF Blank
    <2>2. Saved(file, torn, meta') /\ Saved(disk, torn_disk, meta')
        BY <1>1, <1>2, <2>1 DEF Saved, SavedAt
    <2>3. Saved(file, torn, meta_disk) /\ Saved(disk, torn_disk, meta_disk)
        BY DEF SavedInv, AllSaved
    <2> QED
        BY <1>1, <2>2, <2>3 DEF AllSaved
<1>6. CheckpointProgress'
    BY <1>1, <1>2 DEF CheckpointProgress
<1> QED
    BY <1>3, <1>4, <1>5, <1>6 DEF SavedInv

LEMMA SyncDirSavedInv ==
    ASSUME TypeInv, SavedInv, SyncDir
    PROVE  SavedInv'
<1>1. /\ UNCHANGED <<pool, file, disk, torn, torn_disk, meta, covers, changes>>
      /\ stage' = "idle" /\ meta_disk' = meta
    BY DEF SyncDir, poolVars, fileVars, boundVars
<1>2. Bounded' /\ PoolKnown'
    BY <1>1 DEF SavedInv, Bounded, PoolKnown, KnownEntry, Cached
<1>3. AllSaved'
    BY <1>1 DEF SavedInv, AllSaved, Saved, SavedAt
<1>4. CheckpointProgress'
    BY <1>1 DEF CheckpointProgress
<1> QED
    BY <1>2, <1>3, <1>4 DEF SavedInv

LEMMA StepSavedInv ==
    ASSUME TypeInv, SavedInv, Commit \/ Checkpoint
    PROVE  SavedInv'
<1> USE DEF poolVars, callerVars, fileVars, metaVars, commitVars, ckptVars,
            boundVars
<1>1. CASE Commit
    BY <1>1, QuietSaved DEF Commit, SavedInv, CheckpointProgress
<1>2. CASE SaveTmp
    <2>1. CheckpointProgress'
        BY <1>2 DEF SaveTmp, SavedInv, CheckpointProgress
    <2> QED
        BY <1>2, <2>1, QuietSaved DEF SaveTmp
<1>3. CASE SyncTmp
    <2>1. CheckpointProgress'
        BY <1>3 DEF SyncTmp, SavedInv, CheckpointProgress
    <2> QED
        BY <1>3, <2>1, QuietSaved DEF SyncTmp
<1> QED
    BY <1>1, <1>2, <1>3, StartSavedInv, FlushSavedInv, FlushDoneSavedInv,
       SyncSavedInv, RenameSavedInv, SyncDirSavedInv DEF Checkpoint

\* When the process ends the pool is gone; what is in the files has to do.
LEMMA EndsKeepSaved ==
    ASSUME TypeInv, SavedInv, ProcessEnds,
           \A p \in PageId : /\ file'[p].stamp <= changes
                             /\ disk'[p].stamp <= changes
                             /\ meta'.covers[p] <= changes
                             /\ meta_disk'.covers[p] <= changes,
           Saved(file', torn', meta'), Saved(file', torn', meta_disk'),
           Saved(disk', torn_disk', meta'), Saved(disk', torn_disk', meta_disk')
    PROVE  SavedInv'
<1>1. Cached' = {} /\ stage' = "down" /\ UNCHANGED <<covers, changes>>
    BY EmptyPool DEF ProcessEnds, Cached
<1>2. Bounded'
    BY <1>1 DEF SavedInv, Bounded
<1>3. PoolKnown' /\ CheckpointProgress' /\ AllSaved'
    BY <1>1 DEF PoolKnown, CheckpointProgress, AllSaved
<1> QED
    BY <1>2, <1>3 DEF SavedInv

LEMMA KillSavedInv ==
    ASSUME TypeInv, SavedInv, Kill
    PROVE  SavedInv'
<1>1. UNCHANGED <<file, disk, torn, torn_disk, meta, meta_disk>> /\ ProcessEnds
    BY DEF Kill, fileVars
<1> QED
    BY <1>1, EndsKeepSaved DEF SavedInv, Bounded, AllSaved

LEMMA TornSavedInv ==
    ASSUME TypeInv, SavedInv, TornWrite
    PROVE  SavedInv'
<1>1. PICK e \in Cached, b \in Blocks :
        /\ torn' = torn \cup {e.page_id}
        /\ Writes(file, file', e.page_id, b)
        /\ \/ /\ file[e.page_id].kind \in {"none", "half"}
              /\ b = HalfPage
           \/ /\ file[e.page_id].kind \in {"good", "bad"}
              /\ b \in {BadPage, GoodPage(e.stamp)}
    BY TornFacts
<1>2. /\ UNCHANGED <<disk, torn_disk, meta, meta_disk>>
      /\ ProcessEnds
    BY DEF TornWrite
<1>3. /\ e.page_id \in PageId /\ e.stamp \in Nat /\ e.stamp <= changes
      /\ KnownEntry(e) /\ changes \in Nat
    BY EntryFacts, Numbers DEF SavedInv, Bounded, PoolKnown
<1>4. b.stamp \in {0, e.stamp}
    BY <1>1, <1>3, NewBlocks
<1>5. \A p \in PageId : file'[p].stamp <= changes
    BY <1>1, <1>3, <1>4 DEF Writes, Kept, SavedInv, Bounded
<1>6. ASSUME NEW m \in {meta, meta_disk}, NEW p \in PageId
      PROVE  SavedAt(file', torn', m, p)
    <2>1. SavedAt(file, torn, m, p)
        BY DEF SavedInv, AllSaved, Saved
    <2>2. CASE p # e.page_id
        <3>1. Kept(file, file', p) /\ (p \in torn => p \in torn')
            BY <1>1, <2>2 DEF Writes
        <3> QED
            BY <2>1, <3>1 DEF SavedAt, Kept
    <2>3. CASE p = e.page_id
        <3>1. CASE m.covers[p] > 0
            <4>1. b \in {BadPage, GoodPage(e.stamp)}
                BY <1>1, <2>1, <2>3, <3>1 DEF SavedAt
            <4>2. file'[p] = b
                BY <1>1, <1>3, <2>3, <4>1, NewBlocks DEF Writes
            <4>3. m.covers[p] <= e.stamp
                BY <1>3, <2>3 DEF KnownEntry
            <4> QED
                BY <1>1, <1>3, <2>3, <4>1, <4>2, <4>3, NewBlocks DEF SavedAt
        <3>2. CASE ~ (m.covers[p] > 0)
            BY <3>2 DEF SavedAt
        <3> QED
            BY <3>1, <3>2
    <2> QED
        BY <2>2, <2>3
<1>7. Saved(file', torn', meta) /\ Saved(file', torn', meta_disk)
    BY <1>6 DEF Saved
<1>8. Saved(disk, torn_disk, meta) /\ Saved(disk, torn_disk, meta_disk)
    BY DEF SavedInv, AllSaved
<1>9. \A p \in PageId : /\ disk[p].stamp <= changes
                        /\ meta.covers[p] <= changes
                        /\ meta_disk.covers[p] <= changes
    BY DEF SavedInv, Bounded
<1> QED
    BY <1>2, <1>5, <1>7, <1>8, <1>9, EndsKeepSaved

\* Whichever writes were lost, both meta files speak of pages that are there.
LEMMA PowerSavedInv ==
    ASSUME TypeInv, MetaWhole, SavedInv, PowerLoss
    PROVE  SavedInv'
<1>1. /\ ProcessEnds /\ disk' = file' /\ torn_disk' = torn' /\ meta_disk' = meta'
      /\ meta' \in {meta, meta_disk}
    BY PowerFacts DEF PowerLoss, Loadable, MetaWhole
<1>2. \A p \in PageId : file'[p].stamp <= changes
    BY PowerFacts DEF Kept, SavedInv, Bounded
<1>3. ASSUME NEW m \in {meta, meta_disk}, NEW p \in PageId
      PROVE  SavedAt(file', torn', m, p)
    <2>1. SavedAt(file, torn, m, p) /\ SavedAt(disk, torn_disk, m, p)
        BY DEF SavedInv, AllSaved, Saved
    <2>2. \/ Kept(file, file', p) /\ (p \in torn => p \in torn')
          \/ Kept(disk, file', p) /\ (p \in torn_disk => p \in torn')
        BY PowerFacts
    <2> QED
        BY <2>1, <2>2 DEF SavedAt, Kept
<1>4. Saved(file', torn', meta')
    BY <1>1, <1>3 DEF Saved
<1>5. \A p \in PageId : meta'.covers[p] <= changes
    BY <1>1 DEF SavedInv, Bounded
<1> QED
    BY <1>1, <1>2, <1>4, <1>5, EndsKeepSaved

LEMMA CrashSavedInv ==
    ASSUME TypeInv, MetaWhole, SavedInv, Crash \/ Restart
    PROVE  SavedInv'
<1> USE DEF poolVars, fileVars, metaVars, boundVars
<1>1. CASE CheckpointRaises
    <2>1. CheckpointProgress'
        BY <1>1 DEF CheckpointRaises, CheckpointProgress
    <2> QED
        BY <1>1, <2>1, QuietSaved DEF CheckpointRaises
<1>2. CASE Restart
    <2>1. CheckpointProgress'
        BY <1>2 DEF Restart, CheckpointProgress
    <2> QED
        BY <1>2, <2>1, QuietSaved DEF Restart
<1> QED
    BY <1>1, <1>2, KillSavedInv, TornSavedInv, PowerSavedInv DEF Crash

LEMMA NextSavedInv ==
    ASSUME TypeInv, MetaWhole, SavedInv, [Next]_vars
    PROVE  SavedInv'
<1>1. CASE Next
    BY <1>1, CallSavedInv, StepSavedInv, CrashSavedInv DEF Next
<1>2. CASE UNCHANGED vars
    <2>1. CheckpointProgress'
        BY <1>2 DEF vars, poolVars, fileVars, ckptVars, SavedInv, Cached,
                    CheckpointProgress
    <2> QED
        BY <1>2, <2>1, QuietSaved
           DEF vars, poolVars, fileVars, metaVars, ckptVars, boundVars
<1> QED
    BY <1>1, <1>2

StorageInv == TypeInv /\ MetaKept /\ SavedInv

\* What the storage keeps at every step: its types, the meta file, the pool's
\* entries against the file, and the pages a checkpoint speaks of, in both
\* the file and what the disk has of it.
THEOREM StorageInvariant == Spec => []StorageInv
<1>1. Init => StorageInv
    BY InitTypeInv, InitSavedInv
       DEF Init, NoMeta, StorageInv, MetaKept, MetaWhole, MetaOrder
<1>2. StorageInv /\ [Next]_vars => StorageInv'
    BY NextTypeInv, NextMetaWhole, NextMetaOrder, NextSavedInv
       DEF StorageInv, MetaKept
<1> QED
    BY <1>1, <1>2, PTL DEF Spec

\* Whatever meta says was checkpointed can be read from heap.db, as it was
\* then or newer, but for what a torn write left at a page's place: after any
\* number of kills, power losses, I/O errors and attempts (Engine.checkpoint,
\* HeapFile.sync, Meta.save).
THEOREM CheckpointsAreReadable == Spec => []CheckpointOnDisk
<1>1. StorageInv => CheckpointOnDisk
    BY Numbers DEF StorageInv, SavedInv, AllSaved, Saved, SavedAt,
                   CheckpointOnDisk
<1> QED
    BY <1>1, StorageInvariant, PTL

-----------------------------------------------------------------------------
\* The size of the pool

LEMMA PoolGrowth ==
    ASSUME TypeInv, [Next]_vars, Len(pool') > Len(pool), Len(pool) >= MaxPages
    PROVE  Dirty = 1 .. Len(pool)
<1> USE DEF poolVars
<1>0. Len(pool) \in Nat
    BY EntryFacts
<1>1. ASSUME NEW e \in Entry, Puts(e)
      PROVE  Dirty = 1 .. Len(pool)
    BY <1>1, PutIntoPool DEF Dirty
<1>2. CASE NewPage
    BY <1>1, <1>2, NewPageFacts
<1>3. CASE \E p \in PageId : GetFromFile(p)
    BY <1>1, <1>3, GetFromFileFacts
<1>4. CASE Len(pool') <= Len(pool)
    BY <1>0, <1>4
<1>5. CASE \E p \in PageId : GetCached(p) \/ GetCorrupt(p) \/ Release(p)
    BY <1>0, <1>4, <1>5, EvictedFacts DEF GetCached, GetCorrupt, Release
<1>6. CASE \E p \in PageId : Change(p) \/ MakeDirty(p)
    BY <1>0, <1>4, <1>6, ChangeFacts, MakeDirtyFacts, MarkedFacts
<1>7. CASE FlushPage
    BY <1>0, <1>4, <1>7, FlushFacts, MarkedFacts
<1>8. CASE \/ Commit \/ CheckpointStart \/ FlushDone \/ SyncHeap \/ SaveTmp
           \/ SyncTmp \/ RenameTmp \/ SyncDir \/ CheckpointRaises \/ Restart
           \/ UNCHANGED vars
    BY <1>0, <1>4, <1>8
       DEF Commit, CheckpointStart, FlushDone, SyncHeap, SaveTmp, SyncTmp,
           RenameTmp, SyncDir, CheckpointRaises, Restart, vars
<1>9. CASE Kill \/ TornWrite \/ PowerLoss
    <2>1. Len(pool') = 0
        BY <1>9 DEF Kill, TornWrite, PowerLoss, ProcessEnds
    <2> QED
        BY <1>0, <1>4, <2>1
<1> QED
    BY <1>2, <1>3, <1>5, <1>6, <1>7, <1>8, <1>9
       DEF Next, PoolCall, Checkpoint, Crash

\* A full pool grows only when all of its pages are dirty: otherwise
\* BufferPool._maybe_evict finds a clean page to make room.
THEOREM PoolGrowsOnlyWhenDirty == Spec => GrowsOnlyWhenDirty
<1>1. TypeInv /\ [Next]_vars =>
        [Len(pool') > Len(pool) /\ Len(pool) >= MaxPages
            => Dirty = 1 .. Len(pool)]_vars
    BY PoolGrowth
<1> QED
    BY <1>1, TypeInvariant, PTL DEF Spec, GrowsOnlyWhenDirty

-----------------------------------------------------------------------------
\* No change is lost by a caller that holds one page at a time

\* With no page held and none let go of, room for one more is room for one.
LEMMA HoldsNone ==
    ASSUME TypeInv, MaxHeld = 1, MayHoldOneMore
    PROVE  held = {} /\ orphans = {}
<1>1. IsFiniteSet(PageId)
    BY FS_Interval, StorageAssumption DEF PageId
<1>2. held \subseteq PageId /\ orphans \subseteq PageId
    <2>1. IdsOf(pool) \subseteq PageId
        BY EntryFacts DEF IdsOf
    <2> QED
        BY <2>1 DEF TypeInv, TypeOK
<1>3. IsFiniteSet(held) /\ IsFiniteSet(orphans)
    BY <1>1, <1>2, FS_Subset
<1>4. Cardinality(held) \in Nat /\ Cardinality(orphans) \in Nat
    BY <1>3, FS_CardinalityType
<1>5. Cardinality(held) = 0 /\ Cardinality(orphans) = 0
    BY <1>4 DEF MayHoldOneMore
<1> QED
    BY <1>3, <1>5, FS_EmptySet

\* Entry e takes its page's place, at the cost of clean pages at most.
LEMMA ReplacedLatest ==
    ASSUME TypeInv, PoolKnown, stage # "down", PoolLatest,
           NEW e \in Entry, pool' \in Seq(Entry), Replaced(pool, pool', e),
           \A p \in PageId \ {e.page_id} : /\ file'[p].stamp = file[p].stamp
                                           /\ latest'[p] = latest[p],
           latest'[e.page_id] = e.stamp, orphans' = {}
    PROVE  PoolLatest'
<1>1. Entries(pool') \subseteq Entry /\ Cached' = Entries(pool')
    BY ListFacts DEF Cached
<1>2. ASSUME NEW x \in Cached' PROVE x.stamp = latest'[x.page_id]
    <2>1. x = e \/ (x \in Cached /\ x.page_id # e.page_id)
        BY <1>1 DEF Replaced, Cached
    <2> QED
        BY <2>1, EntryFacts DEF PoolLatest
<1>3. ASSUME NEW p \in PageId \ IdsOf(pool')
      PROVE  file'[p].stamp = latest'[p]
    <2>1. \A x \in Entries(pool') : x.page_id # p
        BY ListFacts
    <2>2. p # e.page_id
        BY <2>1 DEF Replaced
    <2>3. file[p].stamp = latest[p]
        <3>1. CASE p \notin IdsOf(pool)
            BY <3>1 DEF PoolLatest
        <3>2. CASE p \in IdsOf(pool)
            <4>1. PICK x \in Cached : x.page_id = p
                BY <3>2, PlaceFacts
            <4>2. ~ x.dirty
                BY <2>1, <2>2, <4>1 DEF Replaced, Cached
            <4> QED
                BY <4>1, <4>2 DEF PoolKnown, KnownEntry, PoolLatest
        <3> QED
            BY <3>1, <3>2
    <2> QED
        BY <2>2, <2>3
<1> QED
    BY <1>2, <1>3 DEF PoolLatest

LEMMA EvictedLatest ==
    ASSUME TypeInv, PoolKnown, stage # "down", PoolLatest,
           pool' = Evict(pool),
           UNCHANGED <<file, latest>>, orphans' = {}
    PROVE  PoolLatest'
<1>1. Cached' \subseteq Cached /\ Cached' = Entries(pool')
    BY EvictedFacts DEF Cached
<1>2. ASSUME NEW p \in PageId \ IdsOf(pool')
      PROVE  file[p].stamp = latest[p]
    <2>1. CASE p \notin IdsOf(pool)
        BY <2>1 DEF PoolLatest
    <2>2. CASE p \in IdsOf(pool)
        <3>1. PICK x \in Cached : x.page_id = p
            BY <2>2, PlaceFacts
        <3>2. pool' \in Seq(Entry)
            BY EvictedFacts
        <3>3. x \notin Entries(pool')
            BY <3>1, <3>2, ListFacts
        <3>4. ~ x.dirty
            BY <3>3, EvictedFacts
        <3> QED
            BY <3>1, <3>4 DEF PoolKnown, KnownEntry, PoolLatest
    <2> QED
        BY <2>1, <2>2
<1> QED
    BY <1>1, <1>2 DEF PoolLatest

LEMMA CallPoolLatest ==
    ASSUME TypeInv, PoolKnown, PoolLatest, MaxHeld = 1, PoolCall
    PROVE  PoolLatest'
<1> USE DEF poolVars, callerVars, fileVars, ckptVars, boundVars
<1>0. /\ stage = "idle" /\ orphans = {} /\ file' = file /\ stage' = stage
      /\ \A x \in Cached : x.stamp = latest[x.page_id]
    BY CallsKeepTypes DEF CallFrame, PoolLatest
<1>1. CASE NewPage
    <2>1. PICK e \in Entry : Puts(e) /\ e.page_id = next_page_id
                                     /\ e.stamp = changes + 1
        BY <1>1, NewPageFacts
    <2>2. held = {} /\ orphans = {} /\ next_page_id \in PageId
        BY <1>1, HoldsNone, NewPageFacts DEF NewPage
    <2>3. /\ latest' = [latest EXCEPT ![next_page_id] = changes + 1]
          /\ orphans' = {}
        BY <1>1, <2>2 DEF NewPage
    <2>4. /\ latest'[e.page_id] = e.stamp
          /\ \A p \in PageId \ {e.page_id} : latest'[p] = latest[p]
        BY <2>1, <2>2, <2>3 DEF TypeInv, TypeOK
    <2> QED
        BY <1>0, <2>1, <2>3, <2>4, PutIntoPool, ReplacedLatest
<1>2. ASSUME NEW p \in PageId, GetCached(p)
      PROVE  PoolLatest'
    BY <1>2 DEF GetCached, PoolLatest, Cached
<1>3. ASSUME NEW p \in PageId, GetFromFile(p)
      PROVE  PoolLatest'
    <2>1. PICK e \in Entry : Puts(e) /\ e.page_id = p /\ e.stamp = file[p].stamp
        BY <1>3, GetFromFileFacts
    <2>2. held = {} /\ orphans = {}
        BY <1>3, HoldsNone DEF GetFromFile
    <2>3. orphans' = {} /\ latest' = latest
        BY <1>3, <2>2 DEF GetFromFile
    <2>4. file[p].stamp = latest[p]
        BY <1>0, <1>3, PlaceFacts DEF GetFromFile, PoolLatest
    <2> QED
        BY <1>0, <2>1, <2>3, <2>4, PutIntoPool, ReplacedLatest
<1>4. ASSUME NEW p \in PageId, GetCorrupt(p)
      PROVE  PoolLatest'
    <2>1. held = {} /\ orphans = {}
        BY <1>4, HoldsNone DEF GetCorrupt
    <2>2. orphans' = {} /\ latest' = latest /\ pool' = Evict(pool)
        BY <1>4, <2>1 DEF GetCorrupt, LetGo
    <2> QED
        BY <1>0, <2>2, EvictedLatest
<1>5. ASSUME NEW p \in PageId, Change(p)
      PROVE  PoolLatest'
    <2>1. PICK d \in 1 .. Len(pool), e \in Entry :
            Marks(d, e) /\ e.page_id = p /\ e.stamp = changes + 1
        BY <1>0, <1>5, ChangeFacts
    <2>2. /\ latest' = [latest EXCEPT ![p] = changes + 1]
          /\ orphans' = orphans
        BY <1>5 DEF Change
    <2>3. /\ latest'[e.page_id] = e.stamp
          /\ \A q \in PageId \ {e.page_id} : latest'[q] = latest[q]
        BY <2>1, <2>2 DEF TypeInv, TypeOK
    <2> QED
        BY <1>0, <2>1, <2>2, <2>3, MarkedFacts, ReplacedLatest
<1>6. ASSUME NEW p \in PageId, MakeDirty(p)
      PROVE  PoolLatest'
    <2>1. PICK d \in 1 .. Len(pool), e \in Entry :
            Marks(d, e) /\ e.stamp = pool[d].stamp
        BY <1>6, MakeDirtyFacts
    <2>2. latest' = latest /\ orphans' = orphans
        BY <1>6 DEF MakeDirty
    <2>3. e.page_id = pool[d].page_id /\ pool[d] \in Cached
        BY <2>1, MarkedFacts DEF Marks
    <2> QED
        BY <1>0, <2>1, <2>2, <2>3, MarkedFacts, ReplacedLatest
<1>7. ASSUME NEW p \in PageId, Release(p)
      PROVE  PoolLatest'
    BY <1>0, <1>7 DEF Release, PoolLatest, Cached
<1> QED
    BY <1>1, <1>2, <1>3, <1>4, <1>5, <1>6, <1>7 DEF PoolCall

LEMMA NextPoolLatest ==
    ASSUME TypeInv, PoolKnown, PoolLatest, MaxHeld = 1, [Next]_vars
    PROVE  PoolLatest'
<1> USE DEF poolVars, callerVars, fileVars
<1>1. CASE FlushPage
    <2>1. PICK d \in 1 .. Len(pool), e \in Entry :
            Marks(d, e) /\ e.stamp = pool[d].stamp /\ file' = Written(e)
        BY <1>1, FlushFacts
    <2>2. stage # "down" /\ latest' = latest /\ orphans' = orphans
        BY <1>1 DEF FlushPage
    <2>3. e.page_id = pool[d].page_id /\ pool[d] \in Cached
        BY <2>1, MarkedFacts DEF Marks
    <2>4. \A p \in PageId \ {e.page_id} : file'[p].stamp = file[p].stamp
        BY <2>1, FlushWrites DEF Writes, Kept
    <2>5. latest'[e.page_id] = e.stamp /\ orphans' = {}
        BY <2>1, <2>2, <2>3 DEF PoolLatest
    <2> QED
        BY <2>1, <2>2, <2>4, <2>5, MarkedFacts, ReplacedLatest
<1>2. CASE \/ Commit \/ CheckpointStart \/ FlushDone \/ SyncHeap \/ SaveTmp
           \/ SyncTmp \/ RenameTmp \/ SyncDir \/ CheckpointRaises
           \/ UNCHANGED vars
    <2>1. /\ UNCHANGED <<pool, orphans, file, latest>>
          /\ stage # "down" \/ stage' = stage
        BY <1>2 DEF Commit, CheckpointStart, FlushDone, SyncHeap, SaveTmp,
                    SyncTmp, RenameTmp, SyncDir, CheckpointRaises, vars, ckptVars
    <2> QED
        BY <2>1 DEF PoolLatest, Cached
<1>3. CASE Kill \/ TornWrite \/ PowerLoss
    BY <1>3 DEF Kill, TornWrite, PowerLoss, ProcessEnds, PoolLatest
<1>4. CASE Restart
    <2>1. /\ pool' = << >> /\ orphans' = {} /\ file' = file
          /\ \A p \in PageId : latest'[p] = file[p].stamp
        BY <1>4 DEF Restart, TypeInv
    <2>2. Cached' = {}
        BY <2>1, EmptyPool DEF Cached
    <2> QED
        BY <2>1, <2>2 DEF PoolLatest
<1> QED
    BY <1>1, <1>2, <1>3, <1>4, CallPoolLatest DEF Next, Checkpoint, Crash

LEMMA PoolLatestInvariant ==
    ASSUME MaxHeld = 1
    PROVE  Spec => [](StorageInv /\ PoolLatest)
<1>1. Init => PoolLatest
    BY EmptyPool DEF Init, NoPage, PoolLatest, Cached
<1>2. StorageInv /\ PoolLatest /\ [Next]_vars => PoolLatest'
    BY NextPoolLatest DEF StorageInv, SavedInv
<1> QED
    BY <1>1, <1>2, StorageInvariant, PTL DEF Spec

LEMMA LatestIsRead == StorageInv /\ PoolLatest => ReadsLatest
<1> SUFFICES ASSUME StorageInv, PoolLatest, stage # "down", NEW p \in PageId
             PROVE  Content(p) = latest[p]
    BY DEF ReadsLatest
<1>1. TypeInv
    BY DEF StorageInv
<1>2. CASE InPool(p)
    BY <1>1, <1>2, PlaceFacts DEF Content, PoolLatest
<1>3. CASE ~ InPool(p)
    BY <1>1, <1>3, PlaceFacts DEF Content, PoolLatest
<1> QED
    BY <1>2, <1>3

\* get_page shows each page as its last change left it, for a caller that
\* holds one page at a time: eviction, the flush and failed checkpoints lose
\* none.  With two pages held it is false: a clean page can be evicted while
\* its holder has it, and what is then written to the object nobody sees.
THEOREM NoChangeIsLost ==
    ASSUME MaxHeld = 1
    PROVE  Spec => []ReadsLatest
    BY PoolLatestInvariant, LatestIsRead, PTL
=============================================================================
