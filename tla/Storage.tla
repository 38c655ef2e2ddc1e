------------------------------- MODULE Storage -------------------------------
(***************************************************************************)
(* KilnDB's page storage: the buffer pool (buffer.py), the heap file       *)
(* (heap.py), the meta file (meta.py) and Engine.checkpoint, which writes  *)
(* the one to the other.                                                   *)
(*                                                                         *)
(* The engine's own calls never touch a page; a caller of the pool is      *)
(* whoever embeds these classes, as test/test_phase2.py does.  It asks for *)
(* pages it was given, by this process or an earlier one, inserts records  *)
(* into pages it holds, and calls checkpoint(): one call at a time.        *)
(*                                                                         *)
(* What is on a page is a stamp, the number of the change that made it so: *)
(* greater is newer.  A Page object the pool no longer has is an orphan:   *)
(* its holder may still change it, and nobody else will see that.          *)
(*                                                                         *)
(* A commit is one step here; Engine has the steps.  An LSN is the number  *)
(* of commits the log holds before it.                                     *)
(*                                                                         *)
(* The definitions no action uses (EvictFirstOnly, SyncHeapMissing, ...)   *)
(* are faulty variants of the definition that follows them.  Put in its    *)
(* place each makes TLC find a property violated: see README.md.           *)
(***************************************************************************)
EXTENDS Naturals, Sequences, FiniteSets, FiniteSetsExt, SequencesExt

CONSTANTS
    MaxPages,       \* BufferPool.max_pages
    PageLimit,      \* bound: page ids are below it
    MaxChanges,     \* bound: changes to pages, over all processes
    MaxCommits,     \* bound: commits, over all processes
    MaxHeld,        \* bound: page objects the caller holds at a time
    Incidents,      \* the kinds of crash and error that may happen
    MaxIncidents    \* bound: how many of them happen in one behaviour

ASSUME StorageAssumption ==
    /\ {MaxPages, MaxHeld} \subseteq Nat \ {0}
    /\ {PageLimit, MaxChanges, MaxCommits, MaxIncidents} \subseteq Nat
    /\ Incidents \subseteq {"kill", "power", "torn", "error"}

VARIABLES
    \* BufferPool: its dictionary in insertion order, and its counter
    pool, next_page_id,
    \* the objects the caller holds that are in the pool, and those that are not
    held, orphans,
    \* heap.db as the system shows it, and as its last fdatasync left it
    file, disk,
    \* the file meta likewise; is the content of meta.tmp on the disk?
    meta, meta_disk, tmp_synced,
    \* Engine.meta.checkpoint_lsn; the commits in the log and in the catalog
    checkpoint_lsn, wal_size, catalog,
    \* how far a checkpoint has come, and the page contents it is to save
    stage, covers,
    \* history: each page's last change, the pages of file and of disk that a
    \* torn write left so, and the last checkpoint that returned
    latest, torn, torn_disk, last_done,
    changes, incidents

poolVars   == <<pool, next_page_id>>
callerVars == <<held, orphans>>
fileVars   == <<file, disk, torn, torn_disk>>
metaVars   == <<meta, meta_disk, tmp_synced, checkpoint_lsn>>
commitVars == <<wal_size, catalog>>
ckptVars   == <<stage, covers, last_done>>
boundVars  == <<changes, incidents>>
vars == <<poolVars, callerVars, fileVars, metaVars, commitVars, ckptVars,
          latest, boundVars>>

-----------------------------------------------------------------------------
\* Data

PageId == 0 .. (PageLimit - 1)

\* What read_page finds at a page's place in the file: nothing, half a page
\* at its end, a page, or bytes that fail the checksum.
NoPage     == [kind |-> "none", stamp |-> 0]
HalfPage   == [kind |-> "half", stamp |-> 0]
GoodPage(n) == [kind |-> "good", stamp |-> n]
BadPage    == [kind |-> "bad", stamp |-> 0]

Blocks == [kind : {"none", "half", "good", "bad"}, stamp : Nat]

Entry == [page_id : PageId, stamp : Nat, dirty : BOOLEAN]

\* No file meta, or one that does not parse.  The field covers is what the
\* checkpoint was to save; synced says that the bytes are on the disk.
NoMeta == [lsn |-> 0, covers |-> [p \in PageId |-> 0], synced |-> TRUE]

\* What Meta.load makes of a meta file after the machine went down.
Loadable(m) == IF m.synced THEN m ELSE NoMeta

Stages == {"down", "idle", "flush", "sync", "save", "tmp", "rename", "dir"}

\* A file has no gaps: what is missing before its end reads as zeros, and
\* zeros are no page.
WithoutGaps(f) ==
    [p \in PageId |->
        IF f[p].kind \in {"none", "half"}
             /\ \E q \in PageId : q > p /\ f[q].kind # "none"
        THEN BadPage
        ELSE f[p]]

InPool(p) == \E i \in 1 .. Len(pool) : pool[i].page_id = p

PlaceOf(p) == CHOOSE i \in 1 .. Len(pool) : pool[i].page_id = p

Dirty == {i \in 1 .. Len(pool) : pool[i].dirty}

\* What get_page(p) shows of p, when the page can be read.
Content(p) == IF InPool(p) THEN pool[PlaceOf(p)].stamp ELSE file[p].stamp

Incident(kind) ==
    /\ kind \in Incidents
    /\ incidents < MaxIncidents
    /\ incidents' = incidents + 1

-----------------------------------------------------------------------------
Init ==
    /\ pool = << >> /\ next_page_id = 0
    /\ held = {} /\ orphans = {}
    /\ file = [p \in PageId |-> NoPage] /\ disk = file
    /\ torn = {} /\ torn_disk = {}
    /\ meta = NoMeta /\ meta_disk = NoMeta /\ tmp_synced = FALSE
    /\ checkpoint_lsn = 0 /\ wal_size = 0 /\ catalog = {}
    /\ stage = "idle" /\ covers = NoMeta.covers /\ last_done = 0
    /\ latest = [p \in PageId |-> 0]
    /\ changes = 0 /\ incidents = 0

-----------------------------------------------------------------------------
\* The pool and its caller

EvictFirstOnly(entries) ==
    IF Len(entries) < MaxPages \/ entries[1].dirty
    THEN entries
    ELSE Tail(entries)

EvictAnyPage(entries) ==
    IF Len(entries) < MaxPages THEN entries ELSE Tail(entries)

\* BufferPool._maybe_evict: a full pool loses its first clean page, if any.
Evict(entries) ==
    LET clean == {i \in 1 .. Len(entries) : ~ entries[i].dirty}
    IN  IF Len(entries) < MaxPages \/ clean = {}
        THEN entries
        ELSE RemoveAt(entries, Min(clean))

PutAtEnd(entries, e) == Append(entries, e)

\* self.pages[page_id] = page: a dictionary keeps the place of its keys.
Put(entries, e) ==
    LET same == {i \in 1 .. Len(entries) : entries[i].page_id = e.page_id}
    IN  IF same = {} THEN Append(entries, e)
                     ELSE [entries EXCEPT ![Min(same)] = e]

\* The ids in a pool.
IdsOf(entries) == {entries[i].page_id : i \in 1 .. Len(entries)}

\* Held pages that the pool lets go of become orphans.
LetGo(gone) ==
    /\ held' = held \ gone
    /\ orphans' = orphans \cup (held \cap gone)

MayHoldOneMore == Cardinality(held) + Cardinality(orphans) < MaxHeld

\* The caller was given p: by new_page, or it finds the page in the file.
Known(p) == p < next_page_id \/ file[p].kind # "none"

\* get_page of a page that is in the pool
GetCached(p) ==
    /\ stage = "idle"
    /\ MayHoldOneMore
    /\ InPool(p) /\ p \notin held
    /\ held' = held \cup {p}
    /\ UNCHANGED <<poolVars, orphans, fileVars, metaVars, commitVars, ckptVars,
                   latest, boundVars>>

\* get_page of a page that HeapFile.read_page reads, or takes for a fresh one
GetFromFile(p) ==
    /\ stage = "idle"
    /\ MayHoldOneMore
    /\ Known(p) /\ ~ InPool(p)
    /\ file[p].kind # "bad"
    /\ LET kept == Evict(pool)
           gone == held \ IdsOf(kept)
       IN  /\ pool' = Put(kept, [page_id |-> p, stamp |-> file[p].stamp,
                                 dirty |-> FALSE])
           /\ held' = (held \ gone) \cup {p}
           /\ orphans' = orphans \cup gone
    /\ UNCHANGED <<next_page_id, fileVars, metaVars, commitVars, ckptVars,
                   latest, boundVars>>

\* get_page raises CorruptPageError; room for the page was already made.
GetCorrupt(p) ==
    /\ stage = "idle"
    /\ MayHoldOneMore
    /\ ~ InPool(p)
    /\ file[p].kind = "bad"
    /\ pool' = Evict(pool)
    /\ LetGo(held \ IdsOf(Evict(pool)))
    /\ UNCHANGED <<next_page_id, fileVars, metaVars, commitVars, ckptVars,
                   latest, boundVars>>

\* BufferPool.new_page
NewPage ==
    /\ stage = "idle"
    /\ MayHoldOneMore
    /\ next_page_id < PageLimit
    /\ changes < MaxChanges
    /\ LET p    == next_page_id
           kept == Evict(pool)
           gone == (held \ IdsOf(kept)) \cup (held \cap {p})
       IN  /\ pool' = Put(kept, [page_id |-> p, stamp |-> changes + 1,
                                 dirty |-> TRUE])
           /\ held' = (held \ gone) \cup {p}
           /\ orphans' = orphans \cup gone
           /\ latest' = [latest EXCEPT ![p] = changes + 1]
    /\ next_page_id' = next_page_id + 1
    /\ changes' = changes + 1
    /\ UNCHANGED <<fileVars, metaVars, commitVars, ckptVars, incidents>>

\* Page.insert or Page.update_record on a page that the caller holds
Change(p) ==
    /\ stage = "idle"
    /\ changes < MaxChanges
    /\ changes' = changes + 1
    /\ latest' = [latest EXCEPT ![p] = changes + 1]
    /\ \/ /\ p \in held
          /\ pool' = [pool EXCEPT ![PlaceOf(p)].stamp = changes + 1,
                                  ![PlaceOf(p)].dirty = TRUE]
       \/ p \in orphans /\ pool' = pool
    /\ UNCHANGED <<next_page_id, callerVars, fileVars, metaVars, commitVars,
                   ckptVars, incidents>>

\* BufferPool.make_dirty
MakeDirty(p) ==
    /\ stage = "idle"
    /\ InPool(p)
    /\ pool' = [pool EXCEPT ![PlaceOf(p)].dirty = TRUE]
    /\ UNCHANGED <<next_page_id, callerVars, fileVars, metaVars, commitVars,
                   ckptVars, latest, boundVars>>

\* The caller forgets a page.
Release(p) ==
    /\ stage = "idle"
    /\ \/ p \in held /\ held' = held \ {p} /\ UNCHANGED orphans
       \/ p \in orphans /\ orphans' = orphans \ {p} /\ UNCHANGED held
    /\ UNCHANGED <<poolVars, fileVars, metaVars, commitVars, ckptVars, latest,
                   boundVars>>

\* A commit, from its first append to its acknowledgement (Engine.commit).
Commit ==
    /\ stage = "idle"
    /\ wal_size < MaxCommits
    /\ wal_size' = wal_size + 1
    /\ catalog' = catalog \cup {wal_size + 1}
    /\ UNCHANGED <<poolVars, callerVars, fileVars, metaVars, ckptVars, latest,
                   boundVars>>

-----------------------------------------------------------------------------
\* Engine.checkpoint, which does nothing when no page is dirty.

CheckpointStart ==
    /\ stage = "idle"
    /\ Dirty # {}
    /\ stage' = "flush"
    /\ covers' = [p \in PageId |-> Content(p)]
    /\ UNCHANGED <<poolVars, callerVars, fileVars, metaVars, commitVars,
                   last_done, latest, boundVars>>

\* The file with one more page written to it.
Written(entry) ==
    WithoutGaps([file EXCEPT ![entry.page_id] = GoodPage(entry.stamp)])

\* BufferPool.flush_all_dirty and HeapFile.write_page, page by page
FlushPage ==
    /\ stage = "flush"
    /\ Dirty # {}
    /\ file' = Written(pool[Min(Dirty)])
    /\ torn' = torn \ {pool[Min(Dirty)].page_id}
    /\ pool' = [pool EXCEPT ![Min(Dirty)].dirty = FALSE]
    /\ UNCHANGED <<next_page_id, callerVars, disk, torn_disk, metaVars,
                   commitVars, ckptVars, latest, boundVars>>

FlushDone ==
    /\ stage = "flush"
    /\ Dirty = {}
    /\ stage' = "sync"
    /\ UNCHANGED <<poolVars, callerVars, fileVars, metaVars, commitVars,
                   covers, last_done, latest, boundVars>>

SyncHeapMissing ==
    /\ stage = "sync"
    /\ stage' = "save"
    /\ UNCHANGED <<poolVars, callerVars, fileVars, metaVars, commitVars,
                   covers, last_done, latest, boundVars>>

\* HeapFile.sync
SyncHeap ==
    /\ stage = "sync"
    /\ disk' = file /\ torn_disk' = torn
    /\ stage' = "save"
    /\ UNCHANGED <<poolVars, callerVars, file, torn, metaVars, commitVars,
                   covers, last_done, latest, boundVars>>

\* Meta.save: write meta.tmp, fdatasync it, rename it, fsync the directory.
SaveTmp ==
    /\ stage = "save"
    /\ checkpoint_lsn' = wal_size
    /\ tmp_synced' = FALSE
    /\ stage' = "tmp"
    /\ UNCHANGED <<poolVars, callerVars, fileVars, meta, meta_disk, commitVars,
                   covers, last_done, latest, boundVars>>

SyncTmpMissing ==
    /\ stage = "tmp"
    /\ stage' = "rename"
    /\ UNCHANGED <<poolVars, callerVars, fileVars, metaVars, commitVars,
                   covers, last_done, latest, boundVars>>

SyncTmp ==
    /\ stage = "tmp"
    /\ tmp_synced' = TRUE
    /\ stage' = "rename"
    /\ UNCHANGED <<poolVars, callerVars, fileVars, meta, meta_disk,
                   checkpoint_lsn, commitVars, covers, last_done, latest,
                   boundVars>>

RenameTmp ==
    /\ stage = "rename"
    /\ meta' = [lsn |-> checkpoint_lsn, covers |-> covers,
                synced |-> tmp_synced]
    /\ stage' = "dir"
    /\ UNCHANGED <<poolVars, callerVars, fileVars, meta_disk, tmp_synced,
                   checkpoint_lsn, commitVars, covers, last_done, latest,
                   boundVars>>

SyncDirMissing ==
    /\ stage = "dir"
    /\ last_done' = checkpoint_lsn
    /\ stage' = "idle"
    /\ UNCHANGED <<poolVars, callerVars, fileVars, metaVars, commitVars,
                   covers, latest, boundVars>>

\* ... and checkpoint() returns.
SyncDir ==
    /\ stage = "dir"
    /\ meta_disk' = meta
    /\ last_done' = checkpoint_lsn
    /\ stage' = "idle"
    /\ UNCHANGED <<poolVars, callerVars, fileVars, meta, tmp_synced,
                   checkpoint_lsn, commitVars, covers, latest, boundVars>>

-----------------------------------------------------------------------------
\* Errors, crashes and restarts

\* A write, an fdatasync or the rename raises OSError: checkpoint() raises.
CheckpointRaises ==
    /\ stage \notin {"down", "idle"}
    /\ Incident("error")
    /\ stage' = "idle"
    /\ UNCHANGED <<poolVars, callerVars, fileVars, metaVars, commitVars,
                   covers, last_done, latest, changes>>

ProcessEnds ==
    /\ stage' = "down"
    /\ pool' = << >> /\ next_page_id' = 0
    /\ held' = {} /\ orphans' = {}
    /\ catalog' = {}
    /\ UNCHANGED <<tmp_synced, checkpoint_lsn, wal_size, covers, last_done,
                   latest, changes>>

\* The process is killed: the files are what it made of them.
Kill ==
    /\ stage # "down"
    /\ Incident("kill")
    /\ ProcessEnds
    /\ UNCHANGED <<fileVars, meta, meta_disk>>

\* What becomes of the page b when the first half of page n is written to
\* its place: a page, if the two have the same second half.
Halves(b, n) ==
    IF b.kind \in {"none", "half"} THEN {HalfPage}
    ELSE IF b = GoodPage(n) THEN {b}
    ELSE {BadPage, GoodPage(n)}

\* The fault point "during_heap_page_write": half a page is written.
TornWrite ==
    /\ stage = "flush"
    /\ Dirty # {}
    /\ Incident("torn")
    /\ ProcessEnds
    /\ LET e == pool[Min(Dirty)]
       IN  /\ \E b \in Halves(file[e.page_id], e.stamp) :
                 file' = WithoutGaps([file EXCEPT ![e.page_id] = b])
           /\ torn' = torn \cup {e.page_id}
    /\ UNCHANGED <<disk, torn_disk, meta, meta_disk>>

\* The machine goes down: each page written since the last fdatasync is on
\* the disk or is not, and a rename counts only if the directory was synced
\* or happens to have been written.
PowerLoss ==
    /\ Incident("power")
    /\ ProcessEnds
    /\ \E lost \in SUBSET PageId :
         /\ file' = WithoutGaps([p \in PageId |-> IF p \in lost THEN disk[p]
                                                                ELSE file[p]])
         /\ torn' = (torn \ lost) \cup (torn_disk \cap lost)
    /\ disk' = file' /\ torn_disk' = torn'
    /\ \/ meta' = Loadable(meta_disk)
       \/ meta' = Loadable(meta)
    /\ meta_disk' = meta'

\* Engine.__init__: Meta.load, a new BufferPool, and the replay of what the
\* log holds from checkpoint_lsn on.
Restart ==
    /\ stage = "down"
    /\ stage' = "idle"
    /\ checkpoint_lsn' = meta.lsn
    /\ catalog' = {n \in 1 .. wal_size : n > meta.lsn}
    /\ latest' = [p \in PageId |-> file[p].stamp]
    /\ UNCHANGED <<poolVars, callerVars, fileVars, meta, meta_disk, tmp_synced,
                   wal_size, covers, last_done, boundVars>>

-----------------------------------------------------------------------------
PoolCall ==
    \/ NewPage
    \/ \E p \in PageId :
          \/ GetCached(p) \/ GetFromFile(p) \/ GetCorrupt(p)
          \/ Change(p) \/ MakeDirty(p) \/ Release(p)

Checkpoint ==
    \/ CheckpointStart \/ FlushPage \/ FlushDone \/ SyncHeap
    \/ SaveTmp \/ SyncTmp \/ RenameTmp \/ SyncDir

Crash == CheckpointRaises \/ Kill \/ TornWrite \/ PowerLoss

Next == PoolCall \/ Commit \/ Checkpoint \/ Crash \/ Restart

Spec == Init /\ [][Next]_vars
=============================================================================
