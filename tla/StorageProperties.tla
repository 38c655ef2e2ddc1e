-------------------------- MODULE StorageProperties --------------------------
(***************************************************************************)
(* What the page storage of KilnDB is to get right.                        *)
(***************************************************************************)
EXTENDS Storage

\* The type invariant; the pool's dictionary has one page per id (Put), the
\* caller's objects are in it (BufferPool.get_page), and no page is dirty once
\* flush_all_dirty has gone over them all.
TypeOK ==
    /\ pool \in Seq(Entry)
    /\ Cardinality(IdsOf(pool)) = Len(pool)
    /\ next_page_id \in 0 .. PageLimit
    /\ held \subseteq IdsOf(pool) /\ orphans \subseteq PageId
    /\ file \in [PageId -> Blocks] /\ disk \in [PageId -> Blocks]
    /\ torn \subseteq PageId /\ torn_disk \subseteq PageId
    /\ {meta, meta_disk} \subseteq
          [lsn : Nat, covers : [PageId -> Nat], synced : BOOLEAN]
    /\ tmp_synced \in BOOLEAN
    /\ stage \in Stages
    /\ {checkpoint_lsn, wal_size, last_done, changes, incidents} \subseteq Nat
    /\ catalog \subseteq 1 .. wal_size
    /\ covers \in [PageId -> Nat] /\ latest \in [PageId -> Nat]
    /\ stage \in {"sync", "save", "tmp", "rename", "dir"} => Dirty = {}

\* get_page shows a page as the last change made through this process's pages
\* left it: eviction (BufferPool._maybe_evict), the flush, and failed
\* checkpoints in between lose no change.
ReadsLatest ==
    stage # "down" =>
        \A p \in PageId :
            InPool(p) \/ file[p].kind # "bad" => Content(p) = latest[p]

\* BufferPool._maybe_evict lets the pool grow past max_pages only when there
\* is no clean page that could have made room.
GrowsOnlyWhenDirty ==
    [][Len(pool') > Len(pool) /\ Len(pool) >= MaxPages
          => Dirty = 1 .. Len(pool)]_vars

\* Whatever meta says was checkpointed is readable in heap.db, as it was then
\* or newer, unless what is at the page's place was left by a torn write:
\* Engine.checkpoint syncs the pages before Meta.save replaces meta, and a
\* crash of the process or of the machine at any point, an I/O error and a
\* second attempt do not change that.
CheckpointOnDisk ==
    \A p \in PageId \ torn :
        meta.covers[p] > 0 =>
            file[p].kind = "good" /\ file[p].stamp >= meta.covers[p]

\* Recovery starts at the last checkpoint that returned, or a later one: the
\* file meta is never half-written, missing or older than that (Meta.save,
\* Meta.load).
CheckpointKept == stage # "down" => checkpoint_lsn >= last_done

\* What is committed is served: Engine._recover rebuilds the catalog whole.
CommitsServed == stage = "idle" => catalog = 1 .. wal_size
=============================================================================
