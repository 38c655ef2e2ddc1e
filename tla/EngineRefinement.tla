-------------------------- MODULE EngineRefinement --------------------------
(***************************************************************************)
(* Engine implements SnapshotStore.  A commit happens when commit() has    *)
(* synced it or, if the process ends first, then: a COMMIT record that is  *)
(* still in the log is replayed by the next process.  Timestamps are the   *)
(* numbers of commits, so start_ts is how many of them a snapshot has.     *)
(*                                                                         *)
(* It does so for a single caller (begin() during another thread's commit  *)
(* takes a snapshot that moves: run update_in_commit) and until a redo     *)
(* record is left behind without its COMMIT for a restart to find that     *)
(* comes after the id was given out again (run ghost_redo).  No fault      *)
(* point leaves one, and a single crash of any other kind is not enough.   *)
(***************************************************************************)
EXTENDS Engine

\* t's commit is one that readers may see, or a recovery will find.
Happened(t) ==
    /\ \E i \in 1 .. Len(wal) : wal[i].type = "COMMIT" /\ wal[i].writer = t
    /\ stage = "sync" => t # committer

\* Who committed as the n-th.
Committer(n) == CHOOSE t \in Txn : Happened(t) /\ commit_ts[t] = n

\* The commits of the store.
StoreCommits ==
    [n \in {commit_ts[t] : t \in {u \in Txn : Happened(u)}} |->
        [writer |-> Committer(n), writes |-> write_set[Committer(n)]]]

Store == INSTANCE SnapshotStore
            WITH commits  <- StoreCommits,
                 snapshot <- start_ts,
                 status   <- state,
                 writes   <- write_set,
                 reads    <- observed

(***************************************************************************)
(* Whatever a caller of the engine sees, before and after its restarts, a  *)
(* caller of the store could have seen.                                    *)
(***************************************************************************)
ImplementsStore == Store!Spec
=============================================================================
