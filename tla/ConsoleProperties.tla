------------------------- MODULE ConsoleProperties -------------------------
(***************************************************************************)
(* What the web console keeps of the engine's promises: all of them while  *)
(* one page is open at a time, and to each session its own when there are  *)
(* several.                                                                *)
(***************************************************************************)
EXTENDS Console

\* Every field holds a value the code can give it.
TypeOK ==
    /\ live \in 0 .. Len(logs)
    /\ stage \in [Session -> Stages]
    /\ \A s \in Session :
          /\ HasEngine(s) => engine[s].file \in 1 .. Len(logs)
          /\ stage[s] \in {"redo", "sync"} =>
                txn_of[s].active /\ txn_of[s].writer \in 1 .. Len(commits)
    /\ Range(acked) \subseteq 1 .. Len(commits)
    /\ wiped \subseteq Range(acked)
    /\ shared \in BOOLEAN

\* The places, in a list of commits, of those that wrote key k.
WritesOf(list, k) == {i \in 1 .. Len(list) : k \in Written(commits[list[i]])}

\* What a get of k answers when the last of these places has the last write.
ResultAt(list, places, k) ==
    LET c == list[Max(places)]
    IN  IF places = {} \/ commits[c].write_set[k] = "del" THEN None ELSE c

(***************************************************************************)
(* With one page open at a time the console is one store: a transaction    *)
(* begun now reads the last commit to a key that was answered OK and not   *)
(* wiped, whichever page it was given on.                                  *)
(***************************************************************************)
OnePageIsOneStore ==
    ~ shared => \A s \in Session, k \in Key :
        stage[s] = "idle" =>
            LET kept == {i \in WritesOf(acked, k) : acked[i] \notin wiped}
            IN  Read(s, k, Snapshot(s)) = ResultAt(acked, kept, k)

\* The console gives a session one transaction at a time, so COMMIT is never
\* refused for a conflict unless another page had an engine as well.
ConflictsOnlyIfShared ==
    \A s \in Session : InTxn(s) /\ Conflicts(s, txn_of[s]) => shared

(***************************************************************************)
(* Whatever the file was when a session's engine opened it (damaged, and   *)
(* read differently by the two passes) and whatever other sessions do to   *)
(* it since, of the keys the session wrote with this engine it reads what  *)
(* it committed last: a version that recovery made, of whatever timestamp  *)
(* it read there, never takes the place of the session's own.              *)
(***************************************************************************)
OwnCommitsServed ==
    \A s \in Session, k \in Key :
        LET mine == WritesOf(own[s], k)
        IN  stage[s] = "idle" /\ mine # {} =>
                Read(s, k, Snapshot(s)) = ResultAt(own[s], mine, k)

(***************************************************************************)
(* A reset is for good: an engine that was opened after it serves nothing  *)
(* that was committed before it, although sessions that had the directory  *)
(* open keep writing to the files that were removed.                       *)
(***************************************************************************)
WipedStaysWiped ==
    \A s \in Session, k \in Key : \A i \in 1 .. Len(engine[s].catalog[k]) :
        engine[s].catalog[k][i].writer \notin wiped_before[s]

(***************************************************************************)
(* A commit that was answered OK stays in the log it was written to        *)
(* (wal.py: opening truncates the file "if a torn record is found").       *)
(***************************************************************************)
AckedStaysInLog ==
    \A c \in Range(acked) :
        \E r \in Range(logs[commits[c].file]) :
            r.type = "commit" /\ r.writer = c
=============================================================================
