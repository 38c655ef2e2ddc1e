-------------------------- MODULE CheckerProperties --------------------------
(***************************************************************************)
(* What the checker's verdicts are worth.                                  *)
(***************************************************************************)
EXTENDS RecordedStore

\* Did a transaction write k whose commit nobody heard of?  Concept.md says
\* that recovery may show it and that "the checker uses this rule", but an
\* alarm is what the checker raises.
Unheard(k) == \E t \in unheard : write_set[t][k] # "none"

(***************************************************************************)
(* No false alarm: on a history of a store without a flaw, four of the     *)
(* checks are silent (Checker.check: "Empty list = PASS"), but for what    *)
(* the unacknowledged commit wrote that survived the crash.                *)
(***************************************************************************)
NoFalseAlarm ==
    ~ Recovering /\ flaws = {} =>
        /\ \A k \in CheckDurability(history) : Unheard(k)
        /\ \A c \in CheckAtomicity(history) : c[1] \in unheard
        /\ \A i \in CheckSnapshotReads(history)
                  \cup CheckNoDirtyRead(history) : Unheard(history[i].key)

(***************************************************************************)
(* The fifth, _check_lost_update, does raise false alarms: with the        *)
(* engine's timestamps, of every update that began right after another     *)
(* commit.  Without a conflict that the store let pass, it complains of    *)
(* nothing else.                                                           *)
(***************************************************************************)
LostUpdateAlarms ==
    "conflict" \notin flaws =>
        \A c \in CheckLostUpdate(history) :
            CommitTs(history, c[2]) = StartTs(history, c[3])

(***************************************************************************)
(* No miss: every kind of flaw is reported by the check that is there for  *)
(* it, whatever else is in the history; after a crash that a commit        *)
(* survived unheard, nobody can tell what the recovered state should be.   *)
(***************************************************************************)
FlawsAreReported ==
    ~ Recovering =>
        /\ "misread" \in flaws /\ unheard = {} =>
              CheckSnapshotReads(history) # {}
        /\ "conflict" \in flaws =>
              \E c \in CheckLostUpdate(history) :
                 CommitTs(history, c[2]) > StartTs(history, c[3])
        /\ "lost" \in flaws /\ unheard = {} => CheckDurability(history) # {}
        /\ "ghost" \in flaws /\ unheard = {} => CheckAtomicity(history) # {}

\* A dirty read is always a snapshot violation as well: _check_no_dirty_read
\* finds nothing that _check_snapshot_reads does not.
DirtyReadsAreMisreads ==
    CheckNoDirtyRead(history) \subseteq CheckSnapshotReads(history)
=============================================================================
