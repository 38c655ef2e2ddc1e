---------------------------- MODULE MCExperiments ----------------------------
(***************************************************************************)
(* The instance of ExperimentsProperties that TLC checks.                  *)
(***************************************************************************)
EXTENDS ExperimentsProperties, TLC

CONSTANTS s1, s2, balance

\* One user enters the key that the worker uses, the other one no value.  (The
\* chaos loop has an ordinary key and value.)
UserInputs ==
    {[s \in Session |-> IF s = s1 THEN <<CrashKey, "val">> ELSE <<balance, "">>]}

PickedFaults ==
    [s \in Session |->
        IF s = s1 THEN FAULT_POINTS ELSE {"during_wal_append"}]

\* A redo record of an id that transactions have.
SomeGarbage == {Record("put", 1, 2, balance, None, CommitSize)}

(***************************************************************************)
(* The next step of session s is one of its own, of its engine's memory:   *)
(* it commutes with every step of the other sessions, and no property      *)
(* reads two sessions' memory.  So it may be taken at once.                *)
(***************************************************************************)
IsPrivate(s) ==
    \/ stage[s] = "sync"
    \/ stage[s] = "idle" /\ phase[s] = "worker"
    \/ stage[s] = "idle" /\ phase[s] = "baseline" /\ ~ Refused(s)

Moves(s) == <<phase[s], stage[s], engine[s]>>' # <<phase[s], stage[s], engine[s]>>

PrivateFirst ==
    (\E s \in Session : IsPrivate(s)) => \E s \in Session : IsPrivate(s) /\ Moves(s)
=============================================================================
