------------------------------ MODULE MCConsole ------------------------------
(***************************************************************************)
(* Instances of ConsoleProperties for TLC.  Sessions and keys are          *)
(* interchangeable.                                                        *)
(***************************************************************************)
EXTENDS ConsoleProperties, TLC

\* A redo record and a COMMIT of an id that transactions have, of another one's
\* timestamp.
SomeGarbage ==
    {Record("put", 1, 2, k, None, CommitSize) : k \in Key}
        \cup {Record("commit", 1, 2, None, None, CommitSize)}

Symmetry == Permutations(Session) \cup Permutations(Key)
=============================================================================
