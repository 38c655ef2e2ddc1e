------------------------------ MODULE MCChecker ------------------------------
(***************************************************************************)
(* The instances of CheckerProperties that TLC checks.  Transactions and   *)
(* keys are interchangeable.                                               *)
(***************************************************************************)
EXTENDS CheckerProperties, TLC

Symmetry == Permutations(Txn) \cup Permutations(Key)
=============================================================================
