------------------------------ MODULE MCEngine ------------------------------
(***************************************************************************)
(* Instances of Engine for TLC.  Transactions and keys are interchangeable *)
(* (every quantifier over them is unordered), so the runs without liveness *)
(* use both symmetries.                                                    *)
(***************************************************************************)
EXTENDS EngineProperties, TLC

Symmetry == Permutations(Txn) \cup Permutations(Key)
=============================================================================
