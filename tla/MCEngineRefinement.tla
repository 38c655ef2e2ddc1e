------------------------- MODULE MCEngineRefinement -------------------------
(***************************************************************************)
(* Instances of EngineRefinement, and of the properties that hold only     *)
(* where it does, for TLC.                                                 *)
(***************************************************************************)
EXTENDS EngineRefinement, EngineProperties, TLC

Symmetry == Permutations(Txn) \cup Permutations(Key)
=============================================================================
