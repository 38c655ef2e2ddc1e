------------------------------ MODULE MCStorage ------------------------------
(***************************************************************************)
(* The instances of StorageProperties that TLC checks.                     *)
(***************************************************************************)
EXTENDS StorageProperties
=============================================================================
