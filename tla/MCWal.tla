-------------------------------- MODULE MCWal --------------------------------
(***************************************************************************)
(* The instance of WalProperties that TLC checks: see log_bytes.cfg.       *)
(***************************************************************************)
EXTENDS WalProperties
=============================================================================
