------------------------------- MODULE MCPage -------------------------------
(***************************************************************************)
(* The instance of Page that TLC checks: see page_layout.cfg.              *)
(***************************************************************************)
EXTENDS Page
=============================================================================
