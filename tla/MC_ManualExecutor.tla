------------------------- MODULE MC_ManualExecutor -------------------------
(***************************************************************************)
(* Small instances of ManualExecutor for TLC.                              *)
(***************************************************************************)
EXTENDS ManualExecutor
=============================================================================
