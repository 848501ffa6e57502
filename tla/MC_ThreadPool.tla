--------------------------- MODULE MC_ThreadPool ---------------------------
(***************************************************************************)
(* A small instance of ThreadPool for TLC.                                 *)
(***************************************************************************)
EXTENDS ThreadPool

OnePool == {"pool"}
=============================================================================
