-------------------------- MODULE MC_WorkerThread --------------------------
(***************************************************************************)
(* A small instance of WorkerThread for TLC.                               *)
(***************************************************************************)
EXTENDS WorkerThread
=============================================================================
