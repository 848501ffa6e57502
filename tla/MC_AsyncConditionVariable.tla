--------------------- MODULE MC_AsyncConditionVariable ---------------------
(***************************************************************************)
(* Small instances of AsyncConditionVariable for TLC.                      *)
(***************************************************************************)
EXTENDS AsyncConditionVariable
=============================================================================
