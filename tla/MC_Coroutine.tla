----------------------------- MODULE MC_Coroutine -----------------------------
(* One result of every kind, or one coroutine without a result: they do not   *)
(* share state, so one shows what all of them do.                             *)
EXTENDS Coroutine

=============================================================================
