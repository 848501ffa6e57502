------------------------------ MODULE MC_Runtime ------------------------------
(* Executors of each kind, two pools, and two coroutines that meet in them.   *)
EXTENDS Runtime

CONSTANTS inline_executor, thread_pool, background, manual, c1, c2

BuiltinInOrder == <<inline_executor, thread_pool, background>>

=============================================================================
