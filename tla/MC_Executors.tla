----------------------------- MODULE MC_Executors -----------------------------
(***************************************************************************)
(* The runtime, thread_executor and the idle workers of a thread pool.     *)
(* They share no variable, so nothing is lost when one of them moves only  *)
(* while the two others are as they began: every behaviour of each is      *)
(* there, and the states of the three are added, not multiplied.  No fair  *)
(* step of any of them can be taken where it begins.                       *)
(***************************************************************************)
EXTENDS MC_Runtime, ThreadExecutor, IdleWorkerSet

ExecutorsInit == RuntimeInit /\ Init /\ IdleInit

ExecutorsNext ==
    \/ RuntimeNext /\ Init /\ IdleInit /\ UNCHANGED <<vars, idleVars>>
    \/ Next /\ RuntimeInit /\ IdleInit /\ UNCHANGED <<runtimeVars, idleVars>>
    \/ IdleNext /\ RuntimeInit /\ Init /\ UNCHANGED <<runtimeVars, vars>>

ExecutorsSpec ==
    /\ ExecutorsInit /\ [][ExecutorsNext]_<<runtimeVars, vars, idleVars>>
    /\ Fairness
    /\ \A t \in Tasks : WF_vars(ThreadStep(t))
    /\ WF_vars(ShutdownStep)

=============================================================================
