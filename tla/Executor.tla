------------------------------ MODULE Executor ------------------------------
(***************************************************************************)
(* What every executor promises, whatever its threads and queues: a task   *)
(* that is accepted is run once, or destroyed without having run because   *)
(* the executor was shut down (or cleared, where it can be); once shutdown *)
(* has returned nothing is pending, nothing is accepted or started, and    *)
(* (where the threads are the executor's own) nothing runs.                *)
(***************************************************************************)

CONSTANTS
    Tasks,
    Clearable,      \* pending tasks may be destroyed at any time
    Joins           \* shutdown waits for the tasks that are running

VARIABLES
    task,           \* where each task is in its life
    phase           \* "open", "closing" once shutdown was called, "closed" once it returned

vars == <<task, phase>>

States == {"none", "pending", "running", "ran", "dropped"}
Phases == {"open", "closing", "closed"}

Init ==
    /\ task = [t \in Tasks |-> "none"]
    /\ phase = "open"

\* The steps a task may take: accepted, started, ended; refused, destroyed.
Life == {<<"none", "pending">>, <<"pending", "running">>, <<"running", "ran">>}
Refusal == {<<"none", "dropped">>}
Destruction == {<<"pending", "dropped">>}

Allowed(p) ==
    IF p = "closed" THEN Refusal \cup IF Joins THEN {} ELSE {<<"running", "ran">>}
    ELSE IF p = "closing" THEN Life \cup Refusal \cup Destruction
    ELSE Life \cup IF Clearable THEN Destruction ELSE {}

TasksMove ==
    /\ task' \in [Tasks -> States]
    /\ \A t \in Tasks : task'[t] # task[t] => <<task[t], task'[t]>> \in Allowed(phase)

Work == TasksMove /\ UNCHANGED phase

ShutdownCalled == phase = "open" /\ phase' = "closing" /\ UNCHANGED task

ShutdownReturns ==
    /\ phase = "closing" /\ phase' = "closed"
    /\ TasksMove
    /\ \A t \in Tasks : task'[t] # "pending" /\ (Joins => task'[t] # "running")

Next == Work \/ ShutdownCalled \/ ShutdownReturns

Spec == Init /\ [][Next]_vars

=============================================================================
