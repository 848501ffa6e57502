--------------------------- MODULE ThreadExecutor ---------------------------
(***************************************************************************)
(* thread_executor: a thread for each task.  A thread that is done takes   *)
(* its own handle out of m_workers, leaves it in m_last_retired and joins  *)
(* the one that it found there, so that joining the last one joins all.    *)
(*                                                                         *)
(* A thread has the number of its task.  A step is one critical section of *)
(* m_lock, or what a thread does outside of it.                            *)
(***************************************************************************)
EXTENDS Naturals, FiniteSets

CONSTANTS
    MaxTasks,       \* how many tasks are made; tasks are numbered as they are
    MaxSpan,        \* the largest number of tasks in one call of enqueue
    ThreadsMayFail  \* std::thread may throw system_error

ASSUME BoundsAreNat == MaxTasks \in Nat /\ MaxSpan \in Nat /\ ThreadsMayFail \in BOOLEAN

Tasks == 1 .. MaxTasks

VARIABLES
    m_workers, m_last_retired,      \* sets of threads
    m_abort, m_atomic_abort,
    thread,         \* where each thread is
    last_retired,   \* what its retire_worker took out of m_last_retired
    joined,         \* the threads that were joined
    made,           \* the number of tasks made so far
    shut            \* where the first call of shutdown is

lists == <<m_workers, m_last_retired>>
vars == <<lists, m_abort, m_atomic_abort, thread, last_retired, joined, made, shut>>

\* "dropped": the task was refused.  "failed": enqueue threw before it had a thread.
ThreadLabels ==
    {"none", "start", "task", "retire", "notify", "join", "ended", "dropped", "failed"}
ShutdownLabels == {"no", "lock", "sleep", "join", "done"}

\* The lists hold one thread at most where the code asserts it.
TypeOK ==
    /\ m_workers \subseteq Tasks
    /\ m_last_retired \subseteq Tasks /\ Cardinality(m_last_retired) <= 1
    /\ m_abort \in BOOLEAN /\ m_atomic_abort \in BOOLEAN
    /\ thread \in [Tasks -> ThreadLabels]
    /\ last_retired \in [Tasks -> SUBSET Tasks]
    /\ \A t \in Tasks : Cardinality(last_retired[t]) <= 1
    /\ joined \subseteq Tasks
    /\ made \in 0 .. MaxTasks
    /\ shut \in ShutdownLabels

Init ==
    /\ m_workers = {} /\ m_last_retired = {}
    /\ m_abort = FALSE /\ m_atomic_abort = FALSE
    /\ thread = [t \in Tasks |-> "none"]
    /\ last_retired = [t \in Tasks |-> {}]
    /\ joined = {}
    /\ made = 0
    /\ shut = "no"

\* shutdown joins the last thread with m_lock in its hands.
LockFree == shut # "join"

Goes(t, from, to) == thread[t] = from /\ thread' = [thread EXCEPT ![t] = to]

-----------------------------------------------------------------------------

\* The k-1 first tasks get a thread, the constructor of the k-th one throws after
\* its handle was put in m_workers (k > n: none throws; k = 0: all are refused).
enqueue_impl(n, k) ==
    LET here(i) == IF i < k THEN "start" ELSE IF k = 0 THEN "dropped" ELSE "failed"
    IN  /\ thread' = [t \in Tasks |-> IF t \in made + 1 .. made + n THEN here(t - made)
                                      ELSE thread[t]]
        /\ m_workers' = m_workers \cup {t \in made + 1 .. made + n : t - made <= k}

\* Called from any thread, a task of this executor included.
enqueue(n) ==
    /\ LockFree
    /\ made + n <= MaxTasks
    /\ made' = made + n
    /\ \/ m_abort /\ enqueue_impl(n, 0)
       \/ ~m_abort /\ enqueue_impl(n, n + 1)
       \/ ~m_abort /\ ThreadsMayFail /\ \E k \in 1 .. n : enqueue_impl(n, k)
    /\ UNCHANGED <<m_last_retired, m_abort, m_atomic_abort, last_retired, joined, shut>>

run_task(t) ==
    /\ Goes(t, "start", "task")
    /\ UNCHANGED <<lists, m_abort, m_atomic_abort, last_retired, joined, made, shut>>

task_done(t) ==
    /\ Goes(t, "task", "retire")
    /\ UNCHANGED <<lists, m_abort, m_atomic_abort, last_retired, joined, made, shut>>

\* Mutant: the handle found in m_last_retired is destroyed.
retire_worker_lost(t) ==
    /\ LockFree
    /\ Goes(t, "retire", "notify")
    /\ m_last_retired' = {t}
    /\ m_workers' = m_workers \ {t}
    /\ UNCHANGED <<m_abort, m_atomic_abort, last_retired, joined, made, shut>>

\* Mutant: the splice comes before the move, so the thread joins itself.
retire_worker_swapped(t) ==
    /\ LockFree
    /\ Goes(t, "retire", "notify")
    /\ last_retired' = [last_retired EXCEPT ![t] = {t}]
    /\ m_last_retired' = {}
    /\ m_workers' = m_workers \ {t}
    /\ UNCHANGED <<m_abort, m_atomic_abort, joined, made, shut>>

retire_worker(t) ==
    /\ LockFree
    /\ Goes(t, "retire", "notify")
    /\ last_retired' = [last_retired EXCEPT ![t] = m_last_retired]
    /\ m_last_retired' = {t}
    /\ m_workers' = m_workers \ {t}
    /\ UNCHANGED <<m_abort, m_atomic_abort, joined, made, shut>>

retire_notify(t) ==
    /\ Goes(t, "notify", IF last_retired[t] = {} THEN "ended" ELSE "join")
    /\ shut' = IF shut = "sleep" THEN "lock" ELSE shut
    /\ UNCHANGED <<lists, m_abort, m_atomic_abort, last_retired, joined, made>>

Ended(threads) == \A t \in threads : thread[t] = "ended"

retire_join(t) ==
    /\ Ended(last_retired[t])
    /\ Goes(t, "join", "ended")
    /\ joined' = joined \cup last_retired[t]
    /\ last_retired' = [last_retired EXCEPT ![t] = {}]
    /\ UNCHANGED <<lists, m_abort, m_atomic_abort, made, shut>>

-----------------------------------------------------------------------------

shutdown ==
    /\ shut = "no" /\ shut' = "lock"
    /\ m_atomic_abort' = TRUE
    /\ UNCHANGED <<lists, m_abort, thread, last_retired, joined, made>>

\* Mutant: shutdown does not wait for m_workers to be empty.
shutdown_lock_hasty ==
    /\ shut = "lock"
    /\ m_abort' = TRUE
    /\ shut' = IF m_last_retired = {} THEN "done" ELSE "join"
    /\ UNCHANGED <<lists, m_atomic_abort, thread, last_retired, joined, made>>

\* m_condition.wait with its predicate.
shutdown_lock ==
    /\ shut = "lock"
    /\ m_abort' = TRUE
    /\ shut' = IF m_workers # {} THEN "sleep" ELSE IF m_last_retired = {} THEN "done" ELSE "join"
    /\ UNCHANGED <<lists, m_atomic_abort, thread, last_retired, joined, made>>

shutdown_spurious ==
    /\ shut = "sleep" /\ shut' = "lock"
    /\ UNCHANGED <<lists, m_abort, m_atomic_abort, thread, last_retired, joined, made>>

shutdown_join ==
    /\ shut = "join" /\ shut' = "done"
    /\ Ended(m_last_retired)
    /\ joined' = joined \cup m_last_retired
    /\ m_last_retired' = {}
    /\ UNCHANGED <<m_workers, m_abort, m_atomic_abort, thread, last_retired, made>>

-----------------------------------------------------------------------------

ThreadStep(t) ==
    run_task(t) \/ task_done(t) \/ retire_worker(t) \/ retire_notify(t) \/ retire_join(t)

ShutdownStep == shutdown_lock \/ shutdown_join

Next ==
    \/ \E n \in 1 .. MaxSpan : enqueue(n)
    \/ \E t \in Tasks : ThreadStep(t)
    \/ shutdown \/ ShutdownStep \/ shutdown_spurious

Spec == Init /\ [][Next]_vars

\* The system runs every thread, tasks end, and shutdown goes on.
FairSpec == Spec /\ (\A t \in Tasks : WF_vars(ThreadStep(t))) /\ WF_vars(ShutdownStep)

-----------------------------------------------------------------------------
(* Properties.                                                             *)

In(t, list) == IF t \in list THEN 1 ELSE 0

Started == {t \in Tasks : thread[t] \notin {"none", "dropped", "failed"}}

\* A thread handle is in one place until the thread is joined, and is joined
\* once: a std::thread that is destroyed unjoined ends the program.
OneHandle ==
    \A t \in Started :
        Cardinality({u \in Tasks : t \in last_retired[u]}) + In(t, m_workers) + In(t, m_last_retired)
            = 1 - In(t, joined)

\* shutdown is not left asleep by the last thread that retires (notify_one
\* comes after the unlock).
NoLostNotify == shut = "sleep" /\ m_workers = {} => \E t \in Tasks : thread[t] = "notify"

\* Once shutdown has returned, every thread ever started has ended, although
\* shutdown itself has joined one of them only.
ShutdownJoinsAll == shut = "done" => Ended(Started) /\ Started \subseteq joined

\* The above together: m_last_retired and the chain of joins keep exactly one
\* handle of each thread, and shutdown waits for the end of the chain.
Inv == TypeOK /\ OneHandle /\ NoLostNotify /\ ShutdownJoinsAll

TaskState ==
    [t \in Tasks |->
        IF thread[t] \in {"none", "failed"} THEN "none"
        ELSE IF thread[t] = "dropped" THEN "dropped"
        ELSE IF thread[t] = "start" THEN "pending"
        ELSE IF thread[t] = "task" THEN "running" ELSE "ran"]

Phase == IF shut = "no" THEN "open" ELSE IF shut = "done" THEN "closed" ELSE "closing"

E == INSTANCE Executor WITH task <- TaskState, phase <- Phase, Clearable <- FALSE, Joins <- TRUE

\* The thread executor is an executor: a task that was accepted is run once, on a
\* thread that shutdown waits for.  A task whose enqueue threw was not accepted.
ImplementsExecutor == E!Spec

\* In the end (finitely many tasks are made) every thread that was started has
\* ended: none waits for ever for the one it joins, as the chain of retire_worker
\* has no cycle.  And shutdown, if it was called, has returned, unless the handle
\* of a thread that could not be started stays in m_workers.
ThreadsAndShutdownEnd ==
    <>[](/\ Ended(Started)
         /\ shut \in {"no", "done"} \/ \E t \in Tasks : thread[t] = "failed")

=============================================================================
