---------------------------- MODULE WorkerThread ----------------------------
(***************************************************************************)
(* worker_thread_executor: one thread, started by the first enqueuer, that *)
(* drains a public queue into a private one, and shutdown.                 *)
(*                                                                         *)
(* A step is one critical section of m_lock, or one access to an atomic or *)
(* to the semaphore outside of it.  The tasks are the ones of post and     *)
(* submit, which swallow what they throw.                                  *)
(***************************************************************************)
EXTENDS Naturals, Sequences, Functions

CONSTANTS
    Clients,        \* threads other than the executor's
    MaxTasks,       \* how many tasks are made; tasks are numbered as they are
    MaxSpan         \* the longest span that is enqueued

Tasks == 1 .. MaxTasks
Null == 0
MaxTokens == 2      \* how far a binary_semaphore that is over-released counts

ASSUME BoundsAreNat == MaxTasks \in Nat /\ MaxSpan \in Nat

VARIABLES
    m_private_queue, m_public_queue,
    m_private_atomic_abort, m_abort,
    sem,            \* the count of m_semaphore
    pc,             \* the executor's thread, "none" before it is started
    running,        \* the task it has in hand
    owes,           \* the clients that have still to release the semaphore
    made,           \* the number of tasks made so far
    local,          \* those made by tasks of the executor
    ran,            \* the tasks that were run, in this order
    dropped,        \* the tasks destroyed without being run, in this order
    shut            \* where the first call of shutdown is

queues == <<m_private_queue, m_public_queue>>
aborts == <<m_private_atomic_abort, m_abort>>
vars == <<queues, aborts, sem, pc, running, owes, made, local, ran, dropped, shut>>

\* The state of the executor: the queues hold tasks that were made, and the
\* semaphore is neither acquired below 0 nor released past MaxTokens.
TypeOK ==
    /\ m_private_queue \in Seq(Tasks) /\ m_public_queue \in Seq(Tasks)
    /\ m_private_atomic_abort \in BOOLEAN /\ m_abort \in BOOLEAN
    /\ sem \in 0 .. MaxTokens
    /\ pc \in {"none", "drain", "acquire", "woken", "pop", "popped", "task", "ended"}
    /\ running \in Tasks \cup {Null}
    /\ owes \subseteq Clients
    /\ made \in 0 .. MaxTasks /\ local \subseteq Tasks
    /\ ran \in Seq(Tasks) /\ dropped \in Seq(Tasks)
    /\ shut \in {"no", "lock", "store", "release", "join", "done"}

Init ==
    /\ m_private_queue = <<>> /\ m_public_queue = <<>>
    /\ m_private_atomic_abort = FALSE /\ m_abort = FALSE
    /\ sem = 0
    /\ pc = "none"
    /\ running = Null
    /\ owes = {}
    /\ made = 0 /\ local = {}
    /\ ran = <<>> /\ dropped = <<>>
    /\ shut = "no"

\* A binary semaphore that is released at count 1 saturates in some standard
\* libraries and counts on in others.
Release ==
    \/ sem' = 1
    \/ sem \in 1 .. MaxTokens - 1 /\ sem' = sem + 1

Goes(from, to) == pc = from /\ pc' = to

-----------------------------------------------------------------------------
(* The executor's thread.                                                  *)

\* Mutant: the public queue is copied instead of swapped.
drain_queue_copied ==
    /\ pc \in {"drain", "woken"}
    /\ IF m_abort THEN pc' = "ended" /\ UNCHANGED queues
       ELSE IF m_public_queue = <<>> THEN pc' = "acquire" /\ UNCHANGED queues
       ELSE pc' = "pop" /\ m_private_queue' = m_public_queue /\ UNCHANGED m_public_queue
    /\ UNCHANGED <<aborts, sem, running, owes, made, local, ran, dropped, shut>>

\* drain_queue takes the lock, at first or after wait_for_task was woken.
drain_queue ==
    /\ pc \in {"drain", "woken"}
    /\ IF m_abort THEN pc' = "ended" /\ UNCHANGED queues
       ELSE IF m_public_queue = <<>> THEN pc' = "acquire" /\ UNCHANGED queues
       ELSE /\ pc' = "pop"
            /\ m_private_queue' = m_public_queue
            /\ m_public_queue' = m_private_queue
    /\ UNCHANGED <<aborts, sem, running, owes, made, local, ran, dropped, shut>>

acquire ==
    /\ Goes("acquire", "woken")
    /\ sem > 0
    /\ sem' = sem - 1
    /\ UNCHANGED <<queues, aborts, running, owes, made, local, ran, dropped, shut>>

\* Mutant: the last task is taken instead of the first.
pop_front_lifo ==
    /\ IF m_private_queue = <<>>
       THEN Goes("pop", "drain") /\ UNCHANGED <<queues, running>>
       ELSE /\ Goes("pop", "popped")
            /\ running' = m_private_queue[Len(m_private_queue)]
            /\ m_private_queue' = SubSeq(m_private_queue, 1, Len(m_private_queue) - 1)
            /\ UNCHANGED m_public_queue
    /\ UNCHANGED <<aborts, sem, owes, made, local, ran, dropped, shut>>

\* drain_queue_impl: the next task, taken before abort is looked at.
pop_front ==
    /\ IF m_private_queue = <<>>
       THEN Goes("pop", "drain") /\ UNCHANGED <<queues, running>>
       ELSE /\ Goes("pop", "popped")
            /\ running' = Head(m_private_queue)
            /\ m_private_queue' = Tail(m_private_queue)
            /\ UNCHANGED m_public_queue
    /\ UNCHANGED <<aborts, sem, owes, made, local, ran, dropped, shut>>

run_or_abort ==
    /\ IF m_private_atomic_abort
       THEN /\ Goes("popped", "ended")
            /\ dropped' = Append(dropped, running)
            /\ running' = Null
       ELSE Goes("popped", "task") /\ UNCHANGED <<dropped, running>>
    /\ UNCHANGED <<queues, aborts, sem, owes, made, local, ran, shut>>

finish_task ==
    /\ Goes("task", "pop")
    /\ ran' = Append(ran, running)
    /\ running' = Null
    /\ UNCHANGED <<queues, aborts, sem, owes, made, local, dropped, shut>>

-----------------------------------------------------------------------------
(* enqueue of one task or of a span.                                       *)

Make(n) == made + n <= MaxTasks /\ made' = made + n

NextTasks(n) == [i \in 1 .. n |-> made + i]

\* The running task enqueues to its own executor.
enqueue_local(n) ==
    /\ pc = "task"
    /\ Make(n)
    /\ \/ /\ m_private_atomic_abort
          /\ dropped' = dropped \o NextTasks(n)
          /\ UNCHANGED m_private_queue
       \/ /\ ~m_private_atomic_abort
          /\ m_private_queue' = m_private_queue \o NextTasks(n)
          /\ UNCHANGED dropped
    /\ local' = local \cup (made + 1 .. made + n)
    /\ UNCHANGED <<m_public_queue, aborts, sem, pc, running, owes, ran, shut>>

\* Mutant: the semaphore is released only when the thread is started.
enqueue_foreign_silent(c, n) ==
    /\ c \notin owes
    /\ Make(n)
    /\ ~m_abort
    /\ m_public_queue' = m_public_queue \o NextTasks(n)
    /\ pc' = IF pc = "none" THEN "drain" ELSE pc
    /\ owes' = IF pc = "none" THEN owes \cup {c} ELSE owes
    /\ UNCHANGED <<m_private_queue, aborts, sem, running, local, dropped, ran, shut>>

\* Any other thread; the first one starts the executor's thread.
enqueue_foreign(c, n) ==
    /\ c \notin owes
    /\ Make(n)
    /\ \/ /\ m_abort
          /\ dropped' = dropped \o NextTasks(n)
          /\ UNCHANGED <<m_public_queue, pc, owes>>
       \/ /\ ~m_abort
          /\ m_public_queue' = m_public_queue \o NextTasks(n)
          /\ pc' = IF pc = "none" THEN "drain" ELSE pc
          /\ owes' = IF pc # "none" /\ m_public_queue = <<>> THEN owes \cup {c} ELSE owes
          /\ UNCHANGED dropped
    /\ UNCHANGED <<m_private_queue, aborts, sem, running, local, ran, shut>>

release_semaphore(c) ==
    /\ c \in owes
    /\ owes' = owes \ {c}
    /\ Release
    /\ UNCHANGED <<queues, aborts, pc, running, made, local, ran, dropped, shut>>

-----------------------------------------------------------------------------
(* shutdown, called by a client; a second call returns at once.            *)

ShutGoes(from, to) == shut = from /\ shut' = to

shutdown ==
    /\ ShutGoes("no", "lock")
    /\ UNCHANGED <<queues, aborts, sem, pc, running, owes, made, local, ran, dropped>>

shutdown_abort ==
    /\ ShutGoes("lock", "store")
    /\ m_abort' = TRUE
    /\ UNCHANGED <<queues, m_private_atomic_abort, sem, pc, running, owes, made, local, ran, dropped>>

shutdown_private_abort ==
    /\ ShutGoes("store", "release")
    /\ m_private_atomic_abort' = TRUE
    /\ UNCHANGED <<queues, m_abort, sem, pc, running, owes, made, local, ran, dropped>>

shutdown_release ==
    /\ ShutGoes("release", "join")
    /\ Release
    /\ UNCHANGED <<queues, aborts, pc, running, owes, made, local, ran, dropped>>

\* Mutant: the thread is not joined.
shutdown_join_detached ==
    /\ ShutGoes("join", "done")
    /\ dropped' = dropped \o m_private_queue \o m_public_queue
    /\ m_private_queue' = <<>> /\ m_public_queue' = <<>>
    /\ UNCHANGED <<aborts, sem, pc, running, owes, made, local, ran>>

\* The thread, if there is one, is joined; the queues are emptied.
shutdown_join ==
    /\ ShutGoes("join", "done")
    /\ pc \in {"none", "ended"}
    /\ dropped' = dropped \o m_private_queue \o m_public_queue
    /\ m_private_queue' = <<>> /\ m_public_queue' = <<>>
    /\ UNCHANGED <<aborts, sem, pc, running, owes, made, local, ran>>

-----------------------------------------------------------------------------

ThreadStep == drain_queue \/ acquire \/ pop_front \/ run_or_abort \/ finish_task

ShutdownStep ==
    shutdown_abort \/ shutdown_private_abort \/ shutdown_release \/ shutdown_join

Next ==
    \/ ThreadStep
    \/ \E n \in 1 .. MaxSpan : enqueue_local(n) \/ \E c \in Clients : enqueue_foreign(c, n)
    \/ \E c \in Clients : release_semaphore(c)
    \/ shutdown \/ ShutdownStep

Spec == Init /\ [][Next]_vars

\* Threads that can go on do; what is enqueued, and whether the executor is
\* shut down, is left open.
Fairness ==
    /\ WF_vars(ThreadStep)
    /\ \A c \in Clients : WF_vars(release_semaphore(c))
    /\ WF_vars(ShutdownStep)

FairSpec == Spec /\ Fairness

-----------------------------------------------------------------------------
(* Properties.                                                             *)

InHand == IF running = Null THEN <<>> ELSE <<running>>
Everywhere == m_private_queue \o m_public_queue \o InHand \o ran \o dropped

\* Each task that was enqueued is at every moment in exactly one place: a
\* queue, the thread's hands, or done, and it is done once.
EachTaskOnce == Len(Everywhere) = made /\ Range(Everywhere) = 1 .. made

\* A thread that waits in m_semaphore.acquire while there are tasks for it, or
\* while it is to abort, is going to be woken.
NoLostWakeUp ==
    pc = "acquire" =>
        /\ m_public_queue # <<>> => sem > 0 \/ owes # {}
        /\ m_abort => sem > 0 \/ shut \in {"store", "release"}

\* drain_queue asserts that the private queue is empty when it takes the public
\* one.
PrivateQueueEmptyOnSwap == pc \in {"drain", "acquire", "woken"} => m_private_queue = <<>>

\* The above together: no task is lost or doubled on its way through the two
\* queues, and no wake-up is lost.
Inv == TypeOK /\ EachTaskOnce /\ NoLostWakeUp /\ PrivateQueueEmptyOnSwap

\* Tasks run in the order in which they were enqueued, except that those made by
\* the executor's own tasks run before the ones waiting in the public queue.
RunsInOrder ==
    \A k \in DOMAIN ran : \A i \in 1 .. ran[k] - 1 :
        \/ ran[k] \in local /\ i \notin local
        \/ \E h \in 1 .. k - 1 : ran[h] = i

TaskState ==
    [t \in Tasks |->
        IF t \in Range(ran) THEN "ran"
        ELSE IF t \in Range(dropped) THEN "dropped"
        ELSE IF t = running /\ pc = "task" THEN "running"
        ELSE IF t <= made THEN "pending" ELSE "none"]

Phase == IF shut = "no" THEN "open" ELSE IF shut = "done" THEN "closed" ELSE "closing"

E == INSTANCE Executor WITH task <- TaskState, phase <- Phase, Clearable <- FALSE, Joins <- TRUE

\* The worker thread is an executor: tasks are run at most once, destroyed only
\* by shutdown, and after shutdown has returned none is accepted or run.
ImplementsExecutor == E!Spec

\* Every task that was enqueued is run, or destroyed by shutdown, and shutdown
\* returns.
TasksAndShutdownEnd ==
    /\ \A t \in Tasks : t <= made ~> t \in Range(ran \o dropped)
    /\ shut = "lock" ~> shut = "done"

=============================================================================
