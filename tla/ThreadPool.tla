------------------------------ MODULE ThreadPool ------------------------------
(***************************************************************************)
(* thread_pool_executor: workers with a private and a public task queue,   *)
(* threads that end when they idle too long and are started again by the   *)
(* next enqueuer, work donated to idle workers, and shutdown.              *)
(*                                                                         *)
(* A step is one critical section of a worker's m_lock or one access to an *)
(* atomic outside of it.  idle_worker_set is scanned in one step, which    *)
(* may miss any of the idle workers: its flags and m_approx_size are not   *)
(* updated together, and a worker may be marked behind the scan's back.    *)
(***************************************************************************)
EXTENDS Naturals, Sequences, FiniteSets, Functions

CONSTANTS
    Pools,          \* the thread pools of the process
    Size,           \* workers per pool (m_pool_size)
    Clients,        \* threads that belong to no pool
    MaxTasks        \* how many tasks are made; tasks are numbered as they are

Workers == Pools \X (0 .. Size - 1)
Threads == Workers \cup Clients
Tasks == 1 .. MaxTasks
Null == 0           \* a task that was moved from
NoWorker == <<>>
MaxTokens == 2      \* how far a binary_semaphore that is over-released counts

ASSUME SizeIsPositive == Size \in Nat \ {0}
ASSUME MaxTasksIsNat == MaxTasks \in Nat
ASSUME ClientsAreNoWorkers == Clients \cap Workers = {}

VARIABLES
    private, public,        \* m_private_queue and m_public_queue of a worker
    m_idle, m_abort,        \* guarded by m_lock
    m_atomic_abort, m_task_found_or_abort,
    sem,                    \* the count of m_semaphore
    idle_list,              \* m_idle_worker_list
    pc,                     \* where the thread of a worker is, "none" if it has ended
    running,                \* the task it runs
    idle_flags,             \* the workers marked idle in idle_worker_set
    cursor,                 \* m_round_robin_cursor
    jobs,                   \* the enqueue_foreign calls a thread has still to make
    owes,                   \* the worker whose semaphore a thread has still to release
    made,                   \* the number of tasks made so far
    ran, dropped,           \* how often a task ran, or was destroyed without running
    shut                    \* where shutdown is, in each pool

queues == <<private, public>>
flags == <<m_idle, m_abort, m_atomic_abort, m_task_found_or_abort, sem>>
calls == <<jobs, owes>>
tasks == <<made, ran, dropped>>
vars == <<queues, flags, idle_list, pc, running, idle_flags, cursor, calls, tasks, shut>>

Labels == {"none", "drain", "mark_idle", "wait", "found", "timed_out", "run", "donate",
           "pop", "task", "aborted"}

\* The state of the workers: a semaphore never counts past MaxTokens, a task is
\* run at most once and destroyed at most once, the cursor stays in the pool.
TypeOK ==
    /\ private \in [Workers -> Seq(Tasks \cup {Null})]
    /\ public \in [Workers -> Seq(Tasks \cup {Null})]
    /\ m_idle \in [Workers -> BOOLEAN] /\ m_abort \in [Workers -> BOOLEAN]
    /\ m_atomic_abort \in [Workers -> BOOLEAN]
    /\ m_task_found_or_abort \in [Workers -> BOOLEAN]
    /\ sem \in [Workers -> 0 .. MaxTokens]
    /\ idle_list \in [Workers -> Seq(Workers)]
    /\ pc \in [Workers -> Labels]
    /\ running \in [Workers -> Tasks \cup {Null}]
    /\ idle_flags \subseteq Workers
    /\ cursor \in [Pools -> 0 .. Size - 1]
    /\ jobs \in [Threads -> Seq([to : Workers, tasks : Seq(Tasks \cup {Null})])]
    /\ owes \in [Threads -> Workers \cup {NoWorker}]
    /\ made \in 0 .. MaxTasks
    /\ ran \in [Tasks -> {0, 1}] /\ dropped \in [Tasks -> {0, 1}]
    /\ shut \in [Pools -> [at : 0 .. Size,
                           step : {"no", "atomic", "lock", "announce", "release", "join"}]]

Init ==
    /\ private = [w \in Workers |-> <<>>] /\ public = [w \in Workers |-> <<>>]
    /\ m_idle = [w \in Workers |-> TRUE] /\ m_abort = [w \in Workers |-> FALSE]
    /\ m_atomic_abort = [w \in Workers |-> FALSE]
    /\ m_task_found_or_abort = [w \in Workers |-> FALSE]
    /\ sem = [w \in Workers |-> 0]
    /\ idle_list = [w \in Workers |-> <<>>]
    /\ pc = [w \in Workers |-> "none"]
    /\ running = [w \in Workers |-> Null]
    /\ idle_flags = Workers
    /\ cursor = [p \in Pools |-> 0]
    /\ jobs = [t \in Threads |-> <<>>]
    /\ owes = [t \in Threads |-> NoWorker]
    /\ made = 0
    /\ ran = [t \in Tasks |-> 0] /\ dropped = [t \in Tasks |-> 0]
    /\ shut = [p \in Pools |-> [at |-> 0, step |-> "no"]]

Goes(w, from, to) == pc[w] = from /\ pc' = [pc EXCEPT ![w] = to]

\* A binary semaphore that is released at count 1 saturates in some standard
\* libraries and counts on in others.
Release(w) ==
    \/ sem' = [sem EXCEPT ![w] = 1]
    \/ sem[w] \in 1 .. MaxTokens - 1 /\ sem' = [sem EXCEPT ![w] = @ + 1]

\* The thread leaves work_loop with m_idle set under the lock.
Exit(w, from) ==
    /\ Goes(w, from, "none")
    /\ m_idle' = [m_idle EXCEPT ![w] = TRUE]
    /\ UNCHANGED <<m_abort, m_atomic_abort, sem>>

-----------------------------------------------------------------------------
(* A worker's thread: drain_queue and wait_for_task.                       *)

\* The end of drain_queue's critical section: the public queue becomes the
\* private one, or the worker stops.
TakeQueue(w, from) ==
    /\ m_task_found_or_abort' = [m_task_found_or_abort EXCEPT ![w] = FALSE]
    /\ IF m_abort[w]
       THEN Exit(w, from) /\ UNCHANGED queues
       ELSE /\ Goes(w, from, "run")
            /\ private' = [private EXCEPT ![w] = public[w]]
            /\ public' = [public EXCEPT ![w] = private[w]]
            /\ UNCHANGED <<m_idle, m_abort, m_atomic_abort, sem>>

drain_queue(w) ==
    /\ \/ /\ public[w] # <<>> \/ m_abort[w]
          /\ TakeQueue(w, "drain")
       \/ /\ public[w] = <<>> /\ ~m_abort[w]
          /\ Goes(w, "drain", "mark_idle")
          /\ UNCHANGED <<queues, flags>>
    /\ UNCHANGED <<idle_list, running, idle_flags, cursor, calls, tasks, shut>>

mark_worker_idle(w) ==
    /\ Goes(w, "mark_idle", "wait")
    /\ idle_flags' = idle_flags \cup {w}
    /\ UNCHANGED <<queues, flags, idle_list, running, cursor, calls, tasks, shut>>

\* try_acquire_until succeeds; m_task_found_or_abort tells a token that was
\* left behind from one that announces something.
try_acquire(w) ==
    /\ sem[w] > 0
    /\ sem' = [sem EXCEPT ![w] = @ - 1]
    /\ Goes(w, "wait", IF m_task_found_or_abort[w] THEN "found" ELSE "wait")
    /\ UNCHANGED <<queues, m_idle, m_abort, m_atomic_abort, m_task_found_or_abort, idle_list,
                   running, idle_flags, cursor, calls, tasks, shut>>

wait_for_task(w) ==
    /\ pc[w] = "found"
    /\ IF m_abort[w]
       THEN Exit(w, "found") /\ UNCHANGED <<queues, m_task_found_or_abort, idle_flags>>
       ELSE IF public[w] = <<>>
       THEN Goes(w, "found", "wait") /\ UNCHANGED <<queues, flags, idle_flags>>
       ELSE TakeQueue(w, "found") /\ idle_flags' = idle_flags \ {w}
    /\ UNCHANGED <<idle_list, running, cursor, calls, tasks, shut>>

\* The deadline passes; then the worker takes the lock and gives up without
\* another look at the public queue.
time_out(w) ==
    /\ sem[w] = 0
    /\ Goes(w, "wait", "timed_out")
    /\ UNCHANGED <<queues, flags, idle_list, running, idle_flags, cursor, calls, tasks, shut>>

give_up(w) ==
    /\ Exit(w, "timed_out")
    /\ UNCHANGED <<queues, m_task_found_or_abort, idle_list, running, idle_flags, cursor, calls,
                   tasks, shut>>

-----------------------------------------------------------------------------
(* A worker's thread: drain_queue_impl and balance_work.                   *)

IdleBut(p, index) == {x \in idle_flags : x[1] = p /\ x[2] # index}

\* What find_idle_workers may come back with: up to `most` idle workers, in the
\* order in which it comes across them.
InScanOrder(w, most) ==
    LET Distance(x) == (x[2] + Size - w[2]) % Size
        Found(n) == {found \in [1 .. n -> IdleBut(w[1], w[2])] :
                        \A i, j \in 1 .. n : i < j => Distance(found[i]) < Distance(found[j])}
    IN  UNION {Found(n) : n \in 0 .. most}

Smaller(a, b) == IF a <= b THEN a ELSE b

\* n tasks are dealt to `parts` receivers, the first n % parts of which get one
\* task more: the begin and the length of the j-th slice.
SliceBegin(n, parts, j) == (j - 1) * (n \div parts) + Smaller(j - 1, n % parts)
SliceLength(n, parts, j) == n \div parts + IF j <= n % parts THEN 1 ELSE 0

Slice(s, parts, j) ==
    SubSeq(s, SliceBegin(Len(s), parts, j) + 1,
              SliceBegin(Len(s), parts, j) + SliceLength(Len(s), parts, j))

Deal(s, receivers, parts) ==
    [j \in 1 .. Len(receivers) |-> [to |-> receivers[j], tasks |-> Slice(s, parts, j)]]

\* The end of the loop of drain_queue_impl.
queue_drained(w) ==
    /\ private[w] = <<>>
    /\ Goes(w, "run", "drain")
    /\ UNCHANGED <<queues, flags, idle_list, running, idle_flags, cursor, calls, tasks, shut>>

\* balance_work up to the donations: it keeps at least one task, and donates to
\* no more workers than there are others.  m_idle_worker_list is emptied after
\* the donations, so it still has its workers if one of them threw.
balance_work(w) ==
    LET most == Smaller(Size, Len(private[w])) - 1
    IN  /\ private[w] # <<>>
        /\ \E found \in InScanOrder(w, most) :
             LET receivers == IF most = 0 THEN <<>> ELSE idle_list[w] \o found
             IN  /\ idle_flags' = idle_flags \ Range(found)
                 /\ IF receivers = <<>>
                    THEN Goes(w, "run", "pop") /\ UNCHANGED <<idle_list, jobs>>
                    ELSE /\ Goes(w, "run", "donate")
                         /\ idle_list' = [idle_list EXCEPT ![w] = receivers]
                         /\ jobs' = [jobs EXCEPT ![w] =
                                       Deal(private[w], receivers, Len(receivers) + 1)]
        /\ UNCHANGED <<queues, flags, running, cursor, owes, tasks, shut>>

\* The check for abort, and the last task of the private queue.
pop_task(w) ==
    /\ owes[w] = NoWorker
    /\ \/ /\ m_atomic_abort[w]
          /\ Goes(w, "pop", "aborted")
          /\ UNCHANGED <<private, running>>
       \/ /\ ~m_atomic_abort[w]
          /\ Goes(w, "pop", "task")
          /\ running' = [running EXCEPT ![w] = private[w][Len(private[w])]]
          /\ private' = [private EXCEPT ![w] = SubSeq(@, 1, Len(@) - 1)]
    /\ UNCHANGED <<public, flags, idle_list, idle_flags, cursor, calls, tasks, shut>>

Ran(w) == IF running[w] = Null THEN UNCHANGED ran
          ELSE ran' = [ran EXCEPT ![running[w]] = @ + 1]

\* The task returns; a task that was moved from does nothing.
finish_task(w) ==
    /\ jobs[w] = <<>> /\ owes[w] = NoWorker
    /\ Goes(w, "task", "run")
    /\ Ran(w)
    /\ running' = [running EXCEPT ![w] = Null]
    /\ UNCHANGED <<queues, flags, idle_list, idle_flags, cursor, calls, made, dropped, shut>>

\* The worker saw the abort flag, or runtime_shutdown reached work_loop.
abort_exit(w) ==
    /\ Exit(w, "aborted")
    /\ UNCHANGED <<queues, m_task_found_or_abort, idle_list, running, idle_flags, cursor, calls,
                   tasks, shut>>

-----------------------------------------------------------------------------
(* Enqueuing: enqueue_foreign and ensure_worker_active, by any thread.     *)

DonatingTo(t) == t \in Workers /\ pc[t] = "donate"

\* The tasks of the calls that a thread has still to make.
CallTasks(x) == UNION {Range(jobs[x][j].tasks) : j \in DOMAIN jobs[x]}

\* The tasks of a call that is refused are destroyed by the caller.
Drop(refused) == dropped' = [t \in Tasks |-> dropped[t] + IF t \in refused THEN 1 ELSE 0]

\* m_abort is set: the call throws runtime_shutdown.  A donation leaves its
\* tasks in the private queue and ends work_loop; in a task, the exception is
\* swallowed or ends work_loop together with the task.
RefuseForeign(t) ==
    /\ jobs' = [jobs EXCEPT ![t] = <<>>]
    /\ \/ /\ DonatingTo(t)
          /\ Goes(t, "donate", "aborted")
          /\ UNCHANGED <<dropped, ran, running>>
       \/ /\ ~DonatingTo(t)
          /\ Drop(CallTasks(t))
          /\ UNCHANGED <<pc, ran, running>>
       \/ /\ t \in Workers /\ ~DonatingTo(t)
          /\ Drop(Range(Head(jobs[t]).tasks))
          /\ Goes(t, "task", "aborted")
          /\ Ran(t)
          /\ running' = [running EXCEPT ![t] = Null]
    /\ UNCHANGED <<queues, m_idle, m_task_found_or_abort, owes, idle_list>>

\* Mutant: donated tasks are copied and never erased.
Donated_kept(t, left) == private[t]

\* The private queue of a donor that still has `left` donations to make: what
\* it has donated was moved from, and is erased after the last donation.
Donated(t, left) ==
    LET n == Len(private[t])
        parts == Len(idle_list[t]) + 1
        begin == SliceBegin(n, parts, parts - left)
    IN  IF left = 0 THEN SubSeq(private[t], begin + 1, n)
        ELSE [i \in 1 .. n |-> IF i <= begin THEN Null ELSE private[t][i]]

\* Mutant: whether the queue is empty is asked after the insertion.
AcceptForeign_late(t) ==
    LET w == Head(jobs[t]).to
        rest == Tail(jobs[t])
        last == DonatingTo(t) /\ rest = <<>>
    IN  /\ jobs' = [jobs EXCEPT ![t] = rest]
        /\ m_task_found_or_abort' = [m_task_found_or_abort EXCEPT ![w] = TRUE]
        /\ public' = [public EXCEPT ![w] = @ \o Head(jobs[t]).tasks]
        /\ private' = IF DonatingTo(t) THEN [private EXCEPT ![t] = Donated(t, Len(rest))] ELSE private
        /\ idle_list' = IF last THEN [idle_list EXCEPT ![t] = <<>>] ELSE idle_list
        /\ owes' = [owes EXCEPT ![t] = IF ~m_idle[w] /\ public'[w] = <<>> THEN w ELSE NoWorker]
        /\ m_idle' = [m_idle EXCEPT ![w] = FALSE]
        /\ pc' = [x \in Workers |-> IF x = w /\ m_idle[w] THEN "drain"
                                    ELSE IF last /\ x = t THEN "pop" ELSE pc[x]]
        /\ UNCHANGED <<ran, dropped, running>>

AcceptForeign(t) ==
    LET w == Head(jobs[t]).to
        rest == Tail(jobs[t])
        last == DonatingTo(t) /\ rest = <<>>
    IN  /\ jobs' = [jobs EXCEPT ![t] = rest]
        /\ m_task_found_or_abort' = [m_task_found_or_abort EXCEPT ![w] = TRUE]
        /\ public' = [public EXCEPT ![w] = @ \o Head(jobs[t]).tasks]
        /\ private' = IF DonatingTo(t) THEN [private EXCEPT ![t] = Donated(t, Len(rest))] ELSE private
        /\ idle_list' = IF last THEN [idle_list EXCEPT ![t] = <<>>] ELSE idle_list
        /\ owes' = [owes EXCEPT ![t] =
                      IF ~m_idle[w] /\ public[w] = <<>> THEN w ELSE NoWorker]
        /\ m_idle' = [m_idle EXCEPT ![w] = FALSE]
        /\ pc' = [x \in Workers |-> IF x = w /\ m_idle[w] THEN "drain"
                                    ELSE IF last /\ x = t THEN "pop" ELSE pc[x]]
        /\ UNCHANGED <<ran, dropped, running>>

enqueue_foreign(t) ==
    /\ owes[t] = NoWorker
    /\ jobs[t] # <<>>
    /\ IF m_abort[Head(jobs[t]).to] THEN RefuseForeign(t) ELSE AcceptForeign(t)
    /\ UNCHANGED <<m_abort, m_atomic_abort, sem, idle_flags, cursor, made, shut>>

\* The first enqueuer releases the semaphore after it has unlocked.
release_semaphore(t) ==
    /\ owes[t] # NoWorker
    /\ Release(owes[t])
    /\ owes' = [owes EXCEPT ![t] = NoWorker]
    /\ UNCHANGED <<queues, m_idle, m_abort, m_atomic_abort, m_task_found_or_abort, idle_list, pc,
                   running, idle_flags, cursor, jobs, tasks, shut>>

-----------------------------------------------------------------------------
(* thread_pool_executor::enqueue.                                          *)

\* The next n tasks to be enqueued.
Make(n) ==
    /\ made + n <= MaxTasks
    /\ made' = made + n

NextTasks(n) == [i \in 1 .. n |-> made + i]

\* A thread of no pool: an idle worker, or the next one in turn if none is found.
client_enqueue(c, p) ==
    /\ jobs[c] = <<>> /\ owes[c] = NoWorker
    /\ Make(1)
    /\ \/ \E w \in IdleBut(p, Size) :
             /\ idle_flags' = idle_flags \ {w}
             /\ jobs' = [jobs EXCEPT ![c] = <<[to |-> w, tasks |-> NextTasks(1)]>>]
             /\ UNCHANGED cursor
       \/ /\ jobs' = [jobs EXCEPT ![c] = <<[to |-> <<p, cursor[p]>>, tasks |-> NextTasks(1)]>>]
          /\ cursor' = [cursor EXCEPT ![p] = (@ + 1) % Size]
          /\ UNCHANGED idle_flags
    /\ UNCHANGED <<queues, flags, idle_list, pc, running, owes, ran, dropped, shut>>

\* A thread of no pool enqueues a span that is not shorter than the pool (a
\* shorter one is enqueued task by task).
client_bulk_enqueue(c, p, n) ==
    /\ n >= Size
    /\ jobs[c] = <<>> /\ owes[c] = NoWorker
    /\ Make(n)
    /\ jobs' = [jobs EXCEPT ![c] = Deal(NextTasks(n), [j \in 1 .. Size |-> <<p, j - 1>>], Size)]
    /\ UNCHANGED <<queues, flags, idle_list, pc, running, idle_flags, cursor, owes, ran, dropped,
                   shut>>

\* enqueue_local: into the private queue, or runtime_shutdown, which the task
\* swallows or dies of.
enqueue_local(w, n) ==
    /\ UNCHANGED <<idle_flags, jobs>>
    /\ \/ /\ ~m_atomic_abort[w]
          /\ private' = [private EXCEPT ![w] = @ \o NextTasks(n)]
          /\ UNCHANGED <<dropped, ran, running, pc>>
       \/ /\ m_atomic_abort[w]
          /\ Drop(Range(NextTasks(n)))
          /\ \/ UNCHANGED <<ran, running, pc>>
             \/ Ran(w) /\ running' = [running EXCEPT ![w] = Null] /\ Goes(w, "task", "aborted")
          /\ UNCHANGED private

appears_empty(w) == private[w] = <<>> /\ ~m_task_found_or_abort[w]

\* A task that runs on worker w enqueues to pool p: to w itself if w appears to
\* be empty or no idle worker is found.  The worker w is read from a thread-local
\* variable, whichever pool it belongs to.
worker_enqueue(w, p) ==
    /\ pc[w] = "task" /\ running[w] # Null /\ jobs[w] = <<>> /\ owes[w] = NoWorker
    /\ Make(1)
    /\ \/ enqueue_local(w, 1)
       \/ /\ ~appears_empty(w)
          /\ \E x \in IdleBut(p, w[2]) :
                /\ idle_flags' = idle_flags \ {x}
                /\ jobs' = [jobs EXCEPT ![w] = <<[to |-> x, tasks |-> NextTasks(1)]>>]
          /\ UNCHANGED <<private, dropped, ran, running, pc>>
    /\ UNCHANGED <<public, flags, idle_list, cursor, owes, shut>>

worker_bulk_enqueue(w, p, n) ==
    /\ pc[w] = "task" /\ running[w] # Null /\ jobs[w] = <<>> /\ owes[w] = NoWorker
    /\ Make(n)
    /\ enqueue_local(w, n)
    /\ UNCHANGED <<public, flags, idle_list, cursor, owes, shut>>

-----------------------------------------------------------------------------
(* thread_pool_executor::shutdown, worker by worker.                       *)

Shutting(p) == <<p, shut[p].at>>

ShutGoes(p, from, to) ==
    /\ shut[p].step = from
    /\ shut' = [shut EXCEPT ![p].step = to]

shutdown(p) ==
    /\ ShutGoes(p, "no", "atomic")
    /\ UNCHANGED <<queues, flags, idle_list, pc, running, idle_flags, cursor, calls, tasks>>

shutdown_atomic_abort(p) ==
    /\ shut[p].at < Size
    /\ ShutGoes(p, "atomic", "lock")
    /\ m_atomic_abort' = [m_atomic_abort EXCEPT ![Shutting(p)] = TRUE]
    /\ UNCHANGED <<queues, m_idle, m_abort, m_task_found_or_abort, sem, idle_list, pc, running,
                   idle_flags, cursor, calls, tasks>>

shutdown_abort(p) ==
    /\ ShutGoes(p, "lock", "announce")
    /\ m_abort' = [m_abort EXCEPT ![Shutting(p)] = TRUE]
    /\ UNCHANGED <<queues, m_idle, m_atomic_abort, m_task_found_or_abort, sem, idle_list, pc,
                   running, idle_flags, cursor, calls, tasks>>

\* Mutant: m_task_found_or_abort is not set.
shutdown_announce_none(p) ==
    /\ ShutGoes(p, "announce", "release")
    /\ UNCHANGED <<queues, flags, idle_list, pc, running, idle_flags, cursor, calls, tasks>>

shutdown_announce(p) ==
    /\ ShutGoes(p, "announce", "release")
    /\ m_task_found_or_abort' = [m_task_found_or_abort EXCEPT ![Shutting(p)] = TRUE]
    /\ UNCHANGED <<queues, m_idle, m_abort, m_atomic_abort, sem, idle_list, pc, running, idle_flags,
                   cursor, calls, tasks>>

shutdown_release(p) ==
    /\ ShutGoes(p, "release", "join")
    /\ Release(Shutting(p))
    /\ UNCHANGED <<queues, m_idle, m_abort, m_atomic_abort, m_task_found_or_abort, idle_list, pc,
                   running, idle_flags, cursor, calls, tasks>>

\* Mutant: the thread is not joined.
shutdown_join_detached(p) ==
    LET w == Shutting(p) IN
    /\ shut[p].step = "join"
    /\ Drop(Range(private[w]) \cup Range(public[w]))
    /\ private' = [private EXCEPT ![w] = <<>>]
    /\ public' = [public EXCEPT ![w] = <<>>]
    /\ shut' = [shut EXCEPT ![p] = [at |-> @.at + 1, step |-> "atomic"]]
    /\ UNCHANGED <<flags, idle_list, pc, running, idle_flags, cursor, calls, made, ran>>

\* The thread is joined and what is left in the queues is destroyed.
shutdown_join(p) ==
    LET w == Shutting(p) IN
    /\ shut[p].step = "join"
    /\ pc[w] = "none"
    /\ Drop(Range(private[w]) \cup Range(public[w]))
    /\ private' = [private EXCEPT ![w] = <<>>]
    /\ public' = [public EXCEPT ![w] = <<>>]
    /\ shut' = [shut EXCEPT ![p] = [at |-> @.at + 1, step |-> "atomic"]]
    /\ UNCHANGED <<flags, idle_list, pc, running, idle_flags, cursor, calls, made, ran>>

-----------------------------------------------------------------------------

WorkerStep(w) ==
    \/ drain_queue(w) \/ mark_worker_idle(w) \/ try_acquire(w) \/ wait_for_task(w) \/ give_up(w)
    \/ queue_drained(w) \/ balance_work(w) \/ pop_task(w) \/ finish_task(w) \/ abort_exit(w)

CallStep(t) == enqueue_foreign(t) \/ release_semaphore(t)

EnqueueCall ==
    \E p \in Pools :
        \/ \E c \in Clients : client_enqueue(c, p)
        \/ \E c \in Clients, n \in 1 .. MaxTasks : client_bulk_enqueue(c, p, n)
        \/ \E w \in Workers : worker_enqueue(w, p)
        \/ \E w \in Workers, n \in 1 .. MaxTasks : worker_bulk_enqueue(w, p, n)

ShutdownStep(p) ==
    \/ shutdown_atomic_abort(p) \/ shutdown_abort(p) \/ shutdown_announce(p)
    \/ shutdown_release(p) \/ shutdown_join(p)

Next ==
    \/ \E w \in Workers : WorkerStep(w) \/ time_out(w)
    \/ \E t \in Threads : CallStep(t)
    \/ EnqueueCall
    \/ \E p \in Pools : shutdown(p) \/ ShutdownStep(p)

Spec == Init /\ [][Next]_vars

\* Threads that can go on do, and so every task returns; when a worker times
\* out, what is enqueued and whether the pool is shut down is left open.
Fairness ==
    /\ \A w \in Workers : WF_vars(WorkerStep(w))
    /\ \A t \in Threads : WF_vars(CallStep(t))
    /\ \A p \in Pools : WF_vars(ShutdownStep(p))

FairSpec == Spec /\ Fairness

-----------------------------------------------------------------------------
(* Properties.                                                             *)

\* The places a task can be in: queues, a worker's hands, the arguments of a
\* call that is not yet made (a donor's are still in its private queue), done.
Kinds == {"private", "public", "running", "call", "ran", "dropped"}

IsIn(kind, x, t) ==
    \/ kind = "private" /\ x \in Workers /\ t \in Range(private[x])
    \/ kind = "public" /\ x \in Workers /\ t \in Range(public[x])
    \/ kind = "running" /\ x \in Workers /\ running[x] = t
    \/ kind = "call" /\ x \in Threads /\ ~DonatingTo(x) /\ t \in CallTasks(x)
    \/ kind = "ran" /\ x = NoWorker /\ ran[t] > 0
    \/ kind = "dropped" /\ x = NoWorker /\ dropped[t] > 0

Places(t) == {place \in Kinds \X (Threads \cup {NoWorker}) : IsIn(place[1], place[2], t)}

\* No task is twice in a queue.
NoRepeats(s) == \A i, j \in DOMAIN s : s[i] = s[j] /\ s[i] # Null => i = j

\* A task that was enqueued is at every moment in exactly one place, and there
\* once: donating, stealing an idle flag, aborting and shutting down neither lose
\* nor duplicate it, and it is run or destroyed once.
EachTaskOnce ==
    /\ \A t \in Tasks : IF t <= made THEN \E place \in Places(t) : Places(t) = {place}
                        ELSE Places(t) = {}
    /\ \A w \in Workers : NoRepeats(private[w]) /\ NoRepeats(public[w])
    /\ \A x \in Threads : \A j, k \in DOMAIN jobs[x] :
            /\ NoRepeats(jobs[x][j].tasks)
            /\ j # k => Range(jobs[x][j].tasks) \cap Range(jobs[x][k].tasks) \subseteq {Null}

\* A worker that waits while its public queue has tasks, or that is told to
\* abort, is going to be woken: m_task_found_or_abort is set and the semaphore
\* is or will be released (first enqueuer, shutdown).
NoLostWakeUp ==
    \A w \in Workers :
        /\ pc[w] = "wait" /\ public[w] # <<>>
             => /\ m_task_found_or_abort[w]
                /\ sem[w] > 0 \/ \E t \in Threads : owes[t] = w
        /\ pc[w] = "wait" /\ m_abort[w] /\ shut[w[1]].step \notin {"announce", "release"}
             => m_task_found_or_abort[w] /\ sem[w] > 0

\* The thread of a worker has ended exactly when m_idle says that the next
\* enqueuer has to start one: there are never two, and never none.
ThreadIffActive ==
    \A w \in Workers : m_idle[w] <=> pc[w] = "none"

\* A worker that shutdown is done with has no thread, no task, and gets none.
QuietAfterShutdown ==
    \A w \in Workers :
        w[2] < shut[w[1]].at =>
            pc[w] = "none" /\ m_idle[w] /\ private[w] = <<>> /\ public[w] = <<>>

\* drain_queue asserts that the private queue is empty when it takes the public
\* one.  It is, until the shutdown of a pool makes workers leave with tasks in
\* their hands: its own, or another one that a task of theirs enqueued to.
PrivateQueueEmptyOnSwap ==
    \A w \in Workers :
        pc[w] \in {"drain", "mark_idle", "wait", "found"} /\ (\A p \in Pools : shut[p].step = "no")
            => private[w] = <<>>

\* The above together: whatever idle workers, donors, enqueuers and shutdown do
\* to a worker at the same time, its tasks and its thread are accounted for.
Inv == TypeOK /\ EachTaskOnce /\ ThreadIffActive /\ QuietAfterShutdown /\ PrivateQueueEmptyOnSwap

TaskState ==
    [t \in Tasks |->
        IF ran[t] > 0 THEN "ran"
        ELSE IF dropped[t] > 0 THEN "dropped"
        ELSE IF \E w \in Workers : running[w] = t THEN "running"
        ELSE IF \E w \in Workers : t \in Range(private[w]) \cup Range(public[w]) THEN "pending"
        ELSE "none"]

Phase ==
    IF \A p \in Pools : shut[p].step = "no" THEN "open"
    ELSE IF \A p \in Pools : shut[p].at = Size THEN "closed" ELSE "closing"

E == INSTANCE Executor WITH task <- TaskState, phase <- Phase, Clearable <- FALSE, Joins <- TRUE

\* The pool is an executor: tasks are run at most once, destroyed only by
\* shutdown, and after shutdown has returned none is accepted or run.
ImplementsExecutor == E!Spec

\* A worker whose thread gave up at its idle time-out although tasks had come in
\* between the time-out and its lock: they wait for the next enqueuer.
LeftBehind(t) == \E w \in Workers : pc[w] = "none" /\ m_idle[w] /\ t \in Range(public[w])

\* Every task that was enqueued is run, or destroyed by shutdown, or left behind
\* by a worker that timed out, and shutdown returns.
TasksAndShutdownEnd ==
    /\ \A t \in Tasks : t <= made ~> ran[t] + dropped[t] = 1 \/ LeftBehind(t)
    /\ \A p \in Pools : shut[p].step # "no" ~> shut[p].at = Size

=============================================================================
