# A verification of concurrencpp

concurrencpp is a C++20 library of tasks, executors and coroutine results. This
directory models it in TLA+, checks the models with TLC on
small instances, and proves the central ones with TLAPS for every instance.

## The system and its parts

| part | state | operations | what is hard about it |
|---|---|---|---|
| result / result_promise (`results/impl/result_state.*`, `consumer_context.*`, `producer_context.h`, `result.h`) | one atomic `m_pc_state`, the consumer context it guards, the produced value, the lifetime of the state | publish; `wait`, `get`, `co_await`, `resolve`, `wait_for`, `wait_until`, `status`; destruction of both ends | lock-free rendezvous; a timeout racing the publication; who deletes the state |
| when_all / when_any (`when_result.h`, `when_any_context`) | `m_status` of the shared context, one registration per input | register with every input, suspend, resume on the first completion, rewind the other inputs | several producers racing the registering coroutine |
| shared_result (`shared_result_state.*`) | a result shared by many awaiters: an atomic list of awaiters, a semaphore | `await`, `wait`, `wait_for`, publication | push against close of the list |
| thread_pool_executor | per worker: private and public queue, `m_idle`, `m_abort`, semaphore; the pool's idle-worker flags and approximate size | enqueue (local, foreign, bulk), donate work, drain, wait, time out, revive, shut down | lost wake-ups, work balancing, worker threads that end and are started again |
| worker_thread_executor | private and public queue, mutex, semaphore, atomic abort flags | enqueue (local, foreign), drain, shut down | lost wake-ups, order of tasks |
| manual_executor | one queue, mutex, condition variable | enqueue, `loop*`, `wait_for_tasks*`, `clear`, `shutdown` | condition-variable protocol, timeouts |
| thread_executor | list of threads, last retired thread | enqueue starts a thread, a thread retires itself, shut down joins | self-joining threads |
| inline_executor | abort flag | run in place | coroutines stacked on the thread of the poster |
| async_lock, async_condition_variable, scoped_async_lock | mutex, awaiter list, lock flag | lock, try_lock, unlock, await, notify | hand-over of the lock to coroutines, barging |
| timer_queue, timer | request queue, timer set, worker thread with idle time-out | add, cancel, fire, worker start/stop, shutdown | worker ends while a timer is added; cancel against fire |
| runtime, executor_collection | list of executors | create, register, shut down | coroutines that hop between executors while these are shut down one after the other |
| coroutine promises, make_result | the frame of a coroutine, with the result state inside it | first suspension, end of the body, last suspension, publication | the frame is destroyed by whichever end is last |
| lazy_result, generator | the handle of a suspended frame | await, resolve, run, iterate, destroy | who owns the handle |
| task, resume_on, executor interface | a callable that is moved from task to task | call, move, destroy; submit, bulk_submit | a task that is destroyed resumes its coroutine on the thread that destroys it |


How they interact: an executor runs the coroutine of a task, whose promise
publishes through `result_state`; publishing resumes the consumer, on the
producer's thread, and `resume_on` posts it to another executor.  `when_all`,
`when_any`, `shared_result` and `wait_for` are four kinds of consumer of the same
state.  The timer queue posts to executors, and the runtime shuts the timer queue
down first and the executors after it.

## Modules

Every variable that stands for a member of a class keeps its name (`m_idle`,
`m_awaiters`, `pc_state`); the others (`pc`, `shut`, `consumer`, ...) say where a
thread, a coroutine or a call is.  A step is one atomic access, or one critical
section of a mutex together with everything that is done under it.  Every action
is named for the function, or the part of it, that it models; `PROJECT.json` gives
its lines.  Mutants (marked as such in the modules, and used nowhere) are wrong
versions of an action against which each property has been tried.

| module | models | state | notes |
|---|---|---|---|
| `AsyncResult` | what a result promises | outcome, where the client is, the last answer | abstract |
| `ResultState` | `result_state`, `consumer_context`, `result`, `result_promise` | `pc_state`, `consumer_status`, `producer_status`, the semaphore of `wait_for`, deletions, both ends' places | implements `AsyncResult` |
| `WhenAny`, `WhenAll` | `when_any`, `when_all` over those results | `m_status` of `when_any_context`, the coroutine's place | extend `ResultState`; one client calls both and polls in between |
| `SharedResult` | `shared_result_state` | `m_awaiters`, `m_status`, semaphore, the holders, `on_result_finished` step by step | extends `ResultState` |
| `Executor` | what an executor promises | the life of every task, the phase of shutdown | abstract; `Clearable` and `Joins` are the two points where executors differ |
| `ThreadPool` | `thread_pool_executor` | both queues, `m_idle`, `m_abort`, `m_atomic_abort`, `m_task_found_or_abort`, semaphore per worker; calls in progress | implements `Executor` |
| `WorkerThread`, `ManualExecutor`, `ThreadExecutor` | the executors of these names | their queues, flags, thread handles and calls | each implements `Executor` |
| `IdleWorkerSet` | `idle_worker_set` of the pool, one atomic access per step | the flags, `m_approx_size`, the scans in progress | |
| `AsyncLock` | `async_lock` | `m_locked`, `m_awaiters` | |
| `AsyncConditionVariable` | `async_condition_variable` and `scoped_async_lock`, on top of `AsyncLock` | its awaiters, its mutex, the guards' `m_owns`, the call stack where executors run inline | implements `AsyncLock` |
| `TimerQueue` | `timer_queue`, timers, delay objects | request queue, worker threads, the worker's set and map of timers, handles, the coroutine that shutdown resumes under `m_lock` | |
| `Coroutine` | the promise types, `lazy_result`, `generator`, as producers of results | where each frame is, `m_done_handle`, the lazy task or generator of a body and the objects that hold its handle | extends `ResultState`, and implements it |
| `Runtime` | `runtime`, `executor_collection`, `task`, `resume_on`, `inline_executor`, the bridges of `executor.h` | the registered executors and their phase, the destructor, each coroutine's place, thread and tasks | executors are what `Executor` promises |
| `ResultProofs` | | | theorems on `ResultState`, `Coroutine`, `SharedResult` |
| `WhenAllProofs` | | | theorems on `WhenAny`, `WhenAll` |
| `ThreadPoolControlProofs`, `ThreadPoolProofs` | | | theorems on `ThreadPool`: the control of workers, then the places of tasks |
| `WorkerThreadProofs`, `ManualExecutorProofs` | | | theorems on the modules of these names |
| `ExecutorProofs` | | | theorems on `Runtime`, `ThreadExecutor`, `IdleWorkerSet` |
| `ResumptionProofs` | | | theorems on `AsyncLock`, `AsyncConditionVariable`, `TimerQueue` |
| `MC_*` | | | the instances for TLC |

What is abstracted: values are "value" or "exception"; a task is a number; the
memory order of the atomics is sequentially consistent (the code uses
acquire/release on single atomics; races on plain members are stated as properties,
`ContextRaceFree`); reading a deleted state may do anything (`resume_deleted_consumer`
leads to "undefined").  `resume_on` is a choice between running and interrupted,
except in `Runtime`, where it is what becomes of a task.  In `ThreadPool` the scan
of `idle_worker_set` is one step that may miss idle workers; the scan itself is
`IdleWorkerSet`.  Time-outs may happen at any moment at which they are possible,
except in `TimerQueue`, which has a clock.

`Coroutine` has one lazy task or generator per body at a time.  The frames of
these are destroyed by the object that holds their handle, so the model keeps the
set of objects that hold it, and counts how many were made and destroyed.  A
coroutine with a result is deleted by `delete_self` of its result state, which
lies in the frame: `Deleted` marks the frame "corrupt" if it is not suspended for
good, or if `m_done_handle` is not set and `delete` would be used on it.

In `Runtime` a suspended coroutine is in the tasks that hold its functor; `slots`
is that set, and each step moves, calls or destroys one of them.  Destroying it
resumes the coroutine on the thread that does so, which may be the one in
`~runtime`; that thread does not go on before the coroutine suspends or ends.
An executor is used only through what `Executor` promises, which `ThreadPool`,
`WorkerThread`, `ManualExecutor` and `ThreadExecutor` are shown to implement.

## Runs

| run | instance | states | what it checks |
|---|---|---|---|
| `coroutine` | 1 result of every kind, 2 lazy tasks or generators, 1 hop | 28901 | `Inv` (the inductive invariant of the rendezvous: assertions, no race on the context, no lost wake-up follow from it), `CoInv`, `FramesAreDeletedOnce`, `CallsReturn`, `ImplementsAsyncResult`, `EveryFrameEnds` |
| `when` | 2 results, 2 calls of `when_any`, one of `when_all` | 305291 | `WhenInv` (the returned index is ready, contexts come back clean), `ResumesOnlyTheSuspended`, `RegisteredInputResumes`, `WhenAllEnds` |
| `shared_result` | 3 holders | 40216 | `SharedInv`, `ResumedInOrder`, `SharedCallsReturn` |
| `thread_pool` | 2 workers, 1 client, 3 tasks, idle time-outs, shutdown | 116960 | `Inv`, `NoLostWakeUp`, `ImplementsExecutor`, `TasksAndShutdownEnd` |
| `worker_thread` | 2 clients, 4 tasks, spans of 2 | 12122 | `Inv`, `RunsInOrder`, `ImplementsExecutor`, `TasksAndShutdownEnd` |
| `manual_executor` | 2 clients, 3 tasks | 495828 | `Inv` (tasks in one place, taken in order, no lost notification, answers that agree with what the call took or found), `ImplementsExecutor`, `CallsEnd` |
| `async_condition_variable` | 2 consumers, 2 producers, one of each inline, 1 user of a guard | 180790 | `Inv` of the lock (mutual exclusion included), `CvInv`, `ImplementsAsyncLock`, `EveryAwaiterEnds`, `EveryConsumerEnds` |
| `timer_queue` | 1 held timer, 1 delay, 2 ticks | 85323 | `TimerInv`, `EveryDelayEnds`, `TimersAndShutdownEnd` |
| `executors` | three components that share no state, each in all of its behaviours while the other two are as they begin | 640981 | |
| - `Runtime` | 2 coroutines, 3 posts each; an inline executor, two pools and a manual executor | 475980 | `RuntimeInv`, `RuntimeEnds` |
| - `ThreadExecutor` | 4 tasks, spans of 2, failing threads | 16363 | `Inv`, `ImplementsExecutor`, `ThreadsAndShutdownEnd` |
| - `IdleWorkerSet` | 3 workers, 1 client, 2 calls at a time | 148640 | `IdleInv`, `FindsWhatStaysIdle` |
| `when_any_ready` | 2 results | | violated: `ReadyWhenOneCompletes` |
| `wait_for_task_for` | 2 clients, 3 tasks | | violated: `WaitForTaskForIsRight` |
| `runs_where_sent` | 1 coroutine, 2 posts, the executors of `Runtime` | | violated: `RunsWhereSent` |

Why the bounds are enough: results do not interact except through a `when_any`
context, where two of them make every race (first, second, registering
coroutine).  Two workers are what donation, balancing and stealing an idle flag
need, three tasks what a slice with a remainder needs; the pool was also checked
once with four tasks (1277618 states).  Spans of two and a second client let an
enqueuer find the queue not empty, so that it does not release the semaphore.
A consumer, a producer and the user
of a guard are a holder, an awaiter and one that barges in.  Two ticks let a
regular timer fire twice.  Three posts are a submission, a `resume_on` that is
interrupted and another one by the coroutine that caught `broken_task`.  Two
executors of one kind, the pools, are what the thread-local worker of another pool
needs.  The executors of `Runtime` are the built-in ones without `thread_executor`
and one that `make_executor` makes; a thread of a `worker_thread_executor` that
finds the abort flag destroys the task it has popped, which `discard` models, and
which with a fifth executor was checked once (2338738 states) and is proved for
every set of executors.  Three workers let a scan start, wrap around and skip its
caller.  One result is enough for `coroutine`, since coroutines meet only through
executors and results.
Deadlock is not checked, because clients may stop calling; that nobody waits for
ever is stated as a liveness property instead.  Calls, tasks and threads are bounded,
so "each of them ends" is stated there as "in the end all have ended"
(`ThreadsAndShutdownEnd`, `RuntimeEnds`, `EveryAwaiterEnds`).

Fairness: threads and coroutines that can take a step do (weak fairness of each
thread's steps), tasks end, time passes.  Nothing is assumed of clients' calls, of
idle time-outs or of who calls shutdown.  Strong fairness is assumed in three places:
a weak compare-exchange does not fail spuriously for ever (`shared_await_cas`), a
body that can end again and again does (`BodyEnds`), and a wait whose deadline has passed is not woken up spuriously for ever
(`deadline_reached`).  `EveryAwaiterEnds` holds for the bounded number of calls
(`MaxLocks`): with unbounded barging the code promises no such thing.  In `Runtime`
nothing is assumed of the user, who may never loop the manual executor.

## Proofs

Every safety property of the passing runs is proved, for every value of the
constants, by a theorem whose statement names it.  Where a property is not inductive, the module
of proofs defines the invariant that is (`IInv`, or a name of its own) and proves
that it holds at first, that each action preserves it, and that the property
follows.  Modules that share state (`ResultState` and its users, `AsyncLock` and the
condition variable) are proved together; the others share a module of proofs but no
variables.

**Results.** `ResultProofs` first proves for every set of results that `Inv` is an invariant of
`ResultState` (`InvariantHolds`), and from it `TypeCorrect`, `AssertionsNeverFail`,
`ContextIsRaceFree`, `StateDeletedExactlyOnce`, `WakeUpsAreNotLost`, and that every
step is a step of `AsyncResult` or a stutter (`ProtocolImplementsAsyncResult`).
None of these properties is inductive by itself: that the producer which is about
to call `resume_consumer` finds a context that nobody writes depends on which
labels of the consumer go with which value of `m_pc_state`.  `Protocol(r)` in
`ResultState` states this correspondence, in both directions before the
publication, and what each kind of publication leaves to be done after it.  Each
action preserves it for its own result and leaves the others alone.

It then proves that coroutines of every kind, as producers, use the result state as
its protocol allows: the composition implements `ResultState`
(`CoImplementsResultState`), so that what is proved of that holds of it
(`CoKeepsTheProtocol`, `CoDeletesExactlyOnce`, `CoImplementsAsyncResult`).  That a
frame is destroyed exactly when its state is (`CoFramesAreDeletedOnce`) needs
`FrameProtocol`, which relates the place of the body, `m_done_handle` and the place
of the producer: before the last suspension the producer has not published.  That
lazy tasks and generators have one owner (`CalleesHaveOneOwner`) needs `CalleesInv`:
the handle is held by exactly one of the object, the awaitable and the resolver, a
generator is never awaited, and only a coroutine that is scheduled by an executor
can be interrupted.

**when_any, when_all.** `WhenAllProofs` proves for every set of results and any number of calls that
`WhenInv` holds of `when_any` and `when_all` (`WhenAnyAndAllAreSafe`), and that a
producer resumes the coroutine of `when_any` only while that of the latest call is
suspended (`ProducersResumeOnlyTheSuspended`).  The protocol of `ResultState` does
not carry over, since here the coroutine of `when_any` registers with many results
and producers of earlier calls may still be in `try_resume`.  The inductive invariant
`WhenProtocol` says, of each result, which places of its user go with which
`m_pc_state` and which context (`ResultInv`, `InputInv`); that the context of the
latest call is registered only at the inputs that the first loop has visited and the
second has not (`MayBeSet`); that the context of every earlier call holds its result
already, so that a late producer of one finds it there and resumes nobody
(`ContextsInv`); what the coroutine knows of the input that it is at (`VisitInv`);
and how far `when_all` has got (`AllInv`).

**Shared results.** `ResultProofs` also proves for any set of holders that `SharedInv` holds
(`SharedResultsAreFinishedOnce`) and that awaiters are resumed in the order in which
they came (`AwaitersAreResumedInOrder`).  The inductive invariant `SharedProtocol`
says whether the shared state is the consumer of the result, by the place of the
constructor and of the destructor (`EndsInv`), who of the constructor and the
producer is in `on_result_finished` and that one of them has been there or will be
(`FinishInv`), and what `on_result_finished` has done so far (`ProgressInv`): a
suspended holder is in the list or among those being resumed.  The order rests on a
lemma about the loop that reverses the list.

**Lock and condition variable.** `ResumptionProofs` first proves for every set of coroutines and every
bound on calls that `Inv` of `AsyncLock` is inductive (`InvariantHolds`), and from it
`LockExcludes`, `AwaitersAreNotStranded` and `LockStateIsConsistent`.  Mutual
exclusion needs the agreement of `m_locked` with the holders, and that nobody is
stranded needs the agreement of the list with the suspended coroutines.  The
condition variable and the guards implement `AsyncLock` for any coroutines, inline
executors and bounds (`CvImplementsAsyncLock`), so its invariant follows for them
(`CvKeepsTheLock`).  That no notification is lost (`NotificationsAreNotLost`, which
states `CvInv`) needs `CvProtocol`: which steps go with which place in the lock
(`StepsMatchTheLock`), that `await_suspend` holds the mutex from before it unlocks
the lock until it is in the list and that there is no item as long as it has the
lock (`MutexMatches`), that nobody is in two lists (`ListsAreApart`), and that the
bound on items holds from the moment of the unlock, not only once the awaiter is in
the list (`ItemsAreCounted`).

**Runtime.** `ExecutorProofs` proves for any executors, coroutines and bounds that
`RuntimeInv` is an invariant (`RuntimeInvariant`).  From it follows that coroutines run
where they were sent (`CoroutinesRunWhereSent`: `RunsWhereSent`, for any executors of
which at most one is a thread pool; with two the run `runs_where_sent` refutes it).  The strengthening is `TaskInv`, which
says which slot goes with which place of the coroutine and on whose thread the slot
may be, and `DestructorInv`, which says what is closed when: no executor is shut
down before the timer queue is closed, therefore the worker of the timer queue
never posts to one that is, and is not terminated by the exception.

**Idle workers.** `ExecutorProofs` proves for any number of workers, clients and calls
that `IdleInv` is inductive as it stands (`IdleWorkersAreCounted`): an access to
a flag changes the number of flags and the set of counts that are outstanding by the
same worker, and the access to `m_approx_size` that follows settles it.  That scans
find what stays idle (`ScansMissNobody`) needs `ScanSees`: the workers that were there
when the scan read `m_approx_size` and that nobody else took still have their flag
unless the scan has taken it, it has taken those that it has passed, and the budget
it read is what was asked for or is enough for all of them.  The last part comes from
`IdleWorkersAreCounted`, and that the scan passes everyone from `TurnIsUnique`: the
index modulo the size goes through each worker once.

**Thread executor.** `ExecutorProofs` proves for any number of tasks, whichever threads cannot be
started, that `Inv` of `ThreadExecutor` holds (`ThreadHandlesAreKept`) and that it
implements `Executor` (`ThreadsImplementExecutor`).  That shutdown joins all threads
by joining one needs `IInv`: the retired threads that nobody has joined form a
sequence in which each has the handle of the one before it.  A thread that has ended
has no handle, so it is the first one; each join removes the first one, and the
sequence that shutdown's join finds has ended at its last, hence only, member.

**Worker thread.** `WorkerThreadProofs` proves for any number of clients, tasks and spans that `Inv` of
`WorkerThread` holds (`TasksAreKept`), that tasks run in order (`TasksRunInOrder`),
and that it implements `Executor` (`WorkerImplementsExecutor`).  The strengthening
`IInv` says that the places of a task are disjoint (`Apart`), that a task which is
still to be run is preceded, in the hand of the thread, the private queue and the
public queue, by every older task that has not run, with the exception that
`RunsInOrder` makes (`Ordered`), and that nothing is
refused before the flag which its enqueuer reads is set (`Refusals`): otherwise an
accepted task could follow an older one that was destroyed.

**Thread pool.** `ThreadPoolProofs` proves for any number of pools, workers, clients
and tasks that `Inv` of `ThreadPool` holds (`ThreadPoolIsCorrect`), that no wake-up is
lost (`NoWakeUpIsLost`), and that the pools implement `Executor`
(`ThreadPoolImplementsExecutor`).  The inductive invariant `IInv` is in
`ThreadPoolControlProofs` and has two halves.

* The control of each worker (`Controlled`): which calls, owed signals and tasks go
  with which point of its loop (`Caller`), that `m_idle` says whether it has a thread
  (`Active`), that shutdown leaves it quiet (`Quiet`), that its private queue is empty
  where `drain_queue` asserts so (`EmptyUntilShutdown`), and that a worker about to
  wait finds the flag and the signal of whatever came since it last looked (`Woken`).
  This needs `Flags`, the abort flags by how far shutdown has walked over the workers.
* The places of tasks: every task made is in exactly one place (`Once`,
  `Somewhere`), no queue and no call has one twice (`Queued`, `Arguments`).  The hard
  step is a donation.  `Donor` says that the slots of the slices given away are empty
  and that the calls to come are the slices that follow; that they are disjoint and
  leave the donor at least one task is a lemma about `SliceBegin` and `SliceLength`.

`ThreadPoolProofs` shows that each action moves a task along one of eight passages
from one kind of place to another, or leaves it (`Passes`), and that the books are
balanced after it (`Balanced`).  Since the abstract state of a task is a function of
the kind of its place (`StateIn`), the passages are also the steps of `Executor`.

**Manual executor.** `ManualExecutorProofs` proves for any clients, tasks and calls that
`Inv` of `ManualExecutor` holds (`ManualExecutorIsCorrect`) and that it implements
`Executor` (`ManualImplementsExecutor`).  `IInv` adds that a task still to be run is in
one place (`Apart`), what the place of a client says about its task and how far its
loop is (`ClientPlaces`), and which flags go with the place of shutdown (`Flags`): once
`m_abort` is set the queue stays empty, without which a task accepted late would be
neither run nor destroyed.  What the answers say (`AnswersAreRight`) is stated with
three history variables: the tasks that a loop took, how many tasks the last look
under the lock found, and whether the call began after shutdown had returned.  It
needs that a loop has run all that it took but the task in its hand (`Taken`), and
that the queue is in the order of enqueueing behind everything that was taken from it
(`Ordered`).

**Timer queue.** `ResumptionProofs` proves for any timers, due times and frequencies
that `TimerInv` holds (`TimerQueueIsCorrect`).  `IInv` adds that threads are
started one after the other, no more of them than timers were made, and only the last
one is at work (`Threads`), that shutdown leaves no worker and the executor goes after
it (`Shutting`), that a timer is in one of the lists at most
(`OneList`), that what is removed was cancelled by the client that holds it
(`Removals`), and that a delay is referred to as long as its coroutine has not been
resumed, and once (`Delays`).

The proofs rest on the named assumptions of the modules only: bounds are natural
numbers (at least one call of `when_any`, one lazy task, one worker), threads and
coroutines are finitely many where they are counted and have one role each, results
that are passed to `when_any` are numbered by their position, the shared result
exists, executors have different names and one kind each, a client of a pool is not
one of its workers, timers are either held or delays, due times are natural numbers
and frequencies positive ones.

Only model-checked are the liveness properties (`CallsReturn`, `EveryFrameEnds`,
`RegisteredInputResumes`, `WhenAllEnds`, `SharedCallsReturn`, `TasksAndShutdownEnd`,
`CallsEnd`, `ThreadsAndShutdownEnd`, `EveryAwaiterEnds`, `EveryConsumerEnds`,
`EveryDelayEnds`, `TimersAndShutdownEnd`, `RuntimeEnds`): fairness and `ENABLED` are
beyond the proof system.  What stands in for them in the theorems are the safety parts
that they rest on, such as `NoLostWakeUp`, `NoLostNotify` and `NoLostRequest`.

## Where the code and its documentation differ

Three are runs that TLC refutes:

* `when_any` (`result_state.cpp:77`) returns the state loaded before the
  compare-exchange.  An input that completes in between is taken for registered
  and is never reported.  README:1253 says that the result "becomes ready when at
  least one input result is completed".
* `manual_executor::wait_for_task_for` compares the number of tasks with 1
  (`manual_executor.cpp:209`; `wait_for_task_until`, `manual_executor.h:77`, does the
  same) and answers false when there are two or more.  README:486 says "Returns true
  if at at least one task is available for execution, false otherwise."
* `thread_pool_executor::enqueue` (`thread_pool_executor.cpp:558`) takes the
  thread-local worker whichever pool it belongs to, so that a task may run in
  another pool than the one it was enqueued to: a coroutine on the thread pool that
  does `resume_on` with the background executor goes on in the thread pool.
  README:230 says "Schedules a task to run in this executor.", README:1303 that
  `resume_on` "resumes it inside executor".

The others are exceptions that the passing properties name, so that the rest is
checked around them:

* `wait_for` (`result_state.h:139-142`) returns a final status as soon as its
  rewind fails, when `complete_producer` has yet to read `m_consumer`
  (`result_state.h:189`, `consumer_context.cpp:209`).  A consumer that then
  destroys the result deletes the state under the producer.  `Protocol` says that
  this happens with a `wait_for` context only.  The destructor of
  `shared_result_state` (`shared_result_state.h:76`) has the same window.
* A pool worker whose idle time-out passes just as a task is put in its public
  queue ends without looking at the queue (`thread_pool_executor.cpp:306`).  The
  task waits for the next enqueue to that worker, or for shutdown: `LeftBehind`.
* `scoped_async_lock::unlock` resets `m_owns` after the unlock, which may run the
  next holder first (`async_lock.cpp:203`): `GuardsMatchTheLock` allows a guard
  that claims another's lock there and nowhere else.
* `m_atomic_abort` is set before `m_abort`, so a worker may leave with tasks and be
  started again in between; `assert(m_private_queue.empty())`
  (`thread_pool_executor.cpp:359`) then fails.  With two pools of two workers it may
  also fail in a pool that is not being shut down: a task of one pool that enqueues to
  the other while that is shut down ends its own worker with `runtime_shutdown`, the
  private queue keeps its tasks, and the next enqueue starts the worker again.  (The
  attempt to prove the assertion pool by pool showed this; TLC has a trace of 17
  steps.)  `PrivateQueueEmptyOnSwap` holds until shutdown of any pool begins.
* A thread that cannot be created leaves its node in `m_workers`
  (`thread_executor.cpp:20`), and shutdown waits for it for ever (README:255): the
  label "failed" in `ThreadsAndShutdownEnd`.
* `cv_awaiter::await_suspend` unlocks the `async_lock` with the mutex of the
  condition variable held (`async_condition_variable.cpp:22`).  A coroutine that
  this resumes inline and that awaits or notifies locks it again: `LocksAgain`.
* A timer cancelled after `process_timers` has looked at `m_cancelled`
  (`timer_queue.cpp:117`) is posted once more; README:1426-1427 says that it will
  not be scheduled again.  `OnceAfterCancel` says that it is once at most.
* `timer_queue::shutdown` destroys requests under `m_lock` (`timer_queue.cpp:247`).
  A coroutine resumed by the destruction of its delay that uses the queue locks it
  again: `LocksTwice` of `TimerQueue`, where delays and shutdown may not end.
* `idle_worker_set` sets a flag before it counts it (`thread_pool_executor.cpp:96`),
  so a scan that begins in between may miss that worker.  `FindsWhatStaysIdle`
  counts only scans that begin when no such count is outstanding.

## Not modelled

`bind`, the storage of a callable inside a task, and the data that results and
generators carry are sequential and left out; so are names and callbacks of
threads, consts and the conversion of durations.

Calls of `shutdown` from a thread of the executor itself, and callables that throw
out of an executor's thread, are left out.  In `Runtime` executors are shut down by
the destructor only, and `make_executor` is called before it: the runtime must
outlive its users, and a coroutine that called it from inside `shutdown_all`, which
holds `m_lock`, would lock it again.  A coroutine that the shutdown of the timer
queue resumes on the destructor's thread does not come back to the queue in
`Runtime`, since `TimerQueue` treats that case.  Creating a thread may fail in
`ThreadExecutor` only.

## Further work

A run of `ThreadPool` with two pools under shutdown; liveness of more than the bounded
instances, should the proof system come to support fairness.
