------------------------------ MODULE TimerQueue ------------------------------
(***************************************************************************)
(* timer_queue and its timers: clients add and cancel timers through a     *)
(* queue of requests; one worker thread, which ends when there was nothing *)
(* to do for a while and is started again by the next timer, posts each    *)
(* timer that is due to its executor.                                      *)
(*                                                                         *)
(* A timer is regular, one-shot or a delay object: a one-shot timer whose  *)
(* callable resumes the coroutine that awaits it, and whose destruction    *)
(* without a call resumes that coroutine with broken_task.  A step is one  *)
(* critical section of m_lock, or one access to what threads share outside *)
(* of it.  Time is a clock of MaxTime ticks.                               *)
(***************************************************************************)
EXTENDS Integers, Sequences, FiniteSets

CONSTANTS
    Held, Delay,        \* the timers that clients keep, and the delay objects
    DueTimes,           \* due times, in ticks
    Frequencies,        \* frequencies that timers have at one time or another
    MaxTime

Timers == Held \cup Delay

ASSUME KindsDiffer == Held \cap Delay = {} /\ IsFiniteSet(Timers)
ASSUME TicksAreNat == MaxTime \in Nat /\ DueTimes \subseteq Nat /\ Frequencies \subseteq Nat \ {0}

\* Each call of add_timer starts a thread at most.
Workers == 1 .. Cardinality(Timers)
NoWorker == 0

VARIABLES
    m_request_queue, m_idle, m_abort, m_atomic_abort,
    m_worker,           \* the thread that m_worker is the handle of
    now,
    worker,             \* where each thread is
    requests,           \* request_queue, the requests it has taken
    m_timers, m_iterator_mapper,    \* the timers in the set, and those in the map
    time,               \* now in process_timers, 0 outside of it
    firing,             \* the timer that is extracted to be fired
    deadline,           \* of a timer that is set, 0 once it has been fired for good
    cancelled,
    m_is_oneshot,       \* of a timer that has been made
    handle,             \* where the client of each timer is
    old,                \* the thread that it joins
    posted, again,      \* the timers that were posted, and those posted more than once
    tasks,              \* the delays whose task is in the executor
    resumes,            \* how often the coroutine of a delay was resumed
    broken,             \* the delays that were resumed with broken_task
    late,               \* how often a timer was posted after cancel had returned
    executor,           \* "open", or "closed" once the executor was shut down
    shut                \* where the first call of shutdown is

queue == <<m_request_queue, m_idle, m_abort, m_atomic_abort, m_worker>>
local == <<requests, m_timers, m_iterator_mapper, time, firing>>
timer == <<deadline, cancelled, m_is_oneshot>>
client == <<handle, old>>
post == <<posted, again, tasks>>
coro == <<resumes, broken>>
timerVars == <<queue, now, worker, local, timer, client, post, coro, late, executor, shut>>

WorkerLabels ==
    {"none", "lock", "sleep", "timed_out", "process", "loop", "fire", "leaving", "ended",
     "terminated"}
HandleLabels ==
    {"none", "notify", "join", "live", "refused", "remove", "remove_notify", "gone"}

\* The state of the queue: one timer at most is extracted at a time, and the
\* coroutine of a delay is resumed once at most.
TimerTypeOK ==
    /\ m_request_queue \in Seq(Timers \X {"add", "remove"})
    /\ requests \in Seq(Timers \X {"add", "remove"})
    /\ \A b \in {m_idle, m_abort, m_atomic_abort} : b \in BOOLEAN
    /\ m_worker \in Workers \cup {NoWorker}
    /\ now \in 0 .. MaxTime
    /\ worker \in [Workers -> WorkerLabels]
    /\ m_timers \subseteq Timers /\ m_iterator_mapper \subseteq Timers
    /\ time \in 0 .. MaxTime
    /\ firing \subseteq Timers /\ Cardinality(firing) <= 1
    /\ deadline \in [Timers -> Nat]
    /\ cancelled \in [Timers -> BOOLEAN] /\ m_is_oneshot \in [Timers -> BOOLEAN]
    /\ handle \in [Timers -> HandleLabels]
    /\ old \in [Timers -> Workers \cup {NoWorker}]
    /\ again \subseteq posted /\ posted \subseteq Timers
    /\ tasks \subseteq Delay \cap posted
    /\ resumes \in [Delay -> {0, 1}]
    /\ broken \subseteq Delay /\ late \in [Timers -> Nat]
    /\ executor \in {"open", "closed"}
    /\ shut \in {"no", "lock", "relocked", "notify", "join", "done"}

TimerInit ==
    /\ m_request_queue = <<>> /\ requests = <<>>
    /\ m_idle = TRUE /\ m_abort = FALSE /\ m_atomic_abort = FALSE
    /\ m_worker = NoWorker
    /\ now = 0 /\ time = 0
    /\ worker = [w \in Workers |-> "none"]
    /\ m_timers = {} /\ m_iterator_mapper = {} /\ firing = {}
    /\ deadline = [t \in Timers |-> 0]
    /\ cancelled = [t \in Timers |-> FALSE]
    /\ m_is_oneshot = [t \in Timers |-> t \in Delay]
    /\ handle = [t \in Timers |-> "none"]
    /\ old = [t \in Timers |-> NoWorker]
    /\ posted = {} /\ again = {} /\ tasks = {}
    /\ resumes = [t \in Delay |-> 0]
    /\ broken = {} /\ late = [t \in Timers |-> 0]
    /\ executor = "open"
    /\ shut = "no"

-----------------------------------------------------------------------------

OneShot == {t \in Timers : m_is_oneshot[t]}

WorkerGoes(w, from, to) == worker[w] = from /\ worker' = [worker EXCEPT ![w] = to]
HandleGoes(t, from, to) == handle[t] = from /\ handle' = [handle EXCEPT ![t] = to]

\* The timers that somebody refers to: the lists of the queue and its worker, a
\* client that is in a call or keeps the timer, and the tasks in the executor.
Referred ==
    {m_request_queue[i][1] : i \in DOMAIN m_request_queue} \cup {requests[i][1] : i \in DOMAIN requests}
        \cup m_iterator_mapper \cup firing
        \cup {t \in Timers : handle[t] \in {"notify", "join", "live", "remove"}}
        \cup tasks

\* ~await_via_functor: the coroutines whose delay goes without having been called.
Break(refused) ==
    LET gone == {t \in Delay : /\ handle[t] # "none" \/ t \in refused
                               /\ resumes[t] = 0
                               /\ t \notin Referred'}
    IN  /\ broken' = broken \cup gone
        /\ resumes' = [t \in Delay |-> IF t \in gone THEN resumes[t] + 1 ELSE resumes[t]]

\* m_lock can be taken, as long as the thread in shutdown does not wait for it
\* with the lock in its own hands.
Lockable == shut # "relocked"

\* m_condition.notify_one / notify_all: only the worker waits there.
Notified == [w \in Workers |-> IF worker[w] = "sleep" THEN "lock" ELSE worker[w]]

-----------------------------------------------------------------------------
(* Clients: make_timer, make_one_shot_timer, make_delay_object, cancel.    *)

\* make_timer_impl: the client keeps the timer, unless it is a delay object.
Made(t) == IF t \in Delay THEN "gone" ELSE "live"

\* Mutant: the worker that ended is not replaced.
ensure_worker_thread_once(t) ==
    /\ IF m_worker = NoWorker
       THEN m_worker' = 1 /\ worker' = [worker EXCEPT ![1] = "lock"]
       ELSE UNCHANGED <<m_worker, worker>>
    /\ m_idle' = FALSE
    /\ UNCHANGED old

ensure_worker_thread(t) ==
    /\ IF m_idle
       THEN /\ m_worker' = m_worker + 1
            /\ worker' = [worker EXCEPT ![m_worker + 1] = "lock"]
            /\ old' = [old EXCEPT ![t] = m_worker]
       ELSE UNCHANGED <<m_worker, worker, old>>
    /\ m_idle' = FALSE

add_timer(t, due, once) ==
    /\ Lockable
    /\ t \in Delay => once
    /\ m_is_oneshot' = [m_is_oneshot EXCEPT ![t] = once]
    /\ now + due <= MaxTime
    /\ deadline' = [deadline EXCEPT ![t] = now + due]
    /\ \/ /\ m_abort
          /\ HandleGoes(t, "none", "refused")
          /\ UNCHANGED <<m_request_queue, m_worker, worker, old, m_idle>>
       \/ /\ ~m_abort
          /\ HandleGoes(t, "none", "notify")
          /\ ensure_worker_thread(t)
          /\ m_request_queue' = Append(m_request_queue, <<t, "add">>)
    /\ UNCHANGED <<m_abort, m_atomic_abort, now, local, cancelled, post>>
    /\ UNCHANGED <<late, executor, shut>>
    /\ Break({t})

add_notify(t) ==
    /\ HandleGoes(t, "notify", IF old[t] = NoWorker THEN Made(t) ELSE "join")
    /\ worker' = Notified
    /\ UNCHANGED <<queue, now, local, timer, old, post, late, executor, shut>>
    /\ Break({})

\* The worker that was replaced is joined.
add_join(t) ==
    /\ HandleGoes(t, "join", Made(t))
    /\ worker[old[t]] = "ended"
    /\ old' = [old EXCEPT ![t] = NoWorker]
    /\ UNCHANGED <<queue, now, worker, local, timer, post, late, executor, shut>>
    /\ Break({})

\* timer::cancel, or the destructor.
cancel(t) ==
    /\ t \in Held
    /\ HandleGoes(t, "live", "remove")
    /\ cancelled' = [cancelled EXCEPT ![t] = TRUE]
    /\ UNCHANGED <<queue, now, worker, local, deadline, m_is_oneshot, old, post, coro, late, executor, shut>>

remove_internal_timer(t) ==
    /\ Lockable
    /\ HandleGoes(t, "remove", "remove_notify")
    /\ m_request_queue' = Append(m_request_queue, <<t, "remove">>)
    /\ UNCHANGED <<m_idle, m_abort, m_atomic_abort, m_worker, now, worker, local, timer>>
    /\ UNCHANGED <<old, post, coro, late, executor, shut>>

remove_notify(t) ==
    /\ HandleGoes(t, "remove_notify", "gone")
    /\ worker' = Notified
    /\ UNCHANGED <<queue, now, local, timer, old, post, coro, late, executor, shut>>

-----------------------------------------------------------------------------
(* The worker: work_loop, and process_timers of timer_queue_internal.      *)

\* The predicate of both waits.
Wanted == m_request_queue # <<>> \/ m_abort

TakeRequests(w) ==
    /\ worker' = [worker EXCEPT ![w] = "process"]
    /\ requests' = m_request_queue
    /\ m_request_queue' = <<>>
    /\ UNCHANGED <<m_idle, m_timers, m_iterator_mapper>>

\* What the worker does with the lock: it leaves, because the queue is shut
\* down or has been idle, takes the requests, or waits.
work_lock(w) ==
    /\ Lockable
    /\ worker[w] \in {"lock", "timed_out"}
    /\ \/ /\ m_abort
          /\ worker' = [worker EXCEPT ![w] = "ended"]
          /\ m_timers' = {} /\ m_iterator_mapper' = {}
          /\ UNCHANGED <<m_idle, m_request_queue, requests>>
       \/ /\ ~m_abort
          /\ m_request_queue # <<>> \/ (worker[w] = "timed_out" /\ m_timers # {})
          /\ TakeRequests(w)
       \/ /\ ~Wanted /\ worker[w] = "lock"
          /\ worker' = [worker EXCEPT ![w] = "sleep"]
          /\ UNCHANGED <<m_idle, m_request_queue, requests, m_timers, m_iterator_mapper>>
       \/ /\ ~Wanted /\ worker[w] = "timed_out" /\ m_timers = {}
          /\ worker' = [worker EXCEPT ![w] = "leaving"]
          /\ m_idle' = TRUE
          /\ UNCHANGED <<m_request_queue, requests, m_timers, m_iterator_mapper>>
    /\ UNCHANGED <<m_abort, m_atomic_abort, m_worker, now, time, firing, timer, client>>
    /\ UNCHANGED <<post, late, executor, shut>>
    /\ Break({})

\* The timers that are first in the set, which is ordered by deadlines.
Closest == {t \in m_timers : \A u \in m_timers : deadline[t] <= deadline[u]}

\* wait_until reaches next_deadline.
deadline_reached(w) ==
    /\ \E t \in Closest : deadline[t] <= now
    /\ WorkerGoes(w, "sleep", "timed_out")
    /\ UNCHANGED <<queue, now, local, timer, client, post, coro, late, executor, shut>>

\* wait_for reaches max_waiting_time.
idle_time_out(w) ==
    /\ m_timers = {}
    /\ WorkerGoes(w, "sleep", "timed_out")
    /\ UNCHANGED <<queue, now, local, timer, client, post, coro, late, executor, shut>>

spurious_wake_up(w) ==
    /\ WorkerGoes(w, "sleep", "lock")
    /\ UNCHANGED <<queue, now, local, timer, client, post, coro, late, executor, shut>>

leave_loop(w) ==
    /\ WorkerGoes(w, "leaving", "ended")
    /\ UNCHANGED <<queue, now, local, timer, client, post, coro, late, executor, shut>>

\* Requests are applied in the order in which they were made: the last one for a
\* timer decides whether it is there.
RequestsFor(t) == {i \in DOMAIN requests : requests[i][1] = t}
Applied(timers) ==
    {t \in timers : RequestsFor(t) = {}} \cup
    {t \in Timers : \E i \in RequestsFor(t) :
                       requests[i][2] = "add" /\ \A j \in RequestsFor(t) : j <= i}

process_request_queue(w) ==
    /\ WorkerGoes(w, "process", "loop")
    /\ m_timers' = Applied(m_timers)
    /\ m_iterator_mapper' = Applied(m_iterator_mapper)
    /\ requests' = <<>>
    /\ time' = now
    /\ UNCHANGED <<queue, now, firing, timer, client, post, late, executor, shut>>
    /\ Break({})

\* The loop of process_timers: it ends, or extracts the timer with the closest
\* deadline and looks whether it is cancelled.
process_timers(w) ==
    /\ \/ /\ \A t \in m_timers : deadline[t] > time
          /\ WorkerGoes(w, "loop", "lock")
          /\ time' = 0
          /\ UNCHANGED <<m_timers, m_iterator_mapper, firing>>
       \/ \E t \in Closest :
             /\ deadline[t] <= time
             /\ m_timers' = m_timers \ {t}
             /\ UNCHANGED time
             /\ \/ /\ cancelled[t]
                   /\ WorkerGoes(w, "loop", "loop")
                   /\ m_iterator_mapper' = m_iterator_mapper \ {t}
                   /\ UNCHANGED firing
                \/ /\ ~cancelled[t]
                   /\ WorkerGoes(w, "loop", "fire")
                   /\ firing' = {t}
                   /\ UNCHANGED m_iterator_mapper
    /\ UNCHANGED <<queue, now, requests, timer, client, post, late, executor, shut>>
    /\ Break({})

\* timer_state_base::fire and what follows it: a regular timer is put back with
\* its next deadline (set_frequency may have changed the frequency).
Posted(w, t) ==
    /\ posted' = posted \cup {t}
    /\ again' = again \cup ({t} \cap posted)
    /\ tasks' = tasks \cup ({t} \cap Delay)
    /\ IF ~m_is_oneshot[t]
       THEN \E f \in Frequencies : deadline' = [deadline EXCEPT ![t] = now + f]
       ELSE deadline' = [deadline EXCEPT ![t] = 0]
    /\ late' = [late EXCEPT ![t] = IF t \notin Delay /\ handle[t] = "gone" THEN @ + 1 ELSE @]
    /\ firing' = {}
    /\ WorkerGoes(w, "fire", "loop")

\* Mutant: a one-shot timer is put back too.
fire_again(w) ==
    /\ executor = "open"
    /\ \E t \in firing : Posted(w, t) /\ m_timers' = m_timers \cup {t}
    /\ UNCHANGED <<queue, now, requests, m_iterator_mapper, time, cancelled, m_is_oneshot, client>>
    /\ UNCHANGED <<executor, shut>>
    /\ Break({})

\* An executor that is shut down throws, out of the worker's thread: the program
\* is terminated.
fire(w) ==
    /\ \/ /\ executor = "open"
          /\ \E t \in firing :
                /\ Posted(w, t)
                /\ m_timers' = m_timers \cup ({t} \ OneShot)
                /\ m_iterator_mapper' = m_iterator_mapper \ ({t} \cap OneShot)
       \/ /\ executor = "closed"
          /\ WorkerGoes(w, "fire", "terminated")
          /\ UNCHANGED <<post, deadline, late, firing, m_timers, m_iterator_mapper>>
    /\ UNCHANGED <<queue, now, requests, time, cancelled, m_is_oneshot, client, executor, shut>>
    /\ Break({})

-----------------------------------------------------------------------------
(* The executor, the clock and shutdown.                                   *)

\* timer_state::execute: the callable of a delay resumes its coroutine, unless the
\* timer is cancelled, which that of a delay never is: nobody has a handle to it.
\* What the callables of other timers do is not modelled.
execute(t) ==
    /\ t \in tasks /\ ~cancelled[t]
    /\ tasks' = tasks \ {t}
    /\ resumes' = [resumes EXCEPT ![t] = @ + 1]
    /\ UNCHANGED <<queue, now, worker, local, timer, client, posted, again, broken, late, executor, shut>>

\* The runtime shuts down its executors after the timer queue; the tasks that
\* were not run are destroyed.
shutdown_executor ==
    /\ shut = "done"
    /\ executor = "open" /\ executor' = "closed"
    /\ tasks' = {}
    /\ UNCHANGED <<queue, now, worker, local, timer, client, posted, again, late, shut>>
    /\ Break({})

tick ==
    /\ now < MaxTime /\ now' = now + 1
    /\ UNCHANGED <<queue, worker, local, timer, client, post, coro, late, executor, shut>>

shutdown ==
    /\ shut = "no" /\ shut' = "lock"
    /\ m_atomic_abort' = TRUE
    /\ UNCHANGED <<m_request_queue, m_idle, m_abort, m_worker, now, worker, local, timer>>
    /\ UNCHANGED <<client, post, coro, late, executor>>

\* Without a worker there is nothing more to do.  Otherwise the requests are
\* destroyed under the lock, and with them the delays that are in no other place.
\* A coroutine that this resumes, and that makes or cancels a timer, locks m_lock
\* again on the same thread.
shutdown_lock ==
    /\ shut = "lock"
    /\ m_abort' = TRUE
    /\ m_request_queue' = IF m_worker = NoWorker THEN m_request_queue ELSE <<>>
    /\ UNCHANGED <<m_idle, m_atomic_abort, m_worker, now, worker, local, timer>>
    /\ UNCHANGED <<client, post, late, executor>>
    /\ Break({})
    /\ \/ shut' = IF m_worker = NoWorker THEN "done" ELSE "notify"
       \/ broken' # broken /\ shut' = "relocked"

\* Mutant: the worker is not notified.
shutdown_notify_none ==
    /\ shut = "notify" /\ shut' = "join"
    /\ UNCHANGED <<queue, now, worker, local, timer, client, post, coro, late, executor>>

shutdown_notify ==
    /\ shut = "notify" /\ shut' = "join"
    /\ worker' = Notified
    /\ UNCHANGED <<queue, now, local, timer, client, post, coro, late, executor>>

shutdown_join ==
    /\ shut = "join" /\ shut' = "done"
    /\ worker[m_worker] = "ended"
    /\ UNCHANGED <<queue, now, worker, local, timer, client, post, coro, late, executor>>

-----------------------------------------------------------------------------

WorkerStep(w) ==
    \/ work_lock(w) \/ deadline_reached(w) \/ leave_loop(w)
    \/ process_request_queue(w) \/ process_timers(w) \/ fire(w)

ClientStep(t) ==
    add_notify(t) \/ add_join(t) \/ remove_internal_timer(t) \/ remove_notify(t)

ShutdownStep == shutdown_lock \/ shutdown_notify \/ shutdown_join

TimerNext ==
    \/ \E t \in Timers, due \in DueTimes, once \in BOOLEAN : add_timer(t, due, once)
    \/ \E t \in Timers : cancel(t) \/ ClientStep(t)
    \/ \E t \in Delay : execute(t)
    \/ \E w \in Workers : WorkerStep(w) \/ idle_time_out(w) \/ spurious_wake_up(w)
    \/ tick \/ shutdown \/ ShutdownStep \/ shutdown_executor

TimerSpec == TimerInit /\ [][TimerNext]_timerVars

\* Threads go on, time passes and the executor runs its tasks; nothing is assumed
\* of what clients call or of idle time.
\* A wait whose deadline has passed is not woken up spuriously for ever.
TimerFairSpec ==
    /\ TimerSpec
    /\ \A w \in Workers : WF_timerVars(WorkerStep(w)) /\ SF_timerVars(deadline_reached(w))
    /\ \A t \in Timers : WF_timerVars(ClientStep(t))
    /\ \A t \in Delay : WF_timerVars(execute(t))
    /\ WF_timerVars(ShutdownStep) /\ WF_timerVars(tick)

-----------------------------------------------------------------------------
(* Properties.                                                             *)

Adds(s) == {i \in DOMAIN s : s[i][2] = "add"}
Active == {w \in Workers : worker[w] \notin {"none", "leaving", "ended"}}

\* The set and the map hold the same timers (but for the one that is fired);
\* a timer is never added twice, and one that is to be removed and is not there
\* has fired or is cancelled: the assertions of timer_queue_internal.
AssertionsHold ==
    /\ m_timers = m_iterator_mapper \ firing
    /\ firing \subseteq m_iterator_mapper
    /\ \A i \in Adds(requests) : requests[i][1] \notin m_iterator_mapper
    /\ \A i \in DOMAIN requests \ Adds(requests) :
          requests[i][1] \in m_iterator_mapper \cup OneShot \/ cancelled[requests[i][1]]

\* Workers that go idle and are replaced never overlap: one at most is at work,
\* it is the one of m_worker, and it is there exactly while m_idle is not set.
OneWorker ==
    /\ Active \subseteq {m_worker}
    /\ ~m_abort => (Active = {} <=> m_idle)

\* A request to add a timer is not left behind: a worker is there to take it,
\* and if it sleeps someone is about to notify it, as before it shuts down.
NoLostRequest ==
    /\ ~m_abort /\ Adds(m_request_queue) # {} => Active # {}
    /\ \A w \in Active : worker[w] = "sleep" /\ Wanted =>
          \/ shut \in {"notify", "relocked"}
          \/ \E t \in Timers : handle[t] \in {"notify", "remove_notify"}

\* One-shot timers are posted once, and a delay resumes its coroutine once,
\* whether it is run or destroyed, and by whichever of its owners.
OnlyOnce ==
    /\ again \cap OneShot = {}
    /\ \A t \in Delay : resumes[t] <= 1

\* The runtime may shut its executors down when the timer queue's shutdown has
\* returned: no timer is posted after that, so none is thrown back at the worker.
NeverTerminates == \A w \in Workers : worker[w] # "terminated"

\* A timer is posted once at most after cancel has returned, which happens when
\* process_timers has looked at m_cancelled before.
OnceAfterCancel == \A t \in Timers : late[t] <= 1

\* A thread locks m_lock twice only to shut the queue down when a delay was still
\* in the queue of requests and its coroutine uses the timer queue.
LocksTwice == shut = "relocked" /\ broken # {} /\ m_worker # NoWorker

\* The above together: what the worker does with a timer is done once, and is
\* not left to a worker that has gone.
TimerInv ==
    /\ TimerTypeOK /\ AssertionsHold /\ OneWorker /\ NoLostRequest
    /\ OnlyOnce /\ NeverTerminates /\ OnceAfterCancel
    /\ ~Lockable => LocksTwice

\* Every coroutine that awaits a delay is resumed, with broken_task if the queue
\* is shut down before or while the timer is set, unless m_lock is locked twice.
EveryDelayEnds == \A t \in Delay : handle[t] # "none" ~> resumes[t] > 0 \/ LocksTwice

\* A timer that is set is posted, unless it is cancelled or the queue shut down;
\* shutdown "tells the underlying thread of execution to quit and joins it", and
\* comes to an end unless a coroutine that it resumes uses the queue.
TimersAndShutdownEnd ==
    /\ \A t \in Timers : handle[t] = "live" ~> t \in posted \/ cancelled[t] \/ shut # "no"
    /\ shut # "no" ~> shut = "done" \/ LocksTwice

=============================================================================
