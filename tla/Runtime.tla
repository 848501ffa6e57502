------------------------------- MODULE Runtime -------------------------------
(***************************************************************************)
(* The runtime, and what coroutines meet while it is destroyed: they are   *)
(* submitted to executors, hop from one to another with resume_on, and     *)
(* sleep in the timer queue, while ~runtime shuts down the timer queue and *)
(* then every registered executor, one after the other.                    *)
(*                                                                         *)
(* A suspended coroutine is an await_via_functor in a task, which is moved *)
(* from slot to slot until it is called, or destroyed: then its destructor *)
(* resumes the coroutine, on whatever thread destroys it, with broken_task.*)
(* An executor is what Executor promises of it: it accepts tasks until its *)
(* shutdown is called, runs or destroys the ones that it accepted, and its *)
(* shutdown returns when it has none left.                                 *)
(***************************************************************************)
EXTENDS Naturals, Sequences, FiniteSets

CONSTANTS
    Builtin,            \* the executors that the constructor makes, in their order
    Made,               \* those that make_executor may make
    Inline,             \* the inline executors: they run a task where it is enqueued
    Pooled,             \* the thread pools: a worker may keep what it enqueues to another
    Manual,             \* the manual executors: user threads run their tasks
    Coros,
    MaxPosts            \* how often a coroutine is posted, submission included

Executors == {Builtin[i] : i \in DOMAIN Builtin} \cup Made
Threads == Executors \cup {"user", "timer", "destructor"}
Slots == Executors \cup {"argument", "timer", "worker"}

ASSUME BuiltinIsSeq == Builtin \in Seq(Executors) /\ Builtin # <<>>
ASSUME ExecutorsDiffer == \A i \in DOMAIN Builtin :
    Builtin[i] \notin Made /\ \A j \in DOMAIN Builtin : Builtin[i] = Builtin[j] => i = j
ASSUME NamesDiffer ==
    Executors \cap {"user", "timer", "destructor", "argument", "worker"} = {}
ASSUME KindsOfExecutors ==
    /\ Inline \subseteq Executors /\ Pooled \subseteq Executors /\ Manual \subseteq Executors
    /\ Inline \cap Pooled = {} /\ Inline \cap Manual = {} /\ Pooled \cap Manual = {}
ASSUME PostsAreNat == MaxPosts \in Nat

VARIABLES
    m_executors,        \* of executor_collection
    phase,              \* "none", "open", "closing" in shutdown, "closed" after it
    timers,             \* the same of the timer queue
    destructor,         \* where ~runtime is
    next,               \* the executor that shutdown_all is at
    pc,                 \* where each coroutine is
    on,                 \* the thread that it runs on, or ran on last
    sent,               \* the executor that it was last posted to
    m_interrupted,      \* its last task was destroyed
    slots,              \* the tasks that hold its functor, with m_interrupted set
    posts,
    terminated          \* an exception left the thread of the timer queue

runtime == <<m_executors, phase, timers, destructor, next>>
coro == <<pc, on, sent, m_interrupted, slots, posts>>
runtimeVars == <<runtime, coro, terminated>>

\* The state of the runtime and its coroutines.
RuntimeTypeOK ==
    /\ m_executors \in Seq(Executors)
    /\ phase \in [Executors -> {"none", "open", "closing", "closed"}]
    /\ timers \in {"open", "closing", "closed"}
    /\ destructor \in {"no", "timers", "executors", "returned"} /\ next \in Nat \ {0}
    /\ pc \in [Coros -> {"new", "posting", "suspended", "running", "ended"}]
    /\ on \in [Coros -> Threads] /\ sent \in [Coros -> Executors]
    /\ m_interrupted \in [Coros -> BOOLEAN]
    /\ slots \in [Coros -> SUBSET Slots]
    /\ posts \in [Coros -> 0 .. MaxPosts]
    /\ terminated \in BOOLEAN

\* The constructor has registered its executors.
RuntimeInit ==
    /\ m_executors = Builtin
    /\ phase = [e \in Executors |-> IF e \in Made THEN "none" ELSE "open"]
    /\ timers = "open" /\ destructor = "no" /\ next = 1
    /\ pc = [c \in Coros |-> "new"]
    /\ on = [c \in Coros |-> "user"]
    /\ sent = [c \in Coros |-> Builtin[1]]
    /\ m_interrupted = [c \in Coros |-> FALSE]
    /\ slots = [c \in Coros |-> {}]
    /\ posts = [c \in Coros |-> 0]
    /\ terminated = FALSE

-----------------------------------------------------------------------------
(* Tasks: a slot that holds the functor is moved from, called or destroyed. *)

\* Mutant: the functor that is moved from keeps its pointer.
move_copied(c, from, to) == slots' = [slots EXCEPT ![c] = @ \cup {to}]

\* The move constructor: rhs is left empty.
move(c, from, to) == slots' = [slots EXCEPT ![c] = (@ \ {from}) \cup {to}]

Holds(c, slot) == pc[c] = "suspended" /\ slot \in slots[c]

\* task::operator(): the functor is empty when the coroutine runs.
execute_destroy(c, slot, thread) ==
    /\ pc' = [pc EXCEPT ![c] = "running"]
    /\ on' = [on EXCEPT ![c] = thread]
    /\ slots' = [slots EXCEPT ![c] = @ \ {slot}]
    /\ UNCHANGED <<sent, m_interrupted, posts>>

\* Mutant: the destructor resumes the coroutine as if it had been called.
clear_unmarked(c, slot, thread) ==
    /\ pc' = [pc EXCEPT ![c] = "running"]
    /\ on' = [on EXCEPT ![c] = thread]
    /\ slots' = [slots EXCEPT ![c] = @ \ {slot}]
    /\ UNCHANGED <<sent, m_interrupted, posts>>

\* ~task: the coroutine goes on with broken_task, where its task is destroyed.
clear(c, slot, thread) ==
    /\ pc' = [pc EXCEPT ![c] = "running"]
    /\ on' = [on EXCEPT ![c] = thread]
    /\ m_interrupted' = [m_interrupted EXCEPT ![c] = TRUE]
    /\ slots' = [slots EXCEPT ![c] = @ \ {slot}]
    /\ UNCHANGED <<sent, posts>>

\* A thread that resumed a coroutine is back when that suspends or ends.
Busy(thread) == \E c \in Coros : pc[c] \in {"running", "posting"} /\ on[c] = thread

-----------------------------------------------------------------------------
(* Posting a coroutine: submit, bulk_submit, resume_on and enqueue.         *)

Posted(S, e, label) ==
    /\ pc' = [c \in Coros |-> IF c \in S THEN label ELSE pc[c]]
    /\ sent' = [c \in Coros |-> IF c \in S THEN e ELSE sent[c]]
    /\ posts' = [c \in Coros |-> IF c \in S THEN posts[c] + 1 ELSE posts[c]]
    /\ UNCHANGED on

\* submit, and bulk_submit, which suspends its coroutines in an accumulator and
\* enqueues that: an inline executor looks once whether it was shut down, and
\* then runs them all.
submit(S, e) ==
    /\ S # {} /\ \A c \in S : pc[c] = "new"
    /\ phase[e] # "none" /\ MaxPosts > 0
    /\ IF e \in Inline
       THEN /\ Posted(S, e, "running")
            /\ m_interrupted' = [c \in Coros |-> m_interrupted[c] \/ (c \in S /\ phase[e] # "open")]
            /\ UNCHANGED slots
       ELSE /\ Posted(S, e, "posting")
            /\ slots' = [c \in Coros |-> IF c \in S THEN {"argument"} ELSE slots[c]]
            /\ UNCHANGED m_interrupted
    /\ UNCHANGED <<runtime, terminated>>

\* The body goes on after a post that was interrupted, unless that was the one
\* of initial_suspend: then await_resume throws before the body is entered.
InBody(c) == pc[c] = "running" /\ (m_interrupted[c] => posts[c] > 1)

\* resume_on_awaitable::await_suspend.
resume_on(c, e) ==
    /\ InBody(c) /\ posts[c] < MaxPosts
    /\ phase[e] # "none"
    /\ Posted({c}, e, "posting")
    /\ m_interrupted' = [m_interrupted EXCEPT ![c] = FALSE]
    /\ slots' = [slots EXCEPT ![c] = @ \cup {"argument"}]
    /\ UNCHANGED <<runtime, terminated>>

\* Where a task that the thread enqueues to e may go: thread_pool_executor looks
\* at the worker it runs on, which may be one of another pool.
Targets(thread, e) == {e} \cup (IF e \in Pooled THEN {thread} \cap Pooled ELSE {})

\* enqueue moves the task to a queue, or runs it, or throws: then the task is
\* destroyed as the call is left.
enqueue_task(c) ==
    /\ pc[c] = "posting"
    /\ \E e \in Targets(on[c], sent[c]) :
          \/ /\ phase[e] = "open" /\ e \notin Inline
             /\ pc' = [pc EXCEPT ![c] = "suspended"]
             /\ move(c, "argument", e)
             /\ UNCHANGED <<on, sent, m_interrupted, posts>>
          \/ phase[e] = "open" /\ e \in Inline /\ execute_destroy(c, "argument", on[c])
          \/ phase[e] # "open" /\ clear(c, "argument", on[c])
    /\ UNCHANGED <<runtime, terminated>>

ends(c) ==
    /\ pc[c] = "running"
    /\ pc' = [pc EXCEPT ![c] = "ended"]
    /\ UNCHANGED <<runtime, on, sent, m_interrupted, slots, posts, terminated>>

-----------------------------------------------------------------------------
(* The executors' threads, and the user's in a manual executor.             *)

ThreadOf(e) == IF e \in Manual THEN "user" ELSE e

\* The task is moved out of the queue, in shutdown too: a worker may be in its
\* loop when the flag is set.  A manual executor takes its queue with the flag.
take(c, e) ==
    /\ Holds(c, e) /\ phase[e] \in {"open"} \cup (IF e \in Manual THEN {} ELSE {"closing"})
    /\ move(c, e, "worker")
    /\ on' = [on EXCEPT ![c] = ThreadOf(e)]
    /\ UNCHANGED <<runtime, pc, sent, m_interrupted, posts, terminated>>

run(c) ==
    /\ Holds(c, "worker")
    /\ execute_destroy(c, "worker", on[c])
    /\ UNCHANGED <<runtime, terminated>>

\* Or the thread that took the task destroys it: a user's in manual_executor::clear,
\* or that of an executor other than a pool, when it finds the abort flag set.
discard(c) ==
    /\ Holds(c, "worker")
    /\ on[c] \in {"user"} \cup {e \in Executors \ Pooled : phase[e] = "closing"}
    /\ clear(c, "worker", on[c])
    /\ UNCHANGED <<runtime, terminated>>

-----------------------------------------------------------------------------
(* The timer queue: coroutines that await a delay object.                   *)

\* A delay object is refused once the queue is shut down.  (The coroutine that
\* shutdown itself resumes, under its lock, must not come back: see TimerQueue.)
delay(c, e) ==
    /\ InBody(c) /\ posts[c] < MaxPosts
    /\ phase[e] # "none"
    /\ timers = "closing" => on[c] # "destructor"
    /\ IF timers = "open"
       THEN /\ Posted({c}, e, "suspended")
            /\ slots' = [slots EXCEPT ![c] = @ \cup {"timer"}]
            /\ m_interrupted' = [m_interrupted EXCEPT ![c] = FALSE]
       ELSE /\ Posted({c}, e, "running")
            /\ m_interrupted' = [m_interrupted EXCEPT ![c] = TRUE]
            /\ UNCHANGED slots
    /\ UNCHANGED <<runtime, terminated>>

\* The worker posts a timer that is due; an executor that was shut down throws,
\* and nothing catches that.
timer_fire(c) ==
    /\ Holds(c, "timer") /\ timers # "closed" /\ ~Busy("timer")
    /\ IF phase[sent[c]] # "open"
       THEN terminated' = TRUE /\ UNCHANGED coro
       ELSE /\ IF sent[c] \in Inline
               THEN execute_destroy(c, "timer", "timer")
               ELSE move(c, "timer", sent[c]) /\ UNCHANGED <<pc, on, sent, m_interrupted, posts>>
            /\ UNCHANGED terminated
    /\ UNCHANGED runtime

\* Shutdown destroys the timers, on the worker or in the call.
timer_break(c) ==
    /\ Holds(c, "timer") /\ timers = "closing"
    /\ \E thread \in {"timer", "destructor"} : ~Busy(thread) /\ clear(c, "timer", thread)
    /\ UNCHANGED <<runtime, terminated>>

-----------------------------------------------------------------------------
(* The runtime: make_executor, and ~runtime.                                *)

\* register_executor.  The runtime is used only until it is destroyed.
make_executor(e) ==
    /\ destructor = "no" /\ phase[e] = "none"
    /\ phase' = [phase EXCEPT ![e] = "open"]
    /\ m_executors' = Append(m_executors, e)
    /\ UNCHANGED <<timers, destructor, next, coro, terminated>>

\* Mutant: the executors are shut down first.
destroy_swapped ==
    /\ destructor = "no"
    /\ destructor' = "executors"
    /\ UNCHANGED <<m_executors, phase, timers, next, coro, terminated>>

destroy ==
    /\ destructor = "no"
    /\ destructor' = "timers" /\ timers' = "closing"
    /\ UNCHANGED <<m_executors, phase, next, coro, terminated>>

\* timer_queue::shutdown joins the worker.
timers_joined ==
    /\ destructor = "timers" /\ ~Busy("destructor") /\ ~Busy("timer")
    /\ \A c \in Coros : ~Holds(c, "timer")
    /\ timers' = "closed"
    /\ destructor' = "executors"
    /\ UNCHANGED <<m_executors, phase, next, coro, terminated>>

\* The executor whose shutdown is called, or in progress, in shutdown_all.
InShutdown(e) == destructor = "executors" /\ next <= Len(m_executors) /\ m_executors[next] = e

shutdown_executor(e) ==
    /\ InShutdown(e) /\ phase[e] = "open"
    /\ phase' = [phase EXCEPT ![e] = "closing"]
    /\ UNCHANGED <<m_executors, timers, destructor, next, coro, terminated>>

\* What is left in the queues is destroyed by the thread that called shutdown.
shutdown_clear(c, e) ==
    /\ InShutdown(e) /\ phase[e] = "closing" /\ ~Busy("destructor")
    /\ Holds(c, e)
    /\ clear(c, e, "destructor")
    /\ UNCHANGED <<runtime, terminated>>

\* The tasks that the threads of an executor are at; shutdown waits for them.
AtWork(e) == {c \in Coros : on[c] = e /\ (pc[c] \in {"running", "posting"} \/ Holds(c, "worker"))}

\* Mutant: shutdown does not empty the queues.
shutdown_returns_early(e) ==
    /\ InShutdown(e) /\ phase[e] = "closing" /\ ~Busy("destructor")
    /\ AtWork(e) = {}
    /\ phase' = [phase EXCEPT ![e] = "closed"]
    /\ next' = next + 1
    /\ UNCHANGED <<m_executors, timers, destructor, coro, terminated>>

shutdown_returns(e) ==
    /\ InShutdown(e) /\ phase[e] = "closing" /\ ~Busy("destructor")
    /\ \A c \in Coros : ~Holds(c, e)
    /\ AtWork(e) = {}
    /\ phase' = [phase EXCEPT ![e] = "closed"]
    /\ next' = next + 1
    /\ UNCHANGED <<m_executors, timers, destructor, coro, terminated>>

\* The vector of executors is emptied and the destructor returns.
destroyed ==
    /\ destructor = "executors" /\ next > Len(m_executors)
    /\ destructor' = "returned"
    /\ m_executors' = <<>>
    /\ UNCHANGED <<phase, timers, next, coro, terminated>>

-----------------------------------------------------------------------------

\* What the user and the bodies of coroutines choose to do.
Choice ==
    \/ \E S \in SUBSET Coros, e \in Executors : submit(S, e)
    \/ \E c \in Coros, e \in Executors : resume_on(c, e) \/ delay(c, e)
    \/ \E e \in Made : make_executor(e)
    \/ \E c \in Coros, e \in Manual : take(c, e)
    \/ destroy

\* What goes on by itself.
CoroStep(c) ==
    \/ enqueue_task(c) \/ run(c) \/ discard(c) \/ ends(c)
    \/ \E e \in Executors \ Manual : take(c, e)
TimerStep == \E c \in Coros : timer_fire(c) \/ timer_break(c)
DestructorStep ==
    \/ timers_joined \/ destroyed
    \/ \E e \in Executors : shutdown_executor(e) \/ shutdown_returns(e)
    \/ \E c \in Coros, e \in Executors : shutdown_clear(c, e)

RuntimeNext ==
    /\ ~terminated
    /\ Choice \/ TimerStep \/ DestructorStep \/ \E c \in Coros : CoroStep(c)

\* Threads that can go on do: bodies end, workers and the timer queue take what
\* they have.  Nothing is assumed of the user, who may leave a manual executor alone.
Fairness ==
    /\ \A c \in Coros : WF_runtimeVars(~terminated /\ CoroStep(c))
    /\ WF_runtimeVars(~terminated /\ TimerStep)
    /\ WF_runtimeVars(~terminated /\ DestructorStep)

RuntimeSpec == RuntimeInit /\ [][RuntimeNext]_runtimeVars /\ Fairness

-----------------------------------------------------------------------------
(* Properties.                                                             *)

\* A suspended coroutine is in exactly one task, and one that runs is in none:
\* it is resumed once for each time it is posted, whatever becomes of the task.
InOneTask == \A c \in Coros :
    Cardinality(slots[c]) = IF pc[c] \in {"posting", "suspended"} THEN 1 ELSE 0

\* README, of executor::enqueue: "Schedules a task to run in this executor."  And
\* of resume_on: it "suspends the current coroutine and resumes it inside executor".
\* A coroutine that goes on without broken_task is in the executor it was posted
\* to: on its threads, on a user's in a manual executor, on the poster's in an
\* inline executor.
RunsWhereSent == \A c \in Coros :
    pc[c] = "running" /\ ~m_interrupted[c] /\ sent[c] \notin Inline =>
        on[c] = ThreadOf(sent[c])

\* Once shutdown of an executor has returned nothing is in it or on its threads.
ClosedIsQuiet == \A e \in Executors : phase[e] = "closed" =>
    AtWork(e) = {} /\ \A c \in Coros : e \notin slots[c]

\* When ~runtime returns, every executor that was made is closed, and the timer
\* queue holds nothing; no timer was posted to an executor that was shut down.
AllClosed ==
    /\ destructor = "returned" => \A e \in Executors : phase[e] \in {"none", "closed"}
    /\ timers = "closed" => \A c \in Coros : "timer" \notin slots[c]
    /\ ~terminated

\* The executors on whose threads a coroutine that was sent to e may go on.
Near(e) == {e} \cup (IF e \in Pooled THEN Pooled ELSE {})

\* Where a coroutine is and which task it is in, and what holds of RunsWhereSent:
\* it goes on where it was sent, or in another pool than the one it was sent to.
TaskInv == \A c \in Coros :
    /\ pc[c] \in {"new", "running", "ended"} => slots[c] = {}
    /\ pc[c] = "posting" => slots[c] = {"argument"}
    /\ pc[c] = "suspended" => \E s \in Executors \cup {"timer", "worker"} : slots[c] = {s}
    /\ pc[c] \in {"new", "posting", "suspended"} => ~m_interrupted[c]
    /\ pc[c] = "new" => on[c] = "user" /\ posts[c] = 0
    /\ \A e \in Executors : e \in slots[c] => e \in Near(sent[c]) \ Inline
    /\ \/ "worker" \in slots[c]
       \/ pc[c] = "running" /\ ~m_interrupted[c] /\ sent[c] \notin Inline
       => \E e \in Near(sent[c]) : on[c] = ThreadOf(e)

\* How far ~runtime is, and what is closed by then: the timer queue first, and
\* then the executors in the order in which they were registered.
DestructorInv ==
    /\ destructor = "no" => timers = "open"
    /\ destructor = "timers" => timers = "closing"
    /\ destructor \in {"executors", "returned"} => timers = "closed"
    /\ destructor \in {"no", "timers"} => next = 1
    /\ timers # "closed" => \A e \in Executors : phase[e] \in {"none", "open"}
    /\ \A c \in Coros : "timer" \in slots[c] => phase[sent[c]] # "none"
    /\ destructor # "returned" => \A e \in Executors :
          phase[e] # "none" => \E i \in DOMAIN m_executors : m_executors[i] = e
    /\ destructor # "returned" => \A i \in DOMAIN m_executors :
          IF i < next THEN phase[m_executors[i]] = "closed" ELSE phase[m_executors[i]] # "none"

\* The inductive invariant.
RuntimeInv == RuntimeTypeOK /\ TaskInv /\ DestructorInv /\ InOneTask /\ ClosedIsQuiet /\ AllClosed

\* Once it has begun ~runtime returns, whatever the coroutines do meanwhile, and
\* every coroutine that is suspended anywhere in the runtime, a manual executor that
\* nobody loops included, is resumed and comes to its end, for good.
RuntimeEnds ==
    <>[](destructor # "no" =>
            destructor = "returned" /\ \A c \in Coros : pc[c] \in {"new", "ended"})

=============================================================================
