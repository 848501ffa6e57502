------------------------------ MODULE Coroutine ------------------------------
(***************************************************************************)
(* The coroutines of the library: what their promise types do at the       *)
(* initial and at the final suspension, who destroys a frame, and the      *)
(* lazy_result and generator objects that a body uses.                     *)
(*                                                                         *)
(* The result_state of a result coroutine lives in its frame, and either   *)
(* end of the rendezvous (ResultState) may be the one that destroys it.    *)
(* A null_result coroutine destroys itself.  A lazy task or a generator is *)
(* a frame of its own, here the callee of a body, which is destroyed by    *)
(* whatever object holds its handle.  A body has one callee at a time.     *)
(***************************************************************************)
EXTENDS ResultState, FiniteSets

CONSTANTS
    MaxCallees,         \* how many lazy tasks and generators a body has, the one handed to run included
    MaxHops             \* how often a body or its lazy task suspends on an executor

ASSUME BoundsAreNat == MaxCallees \in Nat \ {0} /\ MaxHops \in Nat

VARIABLES
    kind,               \* the promise type of a coroutine, or a result_promise
    frame,              \* where its body is
    calling,            \* the coroutines whose caller is still in the call
    done_handle,        \* m_done_handle is set
    callee,             \* the lazy task or generator of a body
    got,                \* what its last co_await of a lazy result gave
    made, destroyed,    \* how many callees were made, and destroyed
    hops

body == <<frame, calling, hops>>
callees == <<callee, got, made, destroyed>>
co_vars == <<vars, kind, body, done_handle, callees>>

\* "promise": no coroutine, a result_promise.  "null", "rescheduled_null": coroutines
\* that return null_result, and so have no result_state.  "run": what
\* lazy_result::run makes, an eager coroutine of a lazy result handed to it.
Kinds == {"promise", "eager", "rescheduled", "run", "null", "rescheduled_null"}
HasResult(c) == kind[c] \notin {"null", "rescheduled_null"}
Scheduled(c) == kind[c] \in {"rescheduled", "rescheduled_null"}

\* "scheduled": initial_suspend has posted it; "interrupted": the task of
\* initial_suspend was destroyed; "awaiting": its lazy task runs; "ended": the
\* body is left, locals are destroyed; "final": it is suspended for the last
\* time; "corrupt": it was destroyed elsewhere, or deleted as a heap object.
FrameLabels == {"none", "scheduled", "interrupted", "running", "posted", "awaiting", "ended",
                "final", "destroyed", "corrupt"}

\* The objects that hold the handle of a callee: the lazy_result or generator,
\* lazy_awaitable, lazy_resolve_awaitable.
NoCallee == [is |-> "none", at |-> "none", status |-> "idle", holders |-> {}]
NewLazy == [is |-> "lazy", at |-> "initial", status |-> "idle", holders |-> {"object"}]
NewGenerator == [NewLazy EXCEPT !.is = "generator"]
Callees == [is : {"none", "lazy", "generator"},
            at : {"none", "initial", "running", "posted", "yielded", "final"},
            status : Statuses,
            holders : SUBSET {"object", "awaitable", "resolver"}]

\* The frames and the objects that hold them; frames are not destroyed twice.
CoTypeOK ==
    /\ kind \in [Results -> Kinds]
    /\ frame \in [Results -> FrameLabels]
    /\ calling \subseteq Results
    /\ done_handle \in [Results -> BOOLEAN]
    /\ callee \in [Results -> Callees]
    /\ got \in [Results -> Statuses]
    /\ made \in [Results -> 0 .. MaxCallees] /\ destroyed \in [Results -> 0 .. MaxCallees]
    /\ hops \in [Results -> 0 .. MaxHops]

\* A lazy result that was not awaited yet, or that was resolved.
Handed == {NewLazy} \cup {[NewLazy EXCEPT !.at = "final", !.status = s] : s \in {"value", "exception"}}

CoInit ==
    /\ Init
    /\ kind \in [Results -> Kinds]
    /\ frame = [c \in Results |-> "none"]
    /\ calling = {}
    /\ done_handle = [c \in Results |-> FALSE]
    /\ callee \in [Results -> Handed \cup {NoCallee}]
    /\ \A c \in Results : callee[c] = NoCallee <=> kind[c] # "run"
    /\ made = [c \in Results |-> IF kind[c] = "run" THEN 1 ELSE 0]
    /\ destroyed = [c \in Results |-> 0]
    /\ got = [c \in Results |-> "idle"]
    /\ hops = [c \in Results |-> 0]

-----------------------------------------------------------------------------
(* The promise types: the call, and the first and the last suspension.     *)

FrameGoes(c, from, to) == frame[c] = from /\ frame' = [frame EXCEPT ![c] = to]

\* The body has control, and is not in a co_await of its lazy result.
InBody(c) == frame[c] = "running" /\ callee[c].holders \cap {"awaitable", "resolver"} = {}

\* get_return_object gives the caller its result, once the call returns:
\* initialy_resumed_promise runs the body in the call, initial_scheduling_awaiter
\* posts it.  An executor that refuses the task destroys it in the call.
call(c) ==
    /\ kind[c] # "promise"
    /\ IF HasResult(c) THEN get_result(c) ELSE UNCHANGED vars
    /\ \/ /\ ~Scheduled(c)
          /\ FrameGoes(c, "none", "running")
          /\ calling' = calling \cup {c}
       \/ /\ Scheduled(c)
          /\ FrameGoes(c, "none", "scheduled")
          /\ UNCHANGED calling
       \/ /\ Scheduled(c)
          /\ FrameGoes(c, "none", "interrupted")
          /\ calling' = calling \cup {c}
    /\ UNCHANGED <<kind, done_handle, callees, hops>>

\* await_via_functor: the executor runs its task, or destroys it; await_resume
\* of the initial suspension then throws before the body starts.
start(c) ==
    /\ \E to \in {"running", "interrupted"} : FrameGoes(c, "scheduled", to)
    /\ UNCHANGED <<vars, kind, calling, hops, done_handle, callees>>

\* Nothing of the body is left but its frame: its callee is destroyed by the
\* lazy_result or generator that is a local of the body.
LocalsDestroyed(c) ==
    /\ callee' = [callee EXCEPT ![c] = NoCallee]
    /\ destroyed' = [destroyed EXCEPT ![c] = @ + Cardinality(callee[c].holders)]
    /\ UNCHANGED <<got, made>>

\* co_return or an exception that leaves the body: return_value, return_void or
\* unhandled_exception, which does nothing in null_result_promise.
Leaves(c, outcome) == IF HasResult(c) THEN Produce(c, outcome) ELSE UNCHANGED vars

body_ends(c) ==
    /\ \/ FrameGoes(c, "interrupted", "ended") /\ Leaves(c, "exception")
       \/ /\ InBody(c)
          /\ FrameGoes(c, "running", "ended")
          /\ \E outcome \in {"value", "exception"} :
                /\ kind[c] = "run" => outcome = got[c]
                /\ Leaves(c, outcome)
    /\ LocalsDestroyed(c)
    /\ UNCHANGED <<kind, calling, hops, done_handle>>

\* Mutant: complete_producer is not given the handle.
final_suspend_unhandled(c) ==
    /\ FrameGoes(c, "ended", IF HasResult(c) THEN "final" ELSE "destroyed")
    /\ calling' = IF HasResult(c) THEN calling ELSE calling \ {c}
    /\ UNCHANGED <<vars, kind, hops, done_handle, callees>>

\* A null_result coroutine does not suspend and goes.  A result coroutine is
\* suspended; result_publisher stores the handle ...
final_suspend(c) ==
    /\ FrameGoes(c, "ended", IF HasResult(c) THEN "final" ELSE "destroyed")
    /\ done_handle' = [done_handle EXCEPT ![c] = HasResult(c)]
    /\ calling' = IF HasResult(c) THEN calling ELSE calling \ {c}
    /\ UNCHANGED <<vars, kind, hops, callees>>

\* delete_self destroys the frame of a result coroutine, which has to be
\* suspended for good; without m_done_handle it deletes a heap object.
Deleted(r) ==
    frame' = [frame EXCEPT ![r] =
        IF deletions'[r] = deletions[r] \/ kind[r] = "promise" THEN @
        ELSE IF done_handle[r] /\ @ = "final" THEN "destroyed" ELSE "corrupt"]

\* ... and publishes: from here on the consumer may destroy the frame.
publish(r) ==
    /\ kind[r] # "promise" /\ frame[r] = "final"
    /\ complete_producer(r)
    /\ Deleted(r)
    /\ calling' = calling \ {r}
    /\ UNCHANGED <<kind, hops, done_handle, callees>>

-----------------------------------------------------------------------------
(* The body: executors, and the lazy_result and generator it uses.         *)

\* A body suspends on an executor and is resumed, with broken_task if its task
\* was destroyed; the body may catch that or end with it.
suspend(c) ==
    /\ InBody(c) /\ hops[c] < MaxHops /\ kind[c] # "run"
    /\ FrameGoes(c, "running", "posted")
    /\ hops' = [hops EXCEPT ![c] = @ + 1]
    /\ calling' = calling \ {c}
    /\ UNCHANGED <<vars, kind, done_handle, callees>>

resume(c) ==
    /\ FrameGoes(c, "posted", "running")
    /\ UNCHANGED <<vars, kind, calling, hops, done_handle, callees>>

\* A coroutine that returns a lazy_result or a generator is suspended at once.
make_callee(c) ==
    /\ InBody(c) /\ callee[c] = NoCallee /\ made[c] < MaxCallees
    /\ \E new \in {NewLazy, NewGenerator} : callee' = [callee EXCEPT ![c] = new]
    /\ made' = [made EXCEPT ![c] = @ + 1]
    /\ UNCHANGED <<vars, kind, body, done_handle, got, destroyed>>

\* The destructor of the object, or the assignment of another one to it.
drop_callee(c) ==
    /\ InBody(c) /\ callee[c] # NoCallee /\ kind[c] # "run"
    /\ LocalsDestroyed(c)
    /\ UNCHANGED <<vars, kind, body, done_handle>>

\* Mutant: the lazy_result keeps the handle that its awaitable has now.
Holding_both(c, awaitable) == [callee[c] EXCEPT !.holders = @ \cup {awaitable}]

\* The handle is moved from the lazy_result to its awaitable.
Holding(c, awaitable) == [callee[c] EXCEPT !.holders = {awaitable}]

\* The caller suspends and the lazy task starts in its place; a task that is
\* done is not waited for.
lazy_await(c, awaitable) ==
    /\ InBody(c) /\ callee[c].is = "lazy"
    /\ kind[c] = "run" => awaitable = "awaitable"
    /\ IF callee[c].at = "final"
       THEN /\ UNCHANGED frame
            /\ callee' = [callee EXCEPT ![c] = Holding(c, awaitable)]
       ELSE /\ FrameGoes(c, "running", "awaiting")
            /\ callee' = [callee EXCEPT ![c] = [Holding(c, awaitable) EXCEPT !.at = "running"]]
    /\ UNCHANGED <<vars, kind, calling, hops, done_handle, got, made, destroyed>>

lazy_suspend(c) ==
    /\ callee[c].is = "lazy" /\ callee[c].at = "running" /\ hops[c] < MaxHops
    /\ callee' = [callee EXCEPT ![c].at = "posted"]
    /\ hops' = [hops EXCEPT ![c] = @ + 1]
    /\ calling' = calling \ {c}
    /\ UNCHANGED <<vars, kind, frame, done_handle, got, made, destroyed>>

lazy_resume(c) ==
    /\ callee[c].is = "lazy" /\ callee[c].at = "posted"
    /\ callee' = [callee EXCEPT ![c].at = "running"]
    /\ UNCHANGED <<vars, kind, body, done_handle, got, made, destroyed>>

\* Mutant: the lazy task just suspends at its end.
lazy_ends_unresumed(c, outcome) ==
    /\ callee[c].is = "lazy" /\ callee[c].at = "running"
    /\ callee' = [callee EXCEPT ![c].at = "final", ![c].status = outcome]
    /\ UNCHANGED <<vars, kind, body, done_handle, got, made, destroyed>>

\* The lazy task ends; lazy_final_awaiter resumes the caller in its place.
lazy_ends(c, outcome) ==
    /\ callee[c].is = "lazy" /\ callee[c].at = "running"
    /\ callee' = [callee EXCEPT ![c].at = "final", ![c].status = outcome]
    /\ FrameGoes(c, "awaiting", "running")
    /\ UNCHANGED <<vars, kind, calling, hops, done_handle, got, made, destroyed>>

\* await_resume takes the outcome, and lazy_awaitable destroys the lazy task; or
\* lazy_resolve_awaitable gives the handle back.
lazy_await_resume(c) ==
    /\ frame[c] = "running" /\ callee[c].at = "final"
    /\ \/ /\ "resolver" \in callee[c].holders
          /\ callee' = [callee EXCEPT ![c].holders = (@ \ {"resolver"}) \cup {"object"}]
          /\ UNCHANGED <<got, destroyed>>
       \/ /\ "awaitable" \in callee[c].holders
          /\ got' = [got EXCEPT ![c] = callee[c].status]
          /\ callee' = [callee EXCEPT ![c] =
                IF @.holders = {"awaitable"} THEN NoCallee ELSE [@ EXCEPT !.holders = @ \ {"awaitable"}]]
          /\ destroyed' = [destroyed EXCEPT ![c] = @ + 1]
    /\ UNCHANGED <<vars, kind, body, done_handle, made>>

\* begin or operator++ of a range-for loop: the generator runs to its next
\* co_yield, or is done, with an exception that is thrown on to the body.
generator_next(c) ==
    /\ InBody(c)
    /\ callee[c].is = "generator" /\ callee[c].at \in {"initial", "yielded"}
    /\ \/ callee' = [callee EXCEPT ![c].at = "yielded"]
       \/ \E outcome \in {"value", "exception"} :
             callee' = [callee EXCEPT ![c].at = "final", ![c].status = outcome]
    /\ UNCHANGED <<vars, kind, body, done_handle, got, made, destroyed>>

-----------------------------------------------------------------------------
(* The result_promise and the result: the steps of ResultState.            *)

\* The caller of a coroutine has its result when the call returns.
result_call(r) ==
    /\ kind[r] = "promise" \/ (frame[r] # "none" /\ HasResult(r) /\ r \notin calling)
    /\ ClientCall(r)
    /\ Deleted(r)
    /\ UNCHANGED <<kind, calling, hops, done_handle, callees>>

result_step(r) ==
    /\ ConsumerStep(r)
    /\ Deleted(r)
    /\ UNCHANGED <<kind, calling, hops, done_handle, callees>>

promise_step(r) ==
    /\ kind[r] = "promise"
    /\ TaskEnds(r) \/ complete_producer(r)
    /\ UNCHANGED <<kind, body, done_handle, callees>>

wake_step(r) ==
    /\ resume_consumer(r) \/ resume_deleted_consumer(r) \/ notify_one(r)
    /\ UNCHANGED <<kind, body, done_handle, callees>>

spurious_step(r) ==
    /\ wait_spurious(r)
    /\ UNCHANGED <<kind, body, done_handle, callees>>

-----------------------------------------------------------------------------

\* What the client and the bodies choose to do.
Choice(c) ==
    \/ call(c) \/ result_call(c) \/ spurious_step(c)
    \/ suspend(c) \/ make_callee(c) \/ drop_callee(c) \/ generator_next(c) \/ lazy_suspend(c)
    \/ \E awaitable \in {"awaitable", "resolver"} : kind[c] # "run" /\ lazy_await(c, awaitable)

\* What goes on by itself: tasks are run or destroyed, and library code goes on.
Step(c) ==
    \/ start(c) \/ resume(c) \/ lazy_resume(c)
    \/ final_suspend(c) \/ publish(c)
    \/ lazy_await_resume(c) \/ (kind[c] = "run" /\ lazy_await(c, "awaitable"))
    \/ promise_step(c) \/ wake_step(c)

BodyEnds(c) ==
    \/ body_ends(c)
    \/ \E outcome \in {"value", "exception"} : lazy_ends(c, outcome)

CoNext == \E c \in Results : Choice(c) \/ Step(c) \/ BodyEnds(c) \/ result_step(c)

CoSpec == CoInit /\ [][CoNext]_co_vars

\* Executors run or destroy their tasks, threads that can go on do, and bodies
\* end: one that can end again and again does not await for ever instead.
CoFairness == \A c \in Results :
    /\ WF_co_vars(Step(c))
    /\ WF_co_vars(result_step(c))
    /\ SF_co_vars(BodyEnds(c))

CoFairSpec == CoSpec /\ CoFairness

-----------------------------------------------------------------------------
(* Properties.                                                             *)

\* A frame with a result_state in it is destroyed by the delete_self of either
\* end, exactly when the state is, and only when it is suspended for good and
\* m_done_handle tells that it is a frame.  Its caller never returns before the
\* body suspends or ends.
FramesAreDeletedOnce == \A r \in Results :
    /\ frame[r] # "corrupt"
    /\ kind[r] # "promise" /\ HasResult(r) => (frame[r] = "destroyed" <=> deletions[r] = 1)
    /\ Published(r) /\ kind[r] # "promise" => frame[r] \in {"final", "destroyed"}
    /\ r \in calling => consumer[r] \in {"owner", "promise"} /\ deletions[r] = 0

Before == {"none", "scheduled", "interrupted", "running", "posted", "awaiting"}

\* Where a coroutine is in its frame, and where the producer of its result is:
\* the strengthening of FramesAreDeletedOnce that every step preserves.
FrameProtocol(r) ==
    /\ frame[r] # "corrupt"
    /\ ~HasResult(r) => consumer[r] = "promise" /\ producer[r] = "running"
    /\ kind[r] = "promise" => frame[r] = "none" /\ r \notin calling
    /\ kind[r] # "promise" /\ HasResult(r) =>
          /\ frame[r] = "none" <=> consumer[r] = "promise"
          /\ producer[r] = "running" <=> frame[r] \in Before
          /\ Published(r) => frame[r] \in {"final", "destroyed"}
          /\ done_handle[r] <=> frame[r] \in {"final", "destroyed"}
          /\ frame[r] = "destroyed" <=> deletions[r] = 1
          /\ r \in calling => consumer[r] = "owner" /\ ~Published(r)

\* FrameProtocol of every coroutine: what the proof carries from step to step.
FramesInv ==
    /\ kind \in [Results -> Kinds] /\ frame \in [Results -> FrameLabels]
    /\ calling \subseteq Results /\ done_handle \in [Results -> BOOLEAN]
    /\ \A r \in Results : FrameProtocol(r)

\* The frame of a lazy task or of a generator is held by exactly one object, so
\* it is destroyed once, and no later than the body that made it ends; a body
\* and its lazy task never run at the same time.
OneOwner == \A c \in Results :
    /\ callee[c] # NoCallee <=> Cardinality(callee[c].holders) = 1
    /\ made[c] - destroyed[c] = IF callee[c] = NoCallee THEN 0 ELSE 1
    /\ frame[c] \in {"ended", "final", "destroyed"} => callee[c] = NoCallee
    /\ frame[c] = "awaiting" <=> callee[c].is = "lazy" /\ callee[c].at \in {"running", "posted"}

\* What lazy_result::run publishes is the outcome of the lazy task.
RunForwards == \A r \in Results :
    kind[r] = "run" /\ producer[r] # "running" =>
        producer_status[r] = got[r] /\ got[r] # "idle"

\* The frames of lazy tasks and generators have one owner, run forwards what the
\* lazy task ended with, and a coroutine and its result keep step.
CoInv == CoTypeOK /\ FramesInv /\ OneOwner /\ RunForwards

\* A coroutine that was called comes to its end and its frame, and that of every
\* lazy task and generator of it, is destroyed unless a result still holds it.
EveryFrameEnds == \A c \in Results :
    kind[c] # "promise" /\ frame[c] # "none" ~>
        /\ callee[c] = NoCallee
        /\ frame[c] = "destroyed" \/ (frame[c] = "final" /\ consumer[c] # "gone")

=============================================================================
