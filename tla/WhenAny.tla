-------------------------------- MODULE WhenAny --------------------------------
(***************************************************************************)
(* when_any: a coroutine registers one shared when_any_context with every  *)
(* input result and suspends; the first producer to complete resumes it,   *)
(* and it then withdraws its registration from the other inputs and hands  *)
(* all of them back.  The client may use them and call when_any again on   *)
(* those it still holds.                                                   *)
(*                                                                         *)
(* The results are the numbers 1..n in the order in which they are passed, *)
(* so that m_status is a number: k_processing, k_done_processing or a      *)
(* result.  Each call has a context of its own, named by its number.       *)
(***************************************************************************)
EXTENDS ResultState, Integers, FiniteSetsExt

CONSTANT MaxCalls       \* how often the client calls when_any

VARIABLES
    m_status,           \* m_status of the context of each call
    ctx,                \* the call whose context m_consumer of a result holds
    seen,               \* what try_resume loaded from m_status, per producer
    call,               \* the latest call
    coro,               \* where the coroutine of that call is
    todo,               \* the inputs its current loop has still to visit
    completed           \* completed_result_state in await_resume

anyVars == <<m_status, ctx, seen, call, coro, todo, completed>>
allVars == <<vars, anyVars>>

ASSUME ResultsAreNumbered == Results \subseteq Nat \ {0}
ASSUME MaxCallsIsPositive == MaxCalls \in Nat \ {0}

k_processing == -1
k_done_processing == 0
NotLoaded == -2

Calls == 1..MaxCalls
Inputs == {r \in Results : consumer[r] = "any"}
Input == Min(todo)

CoroLabels ==
    {"idle", "next", "load", "set", "cas", "inline_load", "inline_cas", "suspended",
     "resumed", "rewind", "rewind_cas", "rewind_clear", "resume_on"}

\* The state of the inputs, of the contexts and of the coroutine.
AnyTypeOK ==
    /\ TypeOK
    /\ m_status \in [Calls -> Results \cup {k_processing, k_done_processing}]
    /\ ctx \in [Results -> Calls \cup {0}]
    /\ seen \in [Results -> {NotLoaded, k_processing, k_done_processing}]
    /\ call \in Calls \cup {0}
    /\ coro \in CoroLabels
    /\ todo \subseteq Results
    /\ completed \in Results \cup {k_processing, k_done_processing}

\* The client holds the results of tasks that are still running.
AnyInit ==
    /\ pc_state = [r \in Results |-> "idle"]
    /\ consumer_status = [r \in Results |-> "idle"]
    /\ producer_status = [r \in Results |-> "idle"]
    /\ sem = [r \in Results |-> 0]
    /\ deletions = [r \in Results |-> 0]
    /\ producer = [r \in Results |-> "running"]
    /\ consumer = [r \in Results |-> "owner"]
    /\ joining = [r \in Results |-> FALSE]
    /\ ret = [r \in Results |-> "none"]
    /\ m_status = [c \in Calls |-> k_processing]
    /\ ctx = [r \in Results |-> 0]
    /\ seen = [r \in Results |-> NotLoaded]
    /\ call = 0
    /\ coro = "idle"
    /\ todo = {}
    /\ completed = k_processing

CoroGoes(from, to) == coro = from /\ coro' = to

SetStatus(c, value) == m_status' = [m_status EXCEPT ![c] = value]

-----------------------------------------------------------------------------
(* The coroutine: when_any_awaitable::await_suspend.                       *)

\* when_any takes the results the client holds (an empty range is refused)
\* and makes a context for them.
when_any_call ==
    /\ call < MaxCalls
    /\ CoroGoes("idle", "next")
    /\ call' = call + 1
    /\ todo' = {r \in Results : consumer[r] = "owner"}
    /\ todo' # {}
    /\ consumer' = [r \in Results |-> IF r \in todo' THEN "any" ELSE consumer[r]]
    /\ UNCHANGED <<shared, producer, joining, ret, m_status, ctx, seen, completed>>

\* The head of the loop: any_result_finished, or the end of the inputs and
\* finish_processing.
any_result_finished ==
    /\ todo # {}
    /\ CoroGoes("next", IF m_status[call] # k_processing THEN "resumed" ELSE "load")
    /\ UNCHANGED <<vars, m_status, ctx, seen, call, todo, completed>>

finish_processing ==
    /\ todo = {}
    /\ \/ /\ CoroGoes("next", "suspended")
          /\ m_status[call] = k_processing
          /\ SetStatus(call, k_done_processing)
       \/ /\ CoroGoes("next", "resumed")
          /\ m_status[call] # k_processing
          /\ UNCHANGED m_status
    /\ UNCHANGED <<vars, ctx, seen, call, todo, completed>>

when_any_load ==
    /\ CoroGoes("load", IF Done(Input) THEN "inline_load" ELSE "set")
    /\ UNCHANGED <<vars, m_status, ctx, seen, call, todo, completed>>

set_when_any_context ==
    /\ CoroGoes("set", "cas")
    /\ consumer_status' = [consumer_status EXCEPT ![Input] = "when_any"]
    /\ ctx' = [ctx EXCEPT ![Input] = call]
    /\ UNCHANGED <<pc_state, producer_status, sem, deletions, producer, consumer, joining, ret>>
    /\ UNCHANGED <<m_status, seen, call, todo, completed>>

\* The state that was loaded before the CAS is returned whether or not the CAS
\* succeeds, so the loop goes on to the next input.
when_any_cas ==
    /\ CoroGoes("cas", "next")
    /\ \/ Cas(Input, "idle", "consumer_set")
       \/ pc_state[Input] # "idle" /\ UNCHANGED pc_state
    /\ todo' = todo \ {Input}
    /\ UNCHANGED <<consumer_status, producer_status, sem, deletions, producer, consumer,
                   joining, ret, m_status, ctx, seen, call, completed>>

\* resume_inline returns false: the coroutine does not suspend.
resume_inline_load ==
    /\ CoroGoes("inline_load",
                IF m_status[call] # k_processing THEN "resumed" ELSE "inline_cas")
    /\ UNCHANGED <<vars, m_status, ctx, seen, call, todo, completed>>

\* Mutant: the result that is ready is not recorded in the context.
resume_inline_cas_lost ==
    /\ CoroGoes("inline_cas", "resumed")
    /\ UNCHANGED <<vars, m_status, ctx, seen, call, todo, completed>>

resume_inline_cas ==
    /\ CoroGoes("inline_cas", "resumed")
    /\ \/ m_status[call] = k_processing /\ SetStatus(call, Input)
       \/ m_status[call] # k_processing /\ UNCHANGED m_status
    /\ UNCHANGED <<vars, ctx, seen, call, todo, completed>>

-----------------------------------------------------------------------------
(* The coroutine again: await_resume and the rest of when_any_impl.        *)

completed_result ==
    /\ CoroGoes("resumed", "rewind")
    /\ completed' = m_status[call]
    /\ todo' = Inputs
    /\ UNCHANGED <<vars, m_status, ctx, seen, call>>

try_rewind_consumer ==
    /\ todo # {}
    /\ \/ /\ CoroGoes("rewind", "rewind_cas")
          /\ pc_state[Input] = "consumer_set"
          /\ UNCHANGED todo
       \/ /\ CoroGoes("rewind", "rewind")
          /\ pc_state[Input] # "consumer_set"
          /\ todo' = todo \ {Input}
    /\ UNCHANGED <<vars, m_status, ctx, seen, call, completed>>

\* Mutant: a store instead of the CAS, so a completed input is cleared too.
try_rewind_cas_stored ==
    /\ CoroGoes("rewind_cas", "rewind_clear")
    /\ pc_state' = [pc_state EXCEPT ![Input] = "idle"]
    /\ UNCHANGED <<consumer_status, producer_status, sem, deletions, producer, consumer,
                   joining, ret, m_status, ctx, seen, call, todo, completed>>

try_rewind_cas ==
    /\ \/ /\ CoroGoes("rewind_cas", "rewind_clear")
          /\ Cas(Input, "consumer_set", "idle")
          /\ UNCHANGED todo
       \/ /\ CoroGoes("rewind_cas", "rewind")
          /\ pc_state[Input] # "consumer_set"
          /\ todo' = todo \ {Input}
          /\ UNCHANGED pc_state
    /\ UNCHANGED <<consumer_status, producer_status, sem, deletions, producer, consumer,
                   joining, ret, m_status, ctx, seen, call, completed>>

try_rewind_clear ==
    /\ CoroGoes("rewind_clear", "rewind")
    /\ consumer_status' = [consumer_status EXCEPT ![Input] = "idle"]
    /\ todo' = todo \ {Input}
    /\ UNCHANGED <<pc_state, producer_status, sem, deletions, producer, consumer, joining, ret>>
    /\ UNCHANGED <<m_status, ctx, seen, call, completed>>

rewind_finished ==
    /\ todo = {}
    /\ CoroGoes("rewind", "resume_on")
    /\ UNCHANGED <<vars, m_status, ctx, seen, call, todo, completed>>

\* The resume executor runs the coroutine, which gives the results back, or is
\* shut down, and the exception that ends the coroutine destroys them.
resume_on ==
    /\ CoroGoes("resume_on", "idle")
    /\ \E to \in {"owner", "drop"} :
          consumer' = [r \in Results |-> IF r \in Inputs THEN to ELSE consumer[r]]
    /\ UNCHANGED <<shared, producer, joining, ret, m_status, ctx, seen, call, todo, completed>>

-----------------------------------------------------------------------------
(* A producer that found consumer_set with a when_any context.             *)

\* resume_consumer copies the pointer to the context out of m_consumer.
resume_when_any_consumer(r) ==
    /\ deletions[r] = 0
    /\ consumer_status[r] = "when_any"
    /\ ProducerGoes(r, "resume", "try_resume")
    /\ UNCHANGED <<shared, consumer, joining, ret, anyVars>>

try_resume_load(r) ==
    /\ seen[r] = NotLoaded
    /\ producer[r] = "try_resume"
    /\ \/ /\ m_status[ctx[r]] \in Results
          /\ ProducerGoes(r, "try_resume", "done")
          /\ UNCHANGED seen
       \/ /\ m_status[ctx[r]] \notin Results
          /\ seen' = [seen EXCEPT ![r] = m_status[ctx[r]]]
          /\ UNCHANGED producer
    /\ UNCHANGED <<shared, consumer, joining, ret, m_status, ctx, call, coro, todo, completed>>

\* Mutant: the first result to complete resumes the coroutine in any case.
try_resume_cas_eager(r) ==
    /\ producer[r] = "try_resume"
    /\ seen[r] # NotLoaded
    /\ seen' = [seen EXCEPT ![r] = NotLoaded]
    /\ ProducerGoes(r, "try_resume", "done")
    /\ \/ /\ m_status[ctx[r]] = seen[r]
          /\ SetStatus(ctx[r], r)
          /\ coro' = "resumed"
       \/ /\ m_status[ctx[r]] # seen[r]
          /\ UNCHANGED <<m_status, coro>>
    /\ UNCHANGED <<shared, consumer, joining, ret, ctx, call, todo, completed>>

\* Mutant: a CAS from k_processing that failed is not retried.
try_resume_cas_once(r) ==
    /\ producer[r] = "try_resume"
    /\ seen[r] # NotLoaded
    /\ seen' = [seen EXCEPT ![r] = NotLoaded]
    /\ ProducerGoes(r, "try_resume", "done")
    /\ \/ /\ m_status[ctx[r]] = seen[r]
          /\ SetStatus(ctx[r], r)
          /\ coro' = IF seen[r] = k_done_processing THEN "resumed" ELSE coro
       \/ /\ m_status[ctx[r]] # seen[r]
          /\ UNCHANGED <<m_status, coro>>
    /\ UNCHANGED <<shared, consumer, joining, ret, ctx, call, todo, completed>>

\* The CAS from what was loaded.  From k_done_processing, success resumes the
\* coroutine, failure means that another result was first; from k_processing,
\* success leaves the result for the coroutine to find, failure loads again.
try_resume_cas(r) ==
    LET c == ctx[r] IN
    /\ producer[r] = "try_resume"
    /\ seen[r] # NotLoaded
    /\ seen' = [seen EXCEPT ![r] = NotLoaded]
    /\ \/ /\ m_status[c] = seen[r]
          /\ SetStatus(c, r)
          /\ ProducerGoes(r, "try_resume", "done")
          /\ coro' = IF seen[r] = k_done_processing THEN "resumed" ELSE coro
       \/ /\ m_status[c] # seen[r]
          /\ IF seen[r] = k_done_processing
             THEN ProducerGoes(r, "try_resume", "done")
             ELSE UNCHANGED producer
          /\ UNCHANGED <<m_status, coro>>
    /\ UNCHANGED <<shared, consumer, joining, ret, ctx, call, todo, completed>>

-----------------------------------------------------------------------------

CoroStep ==
    \/ any_result_finished \/ finish_processing \/ when_any_load \/ set_when_any_context
    \/ when_any_cas \/ resume_inline_load \/ resume_inline_cas \/ completed_result
    \/ try_rewind_consumer \/ try_rewind_cas \/ try_rewind_clear \/ rewind_finished
    \/ resume_on

AnyProducerStep(r) ==
    \/ ProducerStep(r) /\ UNCHANGED anyVars
    \/ resume_when_any_consumer(r) \/ try_resume_load(r) \/ try_resume_cas(r)

\* What the client does with a result that it got back: it polls it, gets it or
\* drops it.
Use(r) == call > 0 /\ (drop(r) \/ wait_for(r) \/ wait(r, TRUE))

\* The task of r ends.  Whether with a value or an exception is of no concern to
\* when_any.
Ends(r) == Produce(r, "value")

-----------------------------------------------------------------------------
(* Properties.                                                             *)

\* A producer calls the coroutine handle only while the coroutine of the latest
\* call is suspended, whatever producers of earlier calls still have to do: the
\* coroutine is resumed once per suspension.
ResumesOnlyTheSuspended ==
    [][\A r \in Results :
          producer'[r] # producer[r] /\ coro' # coro => coro = "suspended"]_allVars

\* The index that when_any returns is that of an input that is ready (the
\* assertion in await_resume).
IndexIsReady ==
    coro \in {"rewind", "rewind_cas", "rewind_clear", "resume_on"} =>
        completed \in Inputs /\ Done(completed)

\* The assertions of result_state hold for the coroutine too, and for every use
\* that the client makes of the results it got back: the inputs that did not
\* complete come back without a context.
AnyAssertionsHold ==
    /\ AssertionsHold
    /\ coro = "set" => consumer_status[Input] = "idle"
    /\ coro = "cas" => pc_state[Input] \in {"idle", "producer_done"}
    /\ coro = "rewind_cas" => pc_state[Input] \in {"consumer_set", "producer_done"}
    /\ \A c \in Calls : m_status[c] = k_done_processing => c = call /\ coro = "suspended"

\* The coroutine never writes the context of an input whose producer is about
\* to read it.
AnyContextRaceFree ==
    /\ ContextRaceFree
    /\ coro \in {"set", "rewind_clear"} => producer[Input] # "resume"

\* A suspended when_any is resumed by any input that it is registered with:
\* neither the hand-over of the context to the producers nor the race among
\* them loses the completion.
RegisteredInputResumes ==
    coro = "suspended" /\ (\E r \in Inputs :
                              \/ pc_state[r] = "consumer_set"
                              \/ producer[r] \in {"resume", "try_resume"})
        ~> coro # "suspended"

\* README: when_any "becomes ready when at least one input result is completed".
ReadyWhenOneCompletes ==
    coro = "suspended" /\ (\E r \in Inputs : Done(r)) ~> coro # "suspended"

=============================================================================
