-------------------------------- MODULE WhenAll --------------------------------
(***************************************************************************)
(* when_all: a coroutine awaits its input results one after the other and  *)
(* then gives all of them back on the resume executor.  The client of      *)
(* WhenAny calls it on the results that it holds: fresh ones, those that   *)
(* when_any gave back, or those that it has polled in the meantime.        *)
(***************************************************************************)
EXTENDS WhenAny

VARIABLES
    all,        \* where the coroutine of when_all is, "no" before it is called
    inputs      \* the results that were passed to it

whenVars == <<allVars, all, inputs>>

WhenInit == AnyInit /\ all = "no" /\ inputs = {}

AllGoes(from, to) == all = from /\ all' = to

when_all_call ==
    /\ coro = "idle"
    /\ AllGoes("no", "next")
    /\ inputs' = {r \in Results : consumer[r] = "owner"}
    /\ todo' = inputs'
    /\ UNCHANGED <<vars, m_status, ctx, seen, call, coro, completed>>

\* co_await when_all_awaitable {state_ref}.
all_await ==
    /\ todo # {}
    /\ AllGoes("next", "awaiting")
    /\ await(Input, FALSE)
    /\ UNCHANGED <<anyVars, inputs>>

\* await_resume does nothing; the loop goes on.
all_awaited ==
    /\ AllGoes("awaiting", "next")
    /\ consumer[Input] = "owner"
    /\ todo' = todo \ {Input}
    /\ UNCHANGED <<vars, m_status, ctx, seen, call, coro, completed, inputs>>

all_done ==
    /\ todo = {}
    /\ AllGoes("next", "resume_on")
    /\ UNCHANGED <<allVars, inputs>>

\* The resume executor runs the coroutine, which returns the results, or drops
\* it, and the exception that ends the coroutine destroys them.
all_resume_on ==
    /\ \/ AllGoes("resume_on", "returned") /\ UNCHANGED consumer
       \/ /\ AllGoes("resume_on", "interrupted")
          /\ consumer' = [r \in Results |-> IF r \in inputs THEN "drop" ELSE consumer[r]]
    /\ UNCHANGED <<shared, producer, joining, ret, anyVars, inputs>>

AllStep ==
    \/ all_await \/ all_awaited \/ all_done \/ all_resume_on
    \/ all = "awaiting" /\ ConsumerStep(Input) /\ UNCHANGED <<anyVars, all, inputs>>

\* What happens beside when_all; its inputs are out of the client's hands.
Beside(r) ==
    \/ AnyProducerStep(r)
    \/ Ends(r) /\ UNCHANGED anyVars
    \/ /\ all \in {"no", "returned", "interrupted"} \/ r \notin inputs
       /\ Use(r) \/ ConsumerStep(r)
       /\ UNCHANGED anyVars

WhenNext ==
    \/ when_all_call \/ AllStep
    \/ /\ (all = "no" /\ when_any_call) \/ CoroStep \/ \E r \in Results : Beside(r)
       /\ UNCHANGED <<all, inputs>>

\* Tasks end and threads that can go on do.
WhenFairness ==
    /\ WF_whenVars(AllStep)
    /\ WF_whenVars(CoroStep /\ UNCHANGED <<all, inputs>>)
    /\ \A r \in Results :
          /\ WF_whenVars(Ends(r) /\ UNCHANGED <<anyVars, all, inputs>>)
          /\ WF_whenVars(AnyProducerStep(r) /\ UNCHANGED <<all, inputs>>)

WhenSpec == WhenInit /\ [][WhenNext]_whenVars /\ WhenFairness

-----------------------------------------------------------------------------
(* Properties.                                                             *)

\* README: when_all "becomes ready when all input results are completed".  By
\* then no producer is left that would resume the coroutine a second time.
AllReady ==
    all \in {"resume_on", "returned"} => \A r \in inputs :
        /\ consumer[r] = "owner" => Done(r)
        /\ ~(producer[r] = "resume" /\ consumer_status[r] = "await")

\* What results go through in when_any, when_all and the client's hands leaves
\* them well formed: no assertion of result_state, consumer_context or
\* when_any_context fails, no context is written while a producer reads it, each
\* state is deleted once, and the index that when_any returns is that of an input
\* that is ready.
WhenInv ==
    /\ AnyTypeOK /\ inputs \subseteq Results
    /\ AnyAssertionsHold /\ AnyContextRaceFree /\ DeletedExactlyOnce
    /\ IndexIsReady /\ AllReady

\* Whatever the order in which the tasks end, when_all comes to an end.
WhenAllEnds == all # "no" ~> all \in {"returned", "interrupted"}

=============================================================================
