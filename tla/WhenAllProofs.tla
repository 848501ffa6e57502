----------------------------- MODULE WhenAllProofs -----------------------------
(***************************************************************************)
(* Proofs about when_any and when_all: WhenInv and ResumesOnlyTheSuspended *)
(* for every set of results and every number of calls.                     *)
(***************************************************************************)
EXTENDS WhenAll, WellFoundedInduction, TLAPS

\* The labels of the first loop, those of the second, and those of a co_await.
Loop == {"next", "load", "set", "cas", "inline_load", "inline_cas"}
Rewinding == {"rewind", "rewind_cas", "rewind_clear"}
AwaitLabels == {"await", "await_set", "await_cas", "suspended", "resumed"}

\* The inputs at which the context of the latest call may be registered: those
\* that the first loop has visited and the second has not.
MayBeSet(r) ==
    \/ coro \in Loop \cup {"suspended", "resumed"} /\ r \notin todo
    \/ coro \in Rewinding /\ r \in todo /\ ~(coro = "rewind_clear" /\ r = Input)

\* A result, whoever uses it.
ResultInv(r) ==
    /\ consumer[r] \notin {"promise", "shared"} /\ consumer_status[r] # "shared"
    /\ producer[r] = "running" <=> producer_status[r] = "idle"
    \* Who has touched m_pc_state last.
    /\ Published(r) => Done(r) \/ (pc_state[r] = "consumer_done" /\ consumer[r] = "gone")
    /\ ~Published(r) =>
          /\ consumer[r] \in Unregistered => pc_state[r] = "idle"
          /\ consumer[r] \in {"wait_loop", "wait_blocked"} => pc_state[r] = "consumer_waiting"
          /\ consumer[r] \in {"suspended", "wf_acquire", "wf_rewind"} => pc_state[r] = "consumer_set"
          /\ consumer[r] = "gone" => pc_state[r] = "consumer_done"
          /\ consumer[r] = "any" => pc_state[r] \in {"idle", "consumer_set"}
          /\ consumer[r] \notin {"joined", "resumed"}
    \* What m_consumer holds.
    /\ consumer[r] \in {"await_set", "wf_set"} => consumer_status[r] = "idle"
    /\ consumer[r] \in Unregistered \ {"await_cas", "wf_cas", "wf_clear"} /\ ~Done(r) =>
          consumer_status[r] = "idle"
    /\ consumer[r] \in {"await_cas", "suspended"} => consumer_status[r] = "await"
    /\ consumer[r] \in {"wf_cas", "wf_acquire", "wf_rewind", "wf_clear"} =>
          consumer_status[r] = "wait_for"
    \* What each kind of publication leaves to be done.
    /\ producer[r] = "resume" =>
          \/ consumer_status[r] = "await" /\ consumer[r] = "suspended"
          \/ /\ consumer_status[r] = "wait_for"
             /\ consumer[r] \in SeesDone \cup {"any", "wf_acquire", "wf_rewind"}
          \/ consumer_status[r] = "when_any" /\ consumer[r] \in SeesDone \cup {"any"}
    /\ producer[r] = "try_resume" =>
          consumer_status[r] = "when_any" /\ consumer[r] \in SeesDone \cup {"any"}
    /\ producer[r] = "notify" => consumer[r] \in SeesDone \cup {"any", "wait_loop", "wait_blocked"}
    /\ producer[r] = "undefined" => consumer[r] = "gone"
    /\ sem[r] = 1 => Published(r)
    /\ deletions[r] = IF consumer[r] = "gone" /\ Published(r) THEN 1 ELSE 0

\* An input of when_any, and the context that m_consumer holds.
InputInv(r) ==
    /\ consumer[r] = "any" /\ ~Done(r) /\ pc_state[r] = "idle" =>
          consumer_status[r] = "idle" \/ (coro \in {"cas", "rewind_clear"} /\ r = Input)
    /\ consumer[r] = "any" /\ pc_state[r] = "consumer_set" =>
          consumer_status[r] = "when_any" /\ ctx[r] = call /\ MayBeSet(r)
    /\ producer[r] = "try_resume" \/ (producer[r] = "resume" /\ consumer_status[r] = "when_any") =>
          ctx[r] \in Calls /\ (ctx[r] = call /\ coro # "idle" => consumer[r] = "any")
    /\ ctx[r] <= call
    /\ seen[r] # NotLoaded => producer[r] = "try_resume"

\* The coroutine of when_any.
CoroInv ==
    /\ coro = "idle" => Inputs = {}
    /\ coro # "idle" => call \in Calls /\ all = "no"
    /\ coro \in Loop \cup Rewinding \cup {"resumed"} => todo \subseteq Inputs
    /\ coro \in (Loop \ {"next"}) \cup {"rewind_cas", "rewind_clear"} => todo # {}
    /\ coro \in {"suspended", "resume_on"} => todo = {}
    /\ coro \in Rewinding \cup {"resume_on"} => completed = m_status[call]

\* The contexts of its calls: those of earlier calls have their result, and the
\* one of the latest call has it unless the coroutine is registering or suspended.
ContextsInv ==
    \A c \in Calls :
        /\ c > call => m_status[c] = k_processing
        /\ c < call => m_status[c] \in Results
        /\ c = call =>
              /\ m_status[c] = k_processing => coro \in Loop
              /\ m_status[c] = k_done_processing <=> coro = "suspended"
              /\ m_status[c] \in Results /\ coro # "idle" =>
                    consumer[m_status[c]] = "any" /\ Done(m_status[c])

\* The input that the coroutine is at.
VisitInv ==
    /\ coro \in {"inline_load", "inline_cas"} => Done(Input)
    /\ coro = "set" => consumer_status[Input] = "idle"
    /\ coro = "cas" => consumer_status[Input] = "when_any" /\ ctx[Input] = call
    /\ coro \in {"set", "cas"} => pc_state[Input] # "consumer_set"
    /\ coro = "rewind_cas" => pc_state[Input] \in {"consumer_set", "producer_done"}
    /\ coro = "rewind_clear" => pc_state[Input] \in {"idle", "producer_done"}
    /\ coro \in {"set", "cas", "rewind_clear"} => producer[Input] \notin {"resume", "try_resume"}

\* The coroutine of when_all and its inputs.
AllInv ==
    /\ inputs \subseteq Results
    /\ all \in {"no", "next", "awaiting", "resume_on", "returned", "interrupted"}
    /\ all \in {"next", "awaiting"} => todo \subseteq inputs
    /\ all = "awaiting" => todo # {}
    /\ \A r \in inputs :
          /\ all \in {"next", "awaiting"} /\ r \notin todo => Done(r)
          /\ all \in {"next", "awaiting", "resume_on"} =>
                consumer[r] = "owner" \/ (all = "awaiting" /\ r = Input /\ consumer[r] \in AwaitLabels)
          /\ all = "awaiting" /\ r = Input /\ consumer[r] = "owner" => Done(r)
          /\ all \in {"resume_on", "returned"} => Done(r) /\ consumer[r] \in SeesDone
    /\ \A r \in Results :
          consumer[r] \in AwaitLabels => all = "awaiting" /\ r = Input /\ ~joining[r]

\* The inductive invariant.
WhenProtocol ==
    /\ AnyTypeOK
    /\ \A r \in Results : ResultInv(r) /\ InputInv(r)
    /\ CoroInv /\ ContextsInv /\ VisitInv /\ AllInv
-----------------------------------------------------------------------------
(* The codes in m_status, and the input that a loop is at.                 *)

\* The codes of m_status are no results, and differ from each other.
LEMMA Codes ==
    /\ k_processing \notin Results /\ k_done_processing \notin Results
    /\ k_processing # k_done_processing
    /\ NotLoaded \notin {k_processing, k_done_processing}
  BY ResultsAreNumbered DEF k_processing, k_done_processing, NotLoaded

\* Calls are numbered by naturals, and so are the contexts that m_consumer holds.
LEMMA CallsAreNumbered == \A c \in Calls \cup {0} : c \in Nat
  BY MaxCallsIsPositive DEF Calls

\* The smallest index of those still to visit is one of them.
LEMMA InputIsNext ==
    ASSUME todo \subseteq Results, todo # {}
    PROVE  Input \in todo
  <1>1. todo \subseteq Nat
    BY Zenon, ResultsAreNumbered
  <1>2. PICK x \in todo : \A y \in todo : ~(<<y, x>> \in OpToRel(<, Nat))
    BY Zenon, <1>1, NatLessThanWellFounded, WFMin
  <1>3. \A y \in todo : ~(y < x)
    BY Zenon, <1>1, <1>2 DEF OpToRel
  <1>4. \A y \in todo : x =< y
    BY <1>1, <1>3
  <1> QED
    BY Zenon, <1>4 DEF Input, Min

-----------------------------------------------------------------------------
(* What the client does with a result that it holds, and what when_all     *)
(* does with the input that it awaits.                                     *)

\* A step leaves result q alone.
Leaves(q) ==
    /\ pc_state'[q] = pc_state[q] /\ consumer_status'[q] = consumer_status[q]
    /\ producer_status'[q] = producer_status[q] /\ sem'[q] = sem[q]
    /\ deletions'[q] = deletions[q] /\ producer'[q] = producer[q]
    /\ consumer'[q] = consumer[q] /\ joining'[q] = joining[q]

\* A step of the consumer of r, which is not an input of when_any.
ClientMoves(r) ==
    /\ TypeOK'
    /\ \A q \in Results \ {r} : Leaves(q)
    /\ ResultInv(r)'
    /\ producer'[r] = producer[r]
    /\ consumer[r] # "any" /\ consumer'[r] # "any"
    /\ producer[r] \in {"resume", "try_resume"} => consumer_status'[r] = consumer_status[r]
    /\ Done(r) /\ consumer[r] \in SeesDone => Done(r)' /\ consumer'[r] \in SeesDone

\* Where a consumer that is in a co_await is next.
AwaitMoves(r) ==
    /\ consumer'[r] \in AwaitLabels => consumer[r] \in AwaitLabels /\ joining'[r] = joining[r]
    /\ consumer[r] \in AwaitLabels /\ ~joining[r] =>
          consumer'[r] \in AwaitLabels \/ (consumer'[r] = "owner" /\ Done(r)')

\* A result that a step leaves alone keeps its invariant.
LEMMA LeavesKeepsResult ==
    ASSUME NEW q \in Results, ResultInv(q), Leaves(q)
    PROVE  ResultInv(q)'
  BY Zenon DEF ResultInv, Leaves, Published, Done

\* Every step of a call of the client on r.
LEMMA ConsumerStepMoves ==
    ASSUME NEW r \in Results, TypeOK, ResultInv(r), ConsumerStep(r)
    PROVE  ClientMoves(r) /\ AwaitMoves(r)
  <1> USE DEF ClientMoves, AwaitMoves, AwaitLabels, Leaves, TypeOK, ResultInv, Published, Done, Unregistered, SeesDone,
              PcStates, Statuses, ConsumerStatuses, ProducerLabels, ConsumerLabels,
              ConsumerGoes, Cas, Returns, delete_self, shared, AfterWait, AfterAwait
  <1>1. CASE wait_load(r)
    BY Zenon, <1>1 DEF wait_load
  <1>2. CASE wait_cas(r)
    BY <1>2 DEF wait_cas
  <1>3. CASE wait_loop(r)
    BY Zenon, <1>3 DEF wait_loop
  <1>4. CASE joined_get(r)
    BY <1>4 DEF joined_get
  <1>5. CASE await_load(r)
    BY Zenon, <1>5 DEF await_load
  <1>6. CASE set_await_handle(r)
    BY Zenon, <1>6 DEF set_await_handle
  <1>7. CASE await_cas(r)
    BY <1>7 DEF await_cas
  <1>8. CASE await_resume(r)
    BY Zenon, <1>8 DEF await_resume
  <1>9. CASE wait_for_load(r)
    BY <1>9 DEF wait_for_load
  <1>10. CASE set_wait_for_context(r)
    BY Zenon, <1>10 DEF set_wait_for_context
  <1>11. CASE wait_for_cas(r)
    BY <1>11 DEF wait_for_cas
  <1>12. CASE wait_for_acquired(r)
    BY Zenon, <1>12 DEF wait_for_acquired
  <1>13. CASE wait_for_timed_out(r)
    BY Zenon, <1>13 DEF wait_for_timed_out
  <1>14. CASE wait_for_rewind(r)
    BY <1>14 DEF wait_for_rewind
  <1>15. CASE wait_for_clear(r)
    BY Zenon, <1>15 DEF wait_for_clear
  <1>16. CASE complete_consumer_load(r)
    BY <1>16 DEF complete_consumer_load
  <1>17. CASE complete_consumer_exchange(r)
    BY <1>17 DEF complete_consumer_exchange
  <1> QED
    BY Zenon, <1>1, <1>2, <1>3, <1>4, <1>5, <1>6, <1>7, <1>8, <1>9, <1>10, <1>11, <1>12, <1>13, <1>14, <1>15, <1>16, <1>17 DEF ConsumerStep

\* The calls that the client makes on r.
LEMMA UseMoves ==
    ASSUME NEW r \in Results, TypeOK, ResultInv(r), Use(r)
    PROVE  ClientMoves(r) /\ AwaitMoves(r)
  <1> USE DEF ClientMoves, AwaitMoves, AwaitLabels, Leaves, TypeOK, ResultInv, Published, Done, Unregistered, SeesDone,
              PcStates, Statuses, ConsumerStatuses, ProducerLabels, ConsumerLabels,
              ConsumerGoes, Cas, Returns, delete_self, shared, AfterWait, AfterAwait
  <1>1. CASE drop(r)
    BY Zenon, <1>1 DEF drop
  <1>2. CASE wait_for(r)
    BY Zenon, <1>2 DEF wait_for
  <1>3. CASE wait(r, TRUE)
    BY Zenon, <1>3 DEF wait
  <1> QED
    BY Zenon, <1>1, <1>2, <1>3 DEF Use

\* when_all starts to co_await its input r.
LEMMA AwaitStarts ==
    ASSUME NEW r \in Results, TypeOK, ResultInv(r), await(r, FALSE)
    PROVE  ClientMoves(r) /\ consumer'[r] \in AwaitLabels /\ ~joining'[r]
  BY Zenon DEF ClientMoves, AwaitLabels, Leaves, TypeOK, ResultInv, Published, Done, Unregistered, SeesDone,
         PcStates, Statuses, ConsumerStatuses, ProducerLabels, ConsumerLabels, ConsumerGoes, shared, await

\* A step of the consumer of a result is none of when_any's business.
LEMMA ClientLeavesWhenAny ==
    ASSUME WhenProtocol, NEW r \in Results, ClientMoves(r), UNCHANGED anyVars, coro # "idle" => all' = all
    PROVE  /\ AnyTypeOK' /\ \A q \in Results : ResultInv(q)' /\ InputInv(q)'
           /\ CoroInv' /\ ContextsInv' /\ VisitInv'
  <1>1. /\ AnyTypeOK /\ CoroInv /\ ContextsInv /\ VisitInv
        /\ \A q \in Results : ResultInv(q) /\ InputInv(q)
    BY Zenon DEF WhenProtocol
  <1>2. UNCHANGED <<m_status, ctx, seen, call, coro, todo, completed>>
    BY Zenon DEF anyVars
  <1>3. Input' = Input
    BY Zenon, <1>2 DEF Input
  <1>4. AnyTypeOK'
    BY Zenon, <1>1, <1>2 DEF AnyTypeOK, ClientMoves
  <1>5. ASSUME NEW q \in Results PROVE ResultInv(q)'
    BY Zenon, <1>1, LeavesKeepsResult DEF ClientMoves
  <1>6. ASSUME NEW q \in Results PROVE InputInv(q)'
    <2>1. CASE q = r
      BY Zenon, <1>1, <1>2, <1>3, <2>1 DEF InputInv, ClientMoves, MayBeSet
    <2>2. CASE q # r
      BY Zenon, <1>1, <1>2, <1>3, <2>2 DEF InputInv, ClientMoves, MayBeSet, Leaves, Done
    <2> QED
      BY Zenon, <2>1, <2>2
  <1>7. Inputs' = Inputs
    BY Zenon DEF Inputs, ClientMoves, Leaves
  <1>8. CoroInv'
    BY Zenon, <1>1, <1>2, <1>7 DEF CoroInv
  <1>9. ContextsInv'
    BY <1>1, <1>2 DEF ContextsInv, ClientMoves, Leaves, Done, AnyTypeOK
  <1>10. VisitInv'
    <2>1. coro \in (Loop \ {"next"}) \cup {"rewind_cas", "rewind_clear"} => Input \in Results /\ consumer[Input] = "any"
      BY Zenon, <1>1, InputIsNext DEF CoroInv, Inputs, AnyTypeOK, Loop, Rewinding
    <2>2. coro \in (Loop \ {"next"}) \cup {"rewind_cas", "rewind_clear"} => Leaves(Input)
      BY Zenon, <2>1 DEF ClientMoves
    <2> QED
      BY Zenon, <1>1, <1>2, <1>3, <2>2 DEF VisitInv, Leaves, Done, Loop
  <1> QED
    BY Zenon, <1>4, <1>5, <1>6, <1>8, <1>9, <1>10

\* What the client does with its results.
LEMMA ClientKeeps ==
    ASSUME WhenProtocol, NEW r \in Results, Use(r) \/ ConsumerStep(r), UNCHANGED <<anyVars, all, inputs>>,
           all \in {"no", "returned", "interrupted"} \/ r \notin inputs
    PROVE  WhenProtocol'
  <1>1. ClientMoves(r) /\ AwaitMoves(r)
    BY Zenon, ConsumerStepMoves, UseMoves DEF WhenProtocol, AnyTypeOK
  <1>2. /\ AnyTypeOK' /\ \A q \in Results : ResultInv(q)' /\ InputInv(q)'
        /\ CoroInv' /\ ContextsInv' /\ VisitInv'
    BY Zenon, <1>1, ClientLeavesWhenAny
  <1>3. AllInv'
    <2>1. AllInv /\ todo' = todo /\ Input' = Input
      BY Zenon DEF WhenProtocol, anyVars, Input
    <2>2. /\ inputs' \subseteq Results
          /\ all' \in {"no", "next", "awaiting", "resume_on", "returned", "interrupted"}
          /\ all' \in {"next", "awaiting"} => todo' \subseteq inputs'
          /\ all' = "awaiting" => todo' # {}
      BY Zenon, <2>1 DEF AllInv
    <2>3. ASSUME NEW q \in inputs, q # r
          PROVE  /\ consumer'[q] = consumer[q] /\ Done(q)' = Done(q)
      BY Zenon, <1>1, <2>1, <2>3 DEF ClientMoves, Leaves, Done, AllInv
    <2>4. ASSUME NEW q \in inputs
          PROVE  /\ all' \in {"next", "awaiting"} /\ q \notin todo' => Done(q)'
                 /\ all' \in {"next", "awaiting", "resume_on"} =>
                       \/ consumer'[q] = "owner"
                       \/ all' = "awaiting" /\ q = Input' /\ consumer'[q] \in AwaitLabels
                 /\ all' = "awaiting" /\ q = Input' /\ consumer'[q] = "owner" => Done(q)'
                 /\ all' \in {"resume_on", "returned"} => Done(q)' /\ consumer'[q] \in SeesDone
      <3>1. CASE q # r
        BY Zenon, <2>1, <2>3, <3>1 DEF AllInv
      <3>2. CASE q = r
        BY Zenon, <1>1, <2>1, <3>2 DEF AllInv, ClientMoves
      <3> QED
        BY Zenon, <3>1, <3>2
    <2>5. ASSUME NEW q \in Results, consumer'[q] \in AwaitLabels
          PROVE  all' = "awaiting" /\ q = Input' /\ ~joining'[q]
      <3>1. consumer[q] \in AwaitLabels /\ joining'[q] = joining[q]
        BY Zenon, <1>1, <2>5 DEF ClientMoves, AwaitMoves, Leaves
      <3> QED
        BY Zenon, <2>1, <3>1 DEF AllInv
    <2> QED
      BY Zenon, <2>2, <2>4, <2>5 DEF AllInv
  <1> QED
    BY Zenon, <1>2, <1>3 DEF WhenProtocol

\* co_await of an input of when_all starts, or goes on.
LEMMA AllAwaitKeeps ==
    ASSUME WhenProtocol, UNCHANGED <<anyVars, inputs>>,
           \/ all_await
           \/ all = "awaiting" /\ ConsumerStep(Input) /\ UNCHANGED all
    PROVE  WhenProtocol'
  <1>0. /\ AllInv /\ CoroInv /\ AnyTypeOK /\ todo' = todo /\ Input' = Input
        /\ \A q \in Results : ResultInv(q)
    BY Zenon DEF WhenProtocol, anyVars, Input
  <1>1. Input \in todo /\ Input \in inputs /\ Input \in Results
    BY Zenon, <1>0, InputIsNext DEF AllInv, AnyTypeOK, all_await, AllGoes
  <1>2. /\ all \in {"next", "awaiting"} /\ all' = "awaiting"
        /\ ClientMoves(Input)
        /\ \/ consumer'[Input] \in AwaitLabels /\ ~joining'[Input]
           \/ consumer'[Input] = "owner" /\ Done(Input)'
    <2>1. CASE all_await
      BY Zenon, <1>0, <1>1, <2>1, AwaitStarts DEF all_await, AllGoes, AnyTypeOK
    <2>2. CASE all = "awaiting" /\ ConsumerStep(Input) /\ UNCHANGED all
      <3>1. ClientMoves(Input) /\ AwaitMoves(Input)
        BY Zenon, <1>0, <1>1, <2>2, ConsumerStepMoves DEF AnyTypeOK
      <3>2. consumer[Input] # "owner"
        BY Zenon, <2>2 DEF ConsumerStep, ConsumerGoes, wait_load, wait_cas, wait_loop, joined_get, await_load,
                    set_await_handle, await_cas, await_resume, wait_for_load, set_wait_for_context,
                    wait_for_cas, wait_for_acquired, wait_for_timed_out, wait_for_rewind,
                    wait_for_clear, complete_consumer_load, complete_consumer_exchange
      <3>3. consumer[Input] \in AwaitLabels /\ ~joining[Input]
        BY Zenon, <1>0, <1>1, <2>2, <3>2 DEF AllInv
      <3> QED
        BY Zenon, <2>2, <3>1, <3>3 DEF AwaitMoves
    <2> QED
      BY Zenon, <2>1, <2>2
  <1>3. /\ AnyTypeOK' /\ \A q \in Results : ResultInv(q)' /\ InputInv(q)'
        /\ CoroInv' /\ ContextsInv' /\ VisitInv'
    BY Zenon, <1>0, <1>1, <1>2, ClientLeavesWhenAny DEF CoroInv
  <1>4. AllInv'
    <2>1. \A q \in Results \ {Input} : consumer'[q] = consumer[q] /\ Done(q)' = Done(q) /\ joining'[q] = joining[q]
      BY Zenon, <1>2 DEF ClientMoves, Leaves, Done
    <2>2. ASSUME NEW q \in inputs
          PROVE  /\ q \notin todo => Done(q)'
                 /\ consumer'[q] = "owner" \/ (q = Input /\ consumer'[q] \in AwaitLabels)
                 /\ q = Input /\ consumer'[q] = "owner" => Done(q)'
      BY Zenon, <1>0, <1>1, <1>2, <2>1 DEF AllInv, AwaitLabels
    <2>3. ASSUME NEW q \in Results, consumer'[q] \in AwaitLabels
          PROVE  q = Input /\ ~joining'[q]
      BY Zenon, <1>0, <1>1, <1>2, <2>1, <2>3 DEF AllInv, AwaitLabels
    <2> QED
      BY Zenon, <1>0, <1>1, <1>2, <2>2, <2>3 DEF AllInv
  <1> QED
    BY Zenon, <1>3, <1>4 DEF WhenProtocol

-----------------------------------------------------------------------------
(* The producers.                                                          *)

\* A step of the producer of r.
ProducerMoves(r) ==
    /\ TypeOK'
    /\ \A q \in Results \ {r} : Leaves(q)
    /\ ResultInv(r)'
    /\ consumer_status'[r] = consumer_status[r] /\ joining'[r] = joining[r]
    /\ \/ consumer'[r] = consumer[r]
       \/ consumer[r] = "suspended" /\ consumer'[r] = "resumed"
       \/ consumer[r] = "wait_blocked" /\ consumer'[r] = "wait_loop"
    /\ pc_state'[r] = pc_state[r] \/ pc_state'[r] = "producer_done"
    /\ producer'[r] = "resume" =>
          producer[r] = "resume" \/ (producer[r] = "built" /\ pc_state[r] = "consumer_set")
    /\ producer'[r] = "try_resume" =>
          \/ producer[r] = "try_resume"
          \/ producer[r] = "resume" /\ consumer_status[r] = "when_any"

\* The steps that the producer of any result makes.
LEMMA ProducerStepMoves ==
    ASSUME NEW r \in Results, TypeOK, ResultInv(r), InputInv(r),
           Ends(r) \/ ProducerStep(r) \/ resume_when_any_consumer(r)
    PROVE  ProducerMoves(r) /\ producer[r] # "try_resume"
  <1> USE DEF ProducerMoves, Leaves, TypeOK, ResultInv, Published, Done, Unregistered, SeesDone,
              PcStates, Statuses, ConsumerStatuses, ProducerLabels, ConsumerLabels,
              ProducerGoes, delete_self, shared
  <1>1. CASE Ends(r)
    BY Zenon, <1>1 DEF Ends, Produce
  <1>2. CASE complete_producer(r)
    <2>1. CASE pc_state[r] = "consumer_set"
      <3>1. consumer[r] = "any" => consumer_status[r] = "when_any"
        BY Zenon, <2>1 DEF InputInv
      <3> QED
        BY Zenon, <1>2, <2>1, <3>1 DEF complete_producer
    <2>2. CASE pc_state[r] = "idle"
      BY Zenon, <1>2, <2>2 DEF complete_producer
    <2>3. CASE pc_state[r] = "consumer_waiting"
      BY Zenon, <1>2, <2>3 DEF complete_producer
    <2>4. CASE pc_state[r] = "consumer_done"
      BY <1>2, <2>4 DEF complete_producer
    <2> QED
      BY Zenon, <1>2, <2>1, <2>2, <2>3, <2>4 DEF complete_producer
  <1>3. CASE resume_consumer(r)
    BY Zenon, <1>3 DEF resume_consumer
  <1>4. CASE resume_deleted_consumer(r)
    BY <1>4 DEF resume_deleted_consumer
  <1>5. CASE notify_one(r)
    BY Zenon, <1>5 DEF notify_one
  <1>6. CASE resume_when_any_consumer(r)
    BY Zenon, <1>6 DEF resume_when_any_consumer
  <1> QED
    BY Zenon, <1>1, <1>2, <1>3, <1>4, <1>5, <1>6 DEF ProducerStep

\* A producer that leaves try_resume, or stays in it.
LEMMA TryResumeMoves ==
    ASSUME NEW r \in Results, TypeOK, ResultInv(r), producer[r] = "try_resume",
           producer' = producer \/ ProducerGoes(r, "try_resume", "done"),
           UNCHANGED <<shared, consumer, joining, ret>>
    PROVE  ProducerMoves(r)
  BY Zenon DEF ProducerMoves, Leaves, TypeOK, ResultInv, Published, Done, Unregistered, SeesDone,
         PcStates, Statuses, ConsumerStatuses, ProducerLabels, ConsumerLabels, ProducerGoes, shared

\* What a producer leaves alone: where the coroutines are with their inputs.
LEMMA ProducerLeaves ==
    ASSUME WhenProtocol, NEW r \in Results, ProducerMoves(r), UNCHANGED <<ctx, call, todo, all, inputs>>
    PROVE  /\ TypeOK' /\ \A q \in Results : ResultInv(q)'
           /\ Inputs' = Inputs /\ Input' = Input /\ AllInv'
           /\ \A q \in Results : Done(q) /\ consumer[q] # "gone" => Done(q)' 
           /\ coro' = coro => VisitInv'
  <1>1. /\ AnyTypeOK /\ CoroInv /\ ContextsInv /\ VisitInv /\ AllInv
        /\ \A q \in Results : ResultInv(q) /\ InputInv(q)
    BY Zenon DEF WhenProtocol
  <1>2. \A q \in Results : ResultInv(q)'
    BY Zenon, <1>1, LeavesKeepsResult DEF ProducerMoves
  <1>3. Inputs' = Inputs
    BY Zenon DEF Inputs, ProducerMoves, Leaves
  <1>4. Input' = Input
    BY Zenon DEF Input
  <1>5. \A q \in Results : Done(q) => Done(q)'
    BY Zenon DEF ProducerMoves, Leaves, Done
  <1>6. AllInv'
    <2>1. ASSUME NEW q \in inputs
          PROVE  /\ all' \in {"next", "awaiting"} /\ q \notin todo' => Done(q)'
                 /\ all' \in {"next", "awaiting", "resume_on"} =>
                       \/ consumer'[q] = "owner"
                       \/ all' = "awaiting" /\ q = Input' /\ consumer'[q] \in AwaitLabels
                 /\ all' = "awaiting" /\ q = Input' /\ consumer'[q] = "owner" => Done(q)'
                 /\ all' \in {"resume_on", "returned"} => Done(q)' /\ consumer'[q] \in SeesDone
      BY Zenon, <1>1, <1>4, <1>5 DEF AllInv, ProducerMoves, Leaves, AwaitLabels, SeesDone
    <2>2. ASSUME NEW q \in Results, consumer'[q] \in AwaitLabels
          PROVE  all' = "awaiting" /\ q = Input' /\ ~joining'[q]
      BY Zenon, <1>1, <1>4, <2>2 DEF AllInv, ProducerMoves, Leaves, AwaitLabels
    <2> QED
      BY Zenon, <1>1, <2>1, <2>2 DEF AllInv
  <1>7. ASSUME coro' = coro PROVE VisitInv'
    <2>1. coro \in (Loop \ {"next"}) \cup {"rewind_cas", "rewind_clear"} => Input \in Results
      BY Zenon, <1>1, InputIsNext DEF CoroInv, Inputs, AnyTypeOK, Loop, Rewinding
    <2>2. CASE Input = r
      BY Zenon, <1>1, <1>4, <1>7, <2>2 DEF VisitInv, ProducerMoves, Done
    <2>3. CASE Input # r
      BY Zenon, <1>1, <1>4, <1>7, <2>1, <2>3 DEF VisitInv, ProducerMoves, Leaves, Done, Loop
    <2> QED
      BY Zenon, <2>2, <2>3
  <1> QED
    BY Zenon, <1>2, <1>3, <1>4, <1>5, <1>6, <1>7 DEF ProducerMoves

\* A producer that has no business with when_any, or has just found its context.
LEMMA ProducerKeeps ==
    ASSUME WhenProtocol, NEW r \in Results, UNCHANGED <<anyVars, all, inputs>>,
           Ends(r) \/ ProducerStep(r) \/ resume_when_any_consumer(r)
    PROVE  WhenProtocol'
  <1>1. /\ AnyTypeOK /\ CoroInv /\ ContextsInv /\ VisitInv /\ AllInv
        /\ \A q \in Results : ResultInv(q) /\ InputInv(q)
    BY Zenon DEF WhenProtocol
  <1>2. ProducerMoves(r) /\ producer[r] # "try_resume"
    BY Zenon, <1>1, ProducerStepMoves DEF AnyTypeOK
  <1>3. UNCHANGED <<m_status, ctx, seen, call, coro, todo, completed>>
    BY Zenon DEF anyVars
  <1>4. /\ TypeOK' /\ \A q \in Results : ResultInv(q)'
        /\ Inputs' = Inputs /\ Input' = Input /\ AllInv' /\ VisitInv'
        /\ \A q \in Results : Done(q) /\ consumer[q] # "gone" => Done(q)'
    BY Zenon, <1>2, <1>3, ProducerLeaves
  <1>5. AnyTypeOK' /\ CoroInv'
    BY Zenon, <1>1, <1>3, <1>4 DEF AnyTypeOK, CoroInv
  <1>6. ContextsInv'
    <2>1. \A q \in Results : consumer[q] = "any" => consumer'[q] = "any"
      BY Zenon, <1>2 DEF ProducerMoves, Leaves
    <2> QED
      BY Zenon, <1>1, <1>3, <1>4, <2>1 DEF ContextsInv, AnyTypeOK
  <1>7. ASSUME NEW q \in Results PROVE InputInv(q)'
    <2>1. CASE q # r
      <3>1. Leaves(q) /\ MayBeSet(q)' = MayBeSet(q)
        BY Zenon, <1>2, <1>3, <1>4, <2>1 DEF ProducerMoves, MayBeSet
      <3> QED
        BY Zenon, <1>1, <1>3, <1>4, <3>1 DEF InputInv, Leaves, Done
    <2>2. CASE q = r
      <3>1. consumer[r] = "any" => coro # "idle" /\ call \in Calls
        BY Zenon, <1>1 DEF CoroInv, Inputs
      <3>2. producer'[r] = "resume" /\ consumer_status[r] = "when_any" /\ producer[r] = "built" =>
              consumer[r] = "any"
        BY Zenon, <1>1, <1>2 DEF ResultInv, ProducerMoves, Published, Unregistered, SeesDone, AnyTypeOK, TypeOK, ConsumerLabels
      <3>3. consumer[r] = "any" <=> consumer'[r] = "any"
        BY Zenon, <1>2 DEF ProducerMoves
      <3>4. /\ consumer'[r] = "any" /\ ~Done(r)' /\ pc_state'[r] = "idle" =>
                consumer_status'[r] = "idle" \/ (coro' \in {"cas", "rewind_clear"} /\ r = Input')
            /\ consumer'[r] = "any" /\ pc_state'[r] = "consumer_set" =>
                consumer_status'[r] = "when_any" /\ ctx'[r] = call' /\ MayBeSet(r)'
        BY Zenon, <1>1, <1>2, <1>3, <1>4, <3>3 DEF InputInv, MayBeSet, ProducerMoves, Done
      <3>5. producer'[r] = "try_resume" \/ (producer'[r] = "resume" /\ consumer_status'[r] = "when_any") =>
                ctx'[r] \in Calls /\ (ctx'[r] = call' /\ coro' # "idle" => consumer'[r] = "any")
        BY Zenon, <1>1, <1>2, <1>3, <3>1, <3>2, <3>3 DEF InputInv, ProducerMoves
      <3>6. ctx'[r] <= call' /\ seen'[r] = NotLoaded
        BY Zenon, <1>1, <1>2, <1>3 DEF InputInv
      <3> QED
        BY Zenon, <2>2, <3>4, <3>5, <3>6 DEF InputInv
    <2> QED
      BY Zenon, <2>1, <2>2
  <1> QED
    BY Zenon, <1>4, <1>5, <1>6, <1>7 DEF WhenProtocol

\* The producer of r inside try_resume.
LEMMA TryResumeKeeps ==
    ASSUME WhenProtocol, NEW r \in Results, UNCHANGED <<all, inputs>>,
           try_resume_load(r) \/ try_resume_cas(r)
    PROVE  WhenProtocol'
  <1>1. /\ AnyTypeOK /\ CoroInv /\ ContextsInv /\ VisitInv /\ AllInv
        /\ \A q \in Results : ResultInv(q) /\ InputInv(q)
    BY Zenon DEF WhenProtocol
  <1>2. /\ producer[r] = "try_resume" /\ ctx[r] \in Calls /\ ctx[r] <= call
        /\ consumer[r] = "any" => Done(r)
        /\ ctx[r] = call /\ coro # "idle" => consumer[r] = "any"
    <2>1. producer[r] = "try_resume"
      BY Zenon DEF try_resume_load, try_resume_cas
    <2>2. ctx[r] \in Calls /\ ctx[r] <= call /\ (ctx[r] = call /\ coro # "idle" => consumer[r] = "any")
      BY Zenon, <1>1, <2>1 DEF InputInv
    <2>3. consumer[r] = "any" => Done(r)
      BY Zenon, <1>1, <2>1 DEF ResultInv, Published
    <2> QED
      BY Zenon, <2>1, <2>2, <2>3
  <1>3. /\ UNCHANGED <<shared, consumer, joining, ret, ctx, call, todo, completed>>
        /\ producer' = producer \/ ProducerGoes(r, "try_resume", "done")
    BY Zenon DEF try_resume_load, try_resume_cas
  <1>4. ProducerMoves(r)
    BY Zenon, <1>1, <1>2, <1>3, TryResumeMoves DEF AnyTypeOK
  <1>5. /\ TypeOK' /\ \A q \in Results : ResultInv(q)'
        /\ Inputs' = Inputs /\ Input' = Input /\ AllInv'
        /\ coro' = coro => VisitInv'
    BY Zenon, <1>3, <1>4, ProducerLeaves
  <1>6. /\ seen' \in [Results -> {NotLoaded, k_processing, k_done_processing}]
        /\ \A q \in Results : seen'[q] # NotLoaded => producer'[q] = "try_resume"
    <2>1. CASE try_resume_load(r)
      <3>1. m_status[ctx[r]] \notin Results => m_status[ctx[r]] \in {k_processing, k_done_processing}
        BY Zenon, <1>1, <1>2 DEF AnyTypeOK
      <3> QED
        BY <1>1, <1>2, <2>1, <3>1 DEF try_resume_load, AnyTypeOK, TypeOK, InputInv, ProducerGoes
    <2>2. CASE try_resume_cas(r)
      BY <1>1, <1>2, <2>2 DEF try_resume_cas, AnyTypeOK, TypeOK, InputInv, ProducerGoes
    <2> QED
      BY Zenon, <2>1, <2>2
  <1>7. CASE UNCHANGED <<m_status, coro>>
    <2>1. AnyTypeOK' /\ CoroInv'
      BY Zenon, <1>1, <1>3, <1>5, <1>6, <1>7 DEF AnyTypeOK, CoroInv
    <2>2. ContextsInv'
      BY Zenon, <1>1, <1>3, <1>7 DEF ContextsInv, AnyTypeOK, Done, shared
    <2>3. ASSUME NEW q \in Results PROVE InputInv(q)'
      <3>1. MayBeSet(q)' = MayBeSet(q)
        BY Zenon, <1>3, <1>5, <1>7 DEF MayBeSet
      <3>2. producer'[q] = producer[q] \/ producer'[q] = "done"
        BY Zenon, <1>1, <1>3 DEF ProducerGoes, AnyTypeOK, TypeOK
      <3> QED
        BY Zenon, <1>1, <1>3, <1>5, <1>6, <1>7, <3>1, <3>2 DEF InputInv, Done, shared
    <2> QED
      BY Zenon, <1>5, <1>7, <2>1, <2>2, <2>3 DEF WhenProtocol
  <1>8. CASE ~UNCHANGED <<m_status, coro>>
    <2>1. /\ try_resume_cas(r) /\ m_status[ctx[r]] = seen[r] /\ seen[r] # NotLoaded
          /\ m_status' = [m_status EXCEPT ![ctx[r]] = r]
          /\ coro' = IF seen[r] = k_done_processing THEN "resumed" ELSE coro
      BY Zenon, <1>8 DEF try_resume_load, try_resume_cas, SetStatus
    <2>2. m_status[ctx[r]] \in {k_processing, k_done_processing} /\ m_status[ctx[r]] \notin Results
      BY Zenon, <1>1, <2>1, Codes DEF AnyTypeOK
    <2>3. ctx[r] = call
      <3>1. ~(ctx[r] < call)
        BY Zenon, <1>1, <1>2, <2>2 DEF ContextsInv
      <3>2. ctx[r] \in Nat /\ call \in Nat
        BY Zenon, <1>1, <1>2, CallsAreNumbered DEF AnyTypeOK
      <3> QED
        BY <1>2, <3>1, <3>2
    <2>4. /\ coro \in Loop \/ (coro = "suspended" /\ coro' = "resumed")
          /\ coro \in Loop => coro' = coro
      BY Zenon, <1>1, <1>2, <2>1, <2>2, <2>3, Codes DEF ContextsInv, Loop
    <2>5. consumer[r] = "any" /\ coro' # "suspended" /\ coro' # "idle"
      BY Zenon, <1>2, <2>3, <2>4 DEF Loop
    <2>6. AnyTypeOK'
      BY Zenon, <1>1, <1>2, <1>3, <1>5, <1>6, <2>1, <2>4 DEF AnyTypeOK, CoroLabels
    <2>7. CoroInv'
      BY Zenon, <1>1, <1>3, <1>5, <2>4 DEF CoroInv, Loop, Rewinding
    <2>8. ContextsInv'
      <3> SUFFICES ASSUME NEW c \in Calls
                   PROVE  /\ c > call => m_status'[c] = k_processing
                          /\ c < call => m_status'[c] \in Results
                          /\ c = call =>
                                /\ m_status'[c] = k_processing => coro' \in Loop
                                /\ m_status'[c] = k_done_processing <=> coro' = "suspended"
                                /\ m_status'[c] \in Results /\ coro' # "idle" =>
                                      consumer[m_status'[c]] = "any" /\ pc_state[m_status'[c]] = "producer_done"
        BY Zenon, <1>3 DEF ContextsInv, Done, shared
      <3>1. CASE c = call
        <4>1. m_status'[c] = r
          BY Zenon, <1>1, <2>1, <2>3, <3>1 DEF AnyTypeOK
        <4>2. consumer[r] = "any" /\ pc_state[r] = "producer_done"
          BY Zenon, <1>2, <2>5 DEF Done
        <4> QED
          BY <2>5, <3>1, <4>1, <4>2, Codes, call \in Calls, MaxCallsIsPositive DEF Calls
      <3>2. CASE c # call
        BY Zenon, <1>1, <2>1, <2>3, <3>2 DEF AnyTypeOK, ContextsInv, Done
      <3> QED
        BY Zenon, <3>1, <3>2
    <2>9. ASSUME NEW q \in Results PROVE InputInv(q)'
      <3>1. MayBeSet(q) => MayBeSet(q)'
        BY Zenon, <1>3, <1>5, <2>4 DEF MayBeSet, Loop, Rewinding
      <3>2. producer'[q] = producer[q] \/ producer'[q] = "done"
        BY Zenon, <1>1, <1>3 DEF ProducerGoes, AnyTypeOK, TypeOK
      <3>3. coro # "idle" /\ (coro \in {"cas", "rewind_clear"} => coro' = coro)
        BY Zenon, <2>4 DEF Loop
      <3> QED
        BY Zenon, <1>1, <1>3, <1>5, <1>6, <3>1, <3>2, <3>3 DEF InputInv, Done, shared
    <2>10. VisitInv'
      BY Zenon, <1>5, <2>4 DEF VisitInv
    <2> QED
      BY Zenon, <1>5, <2>6, <2>7, <2>8, <2>9, <2>10 DEF WhenProtocol
  <1> QED
    BY Zenon, <1>7, <1>8

-----------------------------------------------------------------------------
(* The coroutine of when_any.                                              *)

\* While the coroutine of when_any exists nobody has called when_all.
LEMMA NobodyAwaits ==
    ASSUME AllInv, all = "no", UNCHANGED <<all, inputs>>,
           \A q \in Results : consumer'[q] = consumer[q] \/ consumer'[q] \notin AwaitLabels
    PROVE  AllInv'
  BY Zenon DEF AllInv

\* The input that a loop is at is one of the coroutine's.
LEMMA AtAnInput ==
    ASSUME WhenProtocol, coro \in (Loop \ {"next"}) \cup {"rewind_cas", "rewind_clear"}
    PROVE  Input \in todo /\ Input \in Results /\ consumer[Input] = "any" /\ todo \subseteq Inputs
  <1>1. todo \subseteq Inputs /\ todo # {}
    BY Zenon DEF WhenProtocol, CoroInv, Loop, Rewinding
  <1> QED
    BY Zenon, <1>1, InputIsNext DEF Inputs

\* The steps that only look at the inputs.
LEMMA LookingKeepsInputs ==
    ASSUME WhenProtocol, UNCHANGED <<vars, ctx, seen, call, all, inputs>>,
           coro \notin {"idle", "cas", "rewind_clear"}, coro' # "idle",
           \A q \in Inputs : pc_state[q] = "consumer_set" /\ MayBeSet(q) => MayBeSet(q)'
    PROVE  /\ TypeOK' /\ Inputs' = Inputs /\ AllInv'
           /\ \A q \in Results : ResultInv(q)' /\ InputInv(q)'
  <1>1. /\ AnyTypeOK /\ CoroInv /\ AllInv
        /\ \A q \in Results : ResultInv(q) /\ InputInv(q)
    BY Zenon DEF WhenProtocol
  <1>2. UNCHANGED <<pc_state, consumer_status, producer_status, sem, deletions, producer, consumer, joining, ret>>
    BY Zenon DEF vars
  <1>3. TypeOK' /\ Inputs' = Inputs
    BY Zenon, <1>1, <1>2 DEF AnyTypeOK, TypeOK, Inputs
  <1>4. AllInv'
    BY Zenon, <1>1, <1>2, NobodyAwaits DEF CoroInv
  <1>5. ASSUME NEW q \in Results PROVE ResultInv(q)'
    BY Zenon, <1>1, <1>2, LeavesKeepsResult DEF Leaves
  <1>6. ASSUME NEW q \in Results PROVE InputInv(q)'
    <2>1. consumer[q] = "any" /\ pc_state[q] = "consumer_set" /\ MayBeSet(q) => MayBeSet(q)'
      BY Zenon DEF Inputs
    <2> QED
      BY Zenon, <1>1, <1>2, <2>1 DEF InputInv, Done
  <1> QED
    BY Zenon, <1>3, <1>4, <1>5, <1>6

\* any_result_finished: the loop stops early when some result is in m_status.
LEMMA any_result_finished_keeps ==
    ASSUME WhenProtocol, any_result_finished, UNCHANGED <<all, inputs>>
    PROVE  WhenProtocol'
  <1>1. AnyTypeOK /\ CoroInv /\ ContextsInv
    BY Zenon DEF WhenProtocol
  <1>2. /\ coro = "next" /\ todo # {} /\ UNCHANGED <<vars, ctx, seen, call, m_status, todo, completed>>
        /\ coro' \in {"load", "resumed"}
        /\ m_status[call] # k_processing <=> coro' = "resumed"
    BY Zenon DEF any_result_finished, CoroGoes
  <1>3. /\ TypeOK' /\ Inputs' = Inputs /\ AllInv'
        /\ \A q \in Results : ResultInv(q)' /\ InputInv(q)'
    BY Zenon, <1>2, LookingKeepsInputs DEF MayBeSet, Loop, Rewinding
  <1>4. AnyTypeOK' /\ CoroInv'
    BY Zenon, <1>1, <1>2, <1>3 DEF AnyTypeOK, CoroInv, CoroLabels, Loop, Rewinding
  <1>5. ContextsInv'
    BY Zenon, <1>1, <1>2 DEF ContextsInv, Done, vars, Loop
  <1>6. VisitInv'
    BY Zenon, <1>2 DEF VisitInv
  <1> QED
    BY Zenon, <1>3, <1>4, <1>5, <1>6 DEF WhenProtocol

\* finish_processing: the coroutine suspends unless a producer was first.
LEMMA finish_processing_keeps ==
    ASSUME WhenProtocol, finish_processing, UNCHANGED <<all, inputs>>
    PROVE  WhenProtocol'
  <1>1. AnyTypeOK /\ CoroInv /\ ContextsInv
    BY Zenon DEF WhenProtocol
  <1>2. /\ coro = "next" /\ todo = {} /\ UNCHANGED <<vars, ctx, seen, call, todo, completed>>
        /\ \/ coro' = "suspended" /\ m_status' = [m_status EXCEPT ![call] = k_done_processing]
           \/ coro' = "resumed" /\ m_status[call] # k_processing /\ m_status' = m_status
    BY Zenon DEF finish_processing, CoroGoes, SetStatus
  <1>3. /\ TypeOK' /\ Inputs' = Inputs /\ AllInv'
        /\ \A q \in Results : ResultInv(q)' /\ InputInv(q)'
    BY Zenon, <1>2, LookingKeepsInputs DEF MayBeSet, Loop, Rewinding
  <1>4. AnyTypeOK' /\ CoroInv' /\ call \in Calls
    BY Zenon, <1>1, <1>2, <1>3 DEF AnyTypeOK, CoroInv, CoroLabels, Loop, Rewinding
  <1>5. ContextsInv'
    <2>1. CASE coro' = "resumed"
      BY Zenon, <1>1, <1>2, <2>1 DEF ContextsInv, Done, vars, Loop
    <2>2. CASE coro' = "suspended"
      <3>1. \A c \in Calls : m_status'[c] = IF c = call THEN k_done_processing ELSE m_status[c]
        BY Zenon, <1>1, <1>2, <2>2 DEF AnyTypeOK
      <3> QED
        BY Zenon, <1>1, <1>2, <1>4, <2>2, <3>1, Codes DEF ContextsInv, Done, vars, Calls
    <2> QED
      BY Zenon, <1>2, <2>1, <2>2
  <1>6. VisitInv'
    BY Zenon, <1>2 DEF VisitInv
  <1> QED
    BY Zenon, <1>3, <1>4, <1>5, <1>6 DEF WhenProtocol

\* The load of m_pc_state: an input that is not done has no context yet.
LEMMA when_any_load_keeps ==
    ASSUME WhenProtocol, when_any_load, UNCHANGED <<all, inputs>>
    PROVE  WhenProtocol'
  <1>1. /\ AnyTypeOK /\ CoroInv /\ ContextsInv
        /\ \A q \in Results : ResultInv(q) /\ InputInv(q)
    BY Zenon DEF WhenProtocol
  <1>2. /\ coro = "load" /\ UNCHANGED <<vars, ctx, seen, call, m_status, todo, completed>>
        /\ coro' \in {"inline_load", "set"}
        /\ Done(Input) <=> coro' = "inline_load"
        /\ Input' = Input
    BY Zenon DEF when_any_load, CoroGoes, Input
  <1>3. /\ TypeOK' /\ Inputs' = Inputs /\ AllInv'
        /\ \A q \in Results : ResultInv(q)' /\ InputInv(q)'
    BY Zenon, <1>2, LookingKeepsInputs DEF MayBeSet, Loop, Rewinding
  <1>4. AnyTypeOK' /\ CoroInv'
    BY Zenon, <1>1, <1>2, <1>3 DEF AnyTypeOK, CoroInv, CoroLabels, Loop, Rewinding
  <1>5. ContextsInv'
    BY Zenon, <1>1, <1>2 DEF ContextsInv, Done, vars, Loop
  <1>6. VisitInv'
    <2>1. Input \in todo /\ Input \in Results /\ consumer[Input] = "any"
      BY Zenon, <1>2, AtAnInput DEF Loop
    <2>2. ~MayBeSet(Input)
      BY Zenon, <1>2, <2>1 DEF MayBeSet, Loop, Rewinding
    <2>3. ~Done(Input) => ~Published(Input) /\ pc_state[Input] = "idle" /\ consumer_status[Input] = "idle"
      BY Zenon, <1>1, <1>2, <2>1, <2>2 DEF ResultInv, InputInv
    <2> QED
      BY Zenon, <1>2, <2>3 DEF VisitInv, vars, Done, Published
  <1> QED
    BY Zenon, <1>3, <1>4, <1>5, <1>6 DEF WhenProtocol

\* resume_inline: its load of m_status.
LEMMA resume_inline_load_keeps ==
    ASSUME WhenProtocol, resume_inline_load, UNCHANGED <<all, inputs>>
    PROVE  WhenProtocol'
  <1>1. AnyTypeOK /\ CoroInv /\ ContextsInv /\ VisitInv
    BY Zenon DEF WhenProtocol
  <1>2. /\ coro = "inline_load" /\ UNCHANGED <<vars, ctx, seen, call, m_status, todo, completed>>
        /\ coro' \in {"resumed", "inline_cas"}
        /\ m_status[call] # k_processing <=> coro' = "resumed"
        /\ Input' = Input
    BY Zenon DEF resume_inline_load, CoroGoes, Input
  <1>3. /\ TypeOK' /\ Inputs' = Inputs /\ AllInv'
        /\ \A q \in Results : ResultInv(q)' /\ InputInv(q)'
    BY Zenon, <1>2, LookingKeepsInputs DEF MayBeSet, Loop, Rewinding
  <1>4. AnyTypeOK' /\ CoroInv'
    BY Zenon, <1>1, <1>2, <1>3 DEF AnyTypeOK, CoroInv, CoroLabels, Loop, Rewinding
  <1>5. ContextsInv'
    BY Zenon, <1>1, <1>2 DEF ContextsInv, Done, vars, Loop
  <1>6. VisitInv'
    BY Zenon, <1>1, <1>2 DEF VisitInv, vars, Done
  <1> QED
    BY Zenon, <1>3, <1>4, <1>5, <1>6 DEF WhenProtocol

\* resume_inline: its CAS records an input that is ready.
LEMMA resume_inline_cas_keeps ==
    ASSUME WhenProtocol, resume_inline_cas, UNCHANGED <<all, inputs>>
    PROVE  WhenProtocol'
  <1>1. AnyTypeOK /\ CoroInv /\ ContextsInv /\ VisitInv
    BY Zenon DEF WhenProtocol
  <1>2. /\ coro = "inline_cas" /\ coro' = "resumed" /\ UNCHANGED <<vars, ctx, seen, call, todo, completed>>
        /\ \/ m_status' = [m_status EXCEPT ![call] = Input]
           \/ m_status[call] # k_processing /\ m_status' = m_status
    BY Zenon DEF resume_inline_cas, CoroGoes, SetStatus
  <1>3. /\ TypeOK' /\ Inputs' = Inputs /\ AllInv'
        /\ \A q \in Results : ResultInv(q)' /\ InputInv(q)'
    BY Zenon, <1>2, LookingKeepsInputs DEF MayBeSet, Loop, Rewinding
  <1>4. Input \in Results /\ consumer[Input] = "any" /\ Done(Input)
    BY Zenon, <1>1, <1>2, AtAnInput DEF Loop, VisitInv
  <1>5. AnyTypeOK' /\ CoroInv' /\ call \in Calls
    BY Zenon, <1>1, <1>2, <1>3, <1>4 DEF AnyTypeOK, CoroInv, CoroLabels, Loop, Rewinding
  <1>6. ContextsInv'
    <2>1. CASE m_status' = m_status /\ m_status[call] # k_processing
      BY Zenon, <1>1, <1>2, <2>1 DEF ContextsInv, Done, vars, Loop
    <2>2. CASE m_status' = [m_status EXCEPT ![call] = Input]
      <3> HIDE DEF Input
      <3>1. \A c \in Calls : m_status'[c] = IF c = call THEN Input ELSE m_status[c]
        BY Zenon, <1>1, <2>2 DEF AnyTypeOK
      <3> QED
        BY Zenon, <1>1, <1>2, <1>4, <1>5, <3>1, Codes DEF ContextsInv, Done, vars, Calls
    <2> QED
      BY Zenon, <1>2, <2>1, <2>2
  <1>7. VisitInv'
    BY Zenon, <1>2 DEF VisitInv
  <1> QED
    BY Zenon, <1>3, <1>5, <1>6, <1>7 DEF WhenProtocol

\* completed_result: by now m_status holds a result.
LEMMA completed_result_keeps ==
    ASSUME WhenProtocol, completed_result, UNCHANGED <<all, inputs>>
    PROVE  WhenProtocol'
  <1>1. AnyTypeOK /\ CoroInv /\ ContextsInv
    BY Zenon DEF WhenProtocol
  <1>2. /\ coro = "resumed" /\ coro' = "rewind" /\ UNCHANGED <<vars, ctx, seen, call, m_status>>
        /\ completed' = m_status[call] /\ todo' = Inputs
    BY Zenon DEF completed_result, CoroGoes
  <1>3. /\ TypeOK' /\ Inputs' = Inputs /\ AllInv'
        /\ \A q \in Results : ResultInv(q)' /\ InputInv(q)'
    BY Zenon, <1>2, LookingKeepsInputs DEF MayBeSet, Loop, Rewinding
  <1>4. AnyTypeOK' /\ CoroInv'
    BY Zenon, <1>1, <1>2, <1>3 DEF AnyTypeOK, CoroInv, CoroLabels, Loop, Rewinding, Inputs
  <1>5. ContextsInv'
    BY Zenon, <1>1, <1>2 DEF ContextsInv, Done, vars, Loop
  <1>6. VisitInv'
    BY Zenon, <1>2 DEF VisitInv
  <1> QED
    BY Zenon, <1>3, <1>4, <1>5, <1>6 DEF WhenProtocol

\* try_rewind_consumer: its load of m_pc_state skips what is not registered.
LEMMA try_rewind_consumer_keeps ==
    ASSUME WhenProtocol, try_rewind_consumer, UNCHANGED <<all, inputs>>
    PROVE  WhenProtocol'
  <1>1. AnyTypeOK /\ CoroInv /\ ContextsInv
    BY Zenon DEF WhenProtocol
  <1>2. /\ coro = "rewind" /\ todo # {} /\ UNCHANGED <<vars, ctx, seen, call, m_status, completed>>
        /\ \/ coro' = "rewind_cas" /\ pc_state[Input] = "consumer_set" /\ todo' = todo /\ Input' = Input
           \/ coro' = "rewind" /\ pc_state[Input] # "consumer_set" /\ todo' = todo \ {Input}
    BY Zenon DEF try_rewind_consumer, CoroGoes, Input
  <1>3. \A q \in Inputs : pc_state[q] = "consumer_set" /\ MayBeSet(q) => MayBeSet(q)'
    BY Zenon, <1>2 DEF MayBeSet, Loop, Rewinding
  <1>4. /\ TypeOK' /\ Inputs' = Inputs /\ AllInv'
        /\ \A q \in Results : ResultInv(q)' /\ InputInv(q)'
    BY Zenon, <1>2, <1>3, LookingKeepsInputs
  <1>5. AnyTypeOK' /\ CoroInv'
    BY Zenon, <1>1, <1>2, <1>4 DEF AnyTypeOK, CoroInv, CoroLabels, Loop, Rewinding
  <1>6. ContextsInv'
    BY Zenon, <1>1, <1>2 DEF ContextsInv, Done, vars, Loop
  <1>7. VisitInv'
    BY Zenon, <1>2 DEF VisitInv, vars
  <1> QED
    BY Zenon, <1>4, <1>5, <1>6, <1>7 DEF WhenProtocol

\* The second loop is over: no input has a context any more.
LEMMA rewind_finished_keeps ==
    ASSUME WhenProtocol, rewind_finished, UNCHANGED <<all, inputs>>
    PROVE  WhenProtocol'
  <1>1. AnyTypeOK /\ CoroInv /\ ContextsInv
    BY Zenon DEF WhenProtocol
  <1>2. /\ coro = "rewind" /\ coro' = "resume_on" /\ todo = {}
        /\ UNCHANGED <<vars, ctx, seen, call, m_status, todo, completed>>
    BY Zenon DEF rewind_finished, CoroGoes
  <1>3. /\ TypeOK' /\ Inputs' = Inputs /\ AllInv'
        /\ \A q \in Results : ResultInv(q)' /\ InputInv(q)'
    BY Zenon, <1>2, LookingKeepsInputs DEF MayBeSet, Loop, Rewinding
  <1>4. AnyTypeOK' /\ CoroInv'
    BY Zenon, <1>1, <1>2, <1>3 DEF AnyTypeOK, CoroInv, CoroLabels, Loop, Rewinding
  <1>5. ContextsInv'
    BY Zenon, <1>1, <1>2 DEF ContextsInv, Done, vars, Loop
  <1>6. VisitInv'
    BY Zenon, <1>2 DEF VisitInv
  <1> QED
    BY Zenon, <1>3, <1>4, <1>5, <1>6 DEF WhenProtocol

\* The steps that write m_consumer or m_pc_state of the input that the loop is at.
LEMMA VisitKeepsOthers ==
    ASSUME WhenProtocol, coro \in (Loop \ {"next"}) \cup {"rewind_cas", "rewind_clear"},
           coro' \in Loop \cup Rewinding, coro \in Loop <=> coro' \in Loop,
           \A q \in Results \ {Input} : Leaves(q) /\ ctx'[q] = ctx[q] /\ (MayBeSet(q) => MayBeSet(q)'),
           UNCHANGED <<producer, consumer, m_status, seen, call, all, inputs>>,
           pc_state[Input] = "producer_done" => pc_state'[Input] = "producer_done"
    PROVE  /\ \A q \in Results \ {Input} : ResultInv(q)' /\ InputInv(q)'
           /\ Inputs' = Inputs /\ ContextsInv' /\ AllInv'
  <1>1. /\ AnyTypeOK /\ CoroInv /\ ContextsInv /\ AllInv
        /\ \A q \in Results : ResultInv(q) /\ InputInv(q)
    BY Zenon DEF WhenProtocol
  <1>2. \A q \in Results : pc_state[q] = "producer_done" => pc_state'[q] = "producer_done"
    BY Zenon DEF Leaves
  <1>3. ASSUME NEW q \in Results \ {Input} PROVE ResultInv(q)'
    BY Zenon, <1>1, LeavesKeepsResult
  <1>4. ASSUME NEW q \in Results \ {Input} PROVE InputInv(q)'
    <2>1. coro # "idle" /\ coro' # "idle"
      BY Zenon DEF Loop, Rewinding
    <2>2. Leaves(q) /\ ctx'[q] = ctx[q] /\ (MayBeSet(q) => MayBeSet(q)') /\ q # Input
      BY Zenon
    <2> QED
      BY Zenon, <1>1, <2>1, <2>2 DEF InputInv, Leaves, Done
  <1>5. Inputs' = Inputs
    BY Zenon DEF Inputs
  <1>6. ContextsInv'
    <2>1. coro \notin {"idle", "suspended"} /\ coro' \notin {"idle", "suspended"}
      BY Zenon DEF Loop, Rewinding
    <2> QED
      BY Zenon, <1>1, <1>2, <2>1 DEF ContextsInv, Done
  <1>7. AllInv'
    BY Zenon, <1>1, NobodyAwaits DEF CoroInv, Loop, Rewinding
  <1> QED
    BY Zenon, <1>3, <1>4, <1>5, <1>6, <1>7

\* set_when_any_context: no producer can be reading the context that is written.
LEMMA set_when_any_context_keeps ==
    ASSUME WhenProtocol, set_when_any_context, UNCHANGED <<all, inputs>>
    PROVE  WhenProtocol'
  <1>1. /\ AnyTypeOK /\ CoroInv /\ VisitInv
        /\ \A q \in Results : ResultInv(q) /\ InputInv(q)
    BY Zenon DEF WhenProtocol
  <1>2. /\ coro = "set" /\ coro' = "cas" /\ Input' = Input
        /\ consumer_status' = [consumer_status EXCEPT ![Input] = "when_any"]
        /\ ctx' = [ctx EXCEPT ![Input] = call]
        /\ UNCHANGED <<pc_state, producer_status, sem, deletions, producer, consumer, joining, ret,
                       m_status, seen, call, todo, completed>>
    BY Zenon DEF set_when_any_context, CoroGoes, Input
  <1>3. Input \in todo /\ Input \in Results /\ consumer[Input] = "any" /\ call \in Calls
    BY Zenon, <1>1, <1>2, AtAnInput DEF Loop, CoroInv
  <1>i. PICK i \in Results : i = Input
    BY Zenon, <1>3
  <1> HIDE DEF Input
  <1>4. /\ AnyTypeOK'
        /\ \A q \in Results \ {Input} : consumer_status'[q] = consumer_status[q] /\ ctx'[q] = ctx[q]
        /\ consumer_status'[Input] = "when_any" /\ ctx'[Input] = call
    BY Zenon, <1>1, <1>2, <1>3 DEF AnyTypeOK, TypeOK, ConsumerStatuses, CoroLabels
  <1>5. /\ \A q \in Results \ {Input} : ResultInv(q)' /\ InputInv(q)'
        /\ Inputs' = Inputs /\ ContextsInv' /\ AllInv'
    <2>1. \A q \in Results \ {Input} : Leaves(q) /\ ctx'[q] = ctx[q] /\ (MayBeSet(q) => MayBeSet(q)')
      BY Zenon, <1>2, <1>4 DEF Leaves, MayBeSet, Loop, Rewinding
    <2>2. /\ coro \in (Loop \ {"next"}) \cup {"rewind_cas", "rewind_clear"}
          /\ coro' \in Loop \cup Rewinding /\ (coro \in Loop <=> coro' \in Loop)
      BY Zenon, <1>2 DEF Loop, Rewinding
    <2> QED
      BY Zenon, <1>2, <2>1, <2>2, VisitKeepsOthers
  <1>6. pc_state[Input] # "consumer_set" /\ producer[Input] \notin {"resume", "try_resume"}
    BY Zenon, <1>1, <1>2 DEF VisitInv
  <1>7. ResultInv(i)'
    BY Zenon, <1>i, <1>1, <1>2, <1>3, <1>4, <1>6 DEF ResultInv, Published, Done, Unregistered, SeesDone
  <1>8. InputInv(i)'
    <2>1. seen[Input] # NotLoaded => producer[Input] = "try_resume"
      BY Zenon, <1>i, <1>1, <1>3 DEF InputInv
    <2> QED
      BY <1>i, <1>2, <1>3, <1>4, <1>6, <2>1, CallsAreNumbered DEF InputInv
  <1>9. CoroInv'
    BY Zenon, <1>1, <1>2, <1>5 DEF CoroInv, Loop, Rewinding
  <1>10. VisitInv'
    BY Zenon, <1>2, <1>4, <1>6 DEF VisitInv
  <1> QED
    BY Zenon, <1>i, <1>4, <1>5, <1>7, <1>8, <1>9, <1>10 DEF WhenProtocol

\* The CAS that registers the context, or finds the input done.
LEMMA when_any_cas_keeps ==
    ASSUME WhenProtocol, when_any_cas, UNCHANGED <<all, inputs>>
    PROVE  WhenProtocol'
  <1>1. /\ AnyTypeOK /\ CoroInv /\ VisitInv
        /\ \A q \in Results : ResultInv(q) /\ InputInv(q)
    BY Zenon DEF WhenProtocol
  <1>2. /\ coro = "cas" /\ coro' = "next" /\ todo' = todo \ {Input}
        /\ \/ pc_state[Input] = "idle" /\ pc_state' = [pc_state EXCEPT ![Input] = "consumer_set"]
           \/ pc_state[Input] # "idle" /\ pc_state' = pc_state
        /\ UNCHANGED <<consumer_status, producer_status, sem, deletions, producer, consumer, joining, ret,
                       m_status, ctx, seen, call, completed>>
    BY Zenon DEF when_any_cas, CoroGoes, Cas
  <1>3. Input \in todo /\ Input \in Results /\ consumer[Input] = "any" /\ call \in Calls
    BY Zenon, <1>1, <1>2, AtAnInput DEF Loop, CoroInv
  <1>i. PICK i \in Results : i = Input
    BY Zenon, <1>3
  <1>4. /\ pc_state[Input] # "consumer_set" /\ producer[Input] \notin {"resume", "try_resume"}
        /\ consumer_status[Input] = "when_any" /\ ctx[Input] = call
    BY Zenon, <1>1, <1>2 DEF VisitInv
  <1>5. pc_state[Input] # "idle" => Done(Input)
    BY Zenon, <1>1, <1>3, <1>4 DEF ResultInv
  <1> HIDE DEF Input
  <1>6. /\ AnyTypeOK'
        /\ \A q \in Results \ {Input} : pc_state'[q] = pc_state[q]
        /\ pc_state'[Input] = IF pc_state[Input] = "idle" THEN "consumer_set" ELSE pc_state[Input]
    BY Zenon, <1>1, <1>2, <1>3 DEF AnyTypeOK, TypeOK, PcStates, CoroLabels
  <1>7. /\ \A q \in Results \ {Input} : ResultInv(q)' /\ InputInv(q)'
        /\ Inputs' = Inputs /\ ContextsInv' /\ AllInv'
    <2>1. \A q \in Results \ {Input} : Leaves(q) /\ ctx'[q] = ctx[q] /\ (MayBeSet(q) => MayBeSet(q)')
      BY Zenon, <1>2, <1>6 DEF Leaves, MayBeSet, Loop, Rewinding
    <2>2. /\ coro \in (Loop \ {"next"}) \cup {"rewind_cas", "rewind_clear"}
          /\ coro' \in Loop \cup Rewinding /\ (coro \in Loop <=> coro' \in Loop)
      BY Zenon, <1>2 DEF Loop, Rewinding
    <2> QED
      BY Zenon, <1>2, <1>6, <2>1, <2>2, VisitKeepsOthers
  <1>8. ResultInv(i)'
    BY Zenon, <1>i, <1>1, <1>2, <1>3, <1>4, <1>5, <1>6 DEF ResultInv, Published, Done, Unregistered, SeesDone
  <1>9. InputInv(i)'
    <2>1. MayBeSet(i)'
      BY Zenon, <1>i, <1>2 DEF MayBeSet, Loop
    <2> QED
      BY Zenon, <1>i, <1>1, <1>2, <1>3, <1>4, <1>5, <1>6, <2>1 DEF InputInv, Done
  <1>10. CoroInv'
    BY Zenon, <1>1, <1>2, <1>7 DEF CoroInv, Loop, Rewinding
  <1>11. VisitInv'
    BY Zenon, <1>2 DEF VisitInv
  <1> QED
    BY Zenon, <1>i, <1>6, <1>7, <1>8, <1>9, <1>10, <1>11 DEF WhenProtocol

\* The CAS that withdraws the context, or finds that the producer has it.
LEMMA try_rewind_cas_keeps ==
    ASSUME WhenProtocol, try_rewind_cas, UNCHANGED <<all, inputs>>
    PROVE  WhenProtocol'
  <1>1. /\ AnyTypeOK /\ CoroInv /\ VisitInv
        /\ \A q \in Results : ResultInv(q) /\ InputInv(q)
    BY Zenon DEF WhenProtocol
  <1>2. /\ coro = "rewind_cas"
        /\ \/ /\ coro' = "rewind_clear" /\ todo' = todo /\ Input' = Input
              /\ pc_state[Input] = "consumer_set" /\ pc_state' = [pc_state EXCEPT ![Input] = "idle"]
           \/ /\ coro' = "rewind" /\ todo' = todo \ {Input}
              /\ pc_state[Input] # "consumer_set" /\ pc_state' = pc_state
        /\ UNCHANGED <<consumer_status, producer_status, sem, deletions, producer, consumer, joining, ret,
                       m_status, ctx, seen, call, completed>>
    BY Zenon DEF try_rewind_cas, CoroGoes, Cas, Input
  <1>3. Input \in todo /\ Input \in Results /\ consumer[Input] = "any" /\ call \in Calls
    BY Zenon, <1>1, <1>2, AtAnInput DEF Loop, CoroInv
  <1>i. PICK i \in Results : i = Input
    BY Zenon, <1>3
  <1>4. /\ pc_state[Input] \in {"consumer_set", "producer_done"}
        /\ pc_state[Input] = "consumer_set" => ~Published(Input)
    BY Zenon, <1>1, <1>2, <1>3 DEF VisitInv, ResultInv, Done
  <1> HIDE DEF Input
  <1>5. /\ AnyTypeOK'
        /\ \A q \in Results \ {Input} : pc_state'[q] = pc_state[q]
        /\ pc_state'[Input] = IF pc_state[Input] = "consumer_set" THEN "idle" ELSE pc_state[Input]
    BY Zenon, <1>1, <1>2, <1>3 DEF AnyTypeOK, TypeOK, PcStates, CoroLabels
  <1>6. /\ \A q \in Results \ {Input} : ResultInv(q)' /\ InputInv(q)'
        /\ Inputs' = Inputs /\ ContextsInv' /\ AllInv'
    <2>1. \A q \in Results \ {Input} : Leaves(q) /\ ctx'[q] = ctx[q] /\ (MayBeSet(q) => MayBeSet(q)')
      BY Zenon, <1>2, <1>5 DEF Leaves, MayBeSet, Loop, Rewinding
    <2>2. /\ coro \in (Loop \ {"next"}) \cup {"rewind_cas", "rewind_clear"}
          /\ coro' \in Loop \cup Rewinding /\ (coro \in Loop <=> coro' \in Loop)
      BY Zenon, <1>2 DEF Loop, Rewinding
    <2> QED
      BY Zenon, <1>2, <1>5, <2>1, <2>2, VisitKeepsOthers
  <1>7. ResultInv(i)'
    BY Zenon, <1>i, <1>1, <1>2, <1>3, <1>4, <1>5 DEF ResultInv, Published, Done, Unregistered, SeesDone
  <1>8. InputInv(i)'
    <2>1. CASE pc_state[Input] = "consumer_set"
      BY Zenon, <1>i, <1>1, <1>2, <1>3, <1>4, <1>5, <2>1 DEF InputInv, Done, Published
    <2>2. CASE pc_state[Input] = "producer_done"
      BY Zenon, <1>i, <1>1, <1>2, <1>3, <1>5, <2>2 DEF InputInv, Done
    <2> QED
      BY Zenon, <1>4, <2>1, <2>2
  <1>9. CoroInv'
    BY Zenon, <1>1, <1>2, <1>3, <1>6 DEF CoroInv, Loop, Rewinding
  <1>10. VisitInv'
    BY Zenon, <1>2, <1>4, <1>5 DEF VisitInv, Published
  <1> QED
    BY Zenon, <1>i, <1>5, <1>6, <1>7, <1>8, <1>9, <1>10 DEF WhenProtocol

\* m_consumer.clear(), after the context was withdrawn.
LEMMA try_rewind_clear_keeps ==
    ASSUME WhenProtocol, try_rewind_clear, UNCHANGED <<all, inputs>>
    PROVE  WhenProtocol'
  <1>1. /\ AnyTypeOK /\ CoroInv /\ VisitInv
        /\ \A q \in Results : ResultInv(q) /\ InputInv(q)
    BY Zenon DEF WhenProtocol
  <1>2. /\ coro = "rewind_clear" /\ coro' = "rewind" /\ todo' = todo \ {Input}
        /\ consumer_status' = [consumer_status EXCEPT ![Input] = "idle"]
        /\ UNCHANGED <<pc_state, producer_status, sem, deletions, producer, consumer, joining, ret,
                       m_status, ctx, seen, call, completed>>
    BY Zenon DEF try_rewind_clear, CoroGoes
  <1>3. Input \in todo /\ Input \in Results /\ consumer[Input] = "any" /\ call \in Calls
    BY Zenon, <1>1, <1>2, AtAnInput DEF Loop, CoroInv
  <1>i. PICK i \in Results : i = Input
    BY Zenon, <1>3
  <1>4. pc_state[Input] \in {"idle", "producer_done"} /\ producer[Input] \notin {"resume", "try_resume"}
    BY Zenon, <1>1, <1>2 DEF VisitInv
  <1> HIDE DEF Input
  <1>5. /\ AnyTypeOK'
        /\ \A q \in Results \ {Input} : consumer_status'[q] = consumer_status[q]
        /\ consumer_status'[Input] = "idle"
    BY Zenon, <1>1, <1>2, <1>3 DEF AnyTypeOK, TypeOK, ConsumerStatuses, CoroLabels
  <1>6. /\ \A q \in Results \ {Input} : ResultInv(q)' /\ InputInv(q)'
        /\ Inputs' = Inputs /\ ContextsInv' /\ AllInv'
    <2>1. \A q \in Results \ {Input} : Leaves(q) /\ ctx'[q] = ctx[q] /\ (MayBeSet(q) => MayBeSet(q)')
      BY Zenon, <1>2, <1>5 DEF Leaves, MayBeSet, Loop, Rewinding
    <2>2. /\ coro \in (Loop \ {"next"}) \cup {"rewind_cas", "rewind_clear"}
          /\ coro' \in Loop \cup Rewinding /\ (coro \in Loop <=> coro' \in Loop)
      BY Zenon, <1>2 DEF Loop, Rewinding
    <2> QED
      BY Zenon, <1>2, <2>1, <2>2, VisitKeepsOthers
  <1>7. ResultInv(i)'
    BY Zenon, <1>i, <1>1, <1>2, <1>3, <1>4, <1>5 DEF ResultInv, Published, Done, Unregistered, SeesDone
  <1>8. InputInv(i)'
    BY Zenon, <1>i, <1>1, <1>2, <1>3, <1>4, <1>5 DEF InputInv, Done
  <1>9. CoroInv'
    BY Zenon, <1>1, <1>2, <1>6 DEF CoroInv, Loop, Rewinding
  <1>10. VisitInv'
    BY Zenon, <1>2 DEF VisitInv
  <1> QED
    BY Zenon, <1>i, <1>5, <1>6, <1>7, <1>8, <1>9, <1>10 DEF WhenProtocol

\* The client calls when_any on the results that it holds.
LEMMA when_any_call_keeps ==
    ASSUME WhenProtocol, when_any_call, all = "no", UNCHANGED <<all, inputs>>
    PROVE  WhenProtocol'
  <1>1. /\ AnyTypeOK /\ CoroInv /\ ContextsInv /\ AllInv
        /\ \A q \in Results : ResultInv(q) /\ InputInv(q)
    BY Zenon DEF WhenProtocol
  <1>2. /\ coro = "idle" /\ coro' = "next" /\ call < MaxCalls /\ call' = call + 1
        /\ todo' = {r \in Results : consumer[r] = "owner"}
        /\ consumer' = [r \in Results |-> IF consumer[r] = "owner" THEN "any" ELSE consumer[r]]
        /\ UNCHANGED <<pc_state, consumer_status, producer_status, sem, deletions, producer, joining, ret,
                       m_status, ctx, seen, completed>>
    BY Zenon DEF when_any_call, CoroGoes, shared
  <1>3. /\ \A q \in Results : consumer[q] # "any"
        /\ \A q \in Results : consumer'[q] = IF consumer[q] = "owner" THEN "any" ELSE consumer[q]
    BY Zenon, <1>1, <1>2 DEF CoroInv, Inputs
  <1>4. call \in Nat /\ call' \in Calls
    BY <1>1, <1>2, MaxCallsIsPositive DEF AnyTypeOK, Calls
  <1>5. AnyTypeOK'
    <2>1. consumer' \in [Results -> ConsumerLabels]
      BY Zenon, <1>1, <1>2 DEF AnyTypeOK, TypeOK, ConsumerLabels
    <2> QED
      BY Zenon, <1>1, <1>2, <1>4, <2>1 DEF AnyTypeOK, TypeOK, CoroLabels
  <1>6. ASSUME NEW q \in Results PROVE ResultInv(q)'
    BY Zenon, <1>1, <1>2, <1>3 DEF ResultInv, Published, Done, Unregistered, SeesDone
  <1>7. ASSUME NEW q \in Results PROVE InputInv(q)'
    <2>1. consumer'[q] = "any" => pc_state[q] # "consumer_set" /\ (~Done(q) => consumer_status[q] = "idle")
      BY Zenon, <1>1, <1>3 DEF ResultInv, Done, Unregistered
    <2>2. ctx[q] \in Calls \cup {0} /\ ctx[q] <= call
      BY Zenon, <1>1 DEF InputInv, AnyTypeOK
    <2>3. ctx[q] <= call' /\ ctx[q] # call'
      <3> DEFINE x == ctx[q]
      <3>1. x \in Nat /\ x <= call
        BY Zenon, <2>2, CallsAreNumbered
      <3> HIDE DEF x
      <3>2. x <= call' /\ x # call'
        BY <1>2, <1>4, <3>1
      <3> QED
        BY Zenon, <3>2 DEF x
    <2> QED
      BY Zenon, <1>1, <1>2, <2>1, <2>3 DEF InputInv, Done
  <1>8. CoroInv'
    BY Zenon, <1>1, <1>2, <1>3, <1>4 DEF CoroInv, Loop, Rewinding, Inputs, when_any_call
  <1>9. ContextsInv'
    <2>1. \A c \in Calls : c = call => m_status[c] \in Results
      BY Zenon, <1>1, <1>2 DEF ContextsInv, AnyTypeOK, Loop
    <2>2. ASSUME NEW c \in Calls
          PROVE  /\ c > call' => m_status[c] = k_processing
                 /\ c < call' => m_status[c] \in Results
                 /\ c = call' => m_status[c] = k_processing
      <3>1. c \in Nat /\ (c > call' => c > call) /\ (c < call' => c < call \/ c = call) /\ (c = call' => c > call)
        BY <1>2, <1>4, MaxCallsIsPositive DEF Calls
      <3> QED
        BY Zenon, <1>1, <2>1, <3>1 DEF ContextsInv
    <2> QED
      BY Zenon, <1>2, <2>2, Codes DEF ContextsInv, Loop
  <1>10. VisitInv'
    BY Zenon, <1>2 DEF VisitInv
  <1>11. AllInv'
    BY Zenon, <1>1, <1>3, NobodyAwaits DEF AwaitLabels
  <1> QED
    BY Zenon, <1>5, <1>6, <1>7, <1>8, <1>9, <1>10, <1>11 DEF WhenProtocol

\* The inputs go back to the client, or are destroyed with the coroutine.
LEMMA resume_on_keeps ==
    ASSUME WhenProtocol, resume_on, UNCHANGED <<all, inputs>>
    PROVE  WhenProtocol'
  <1>1. /\ AnyTypeOK /\ CoroInv /\ ContextsInv /\ AllInv
        /\ \A q \in Results : ResultInv(q) /\ InputInv(q)
    BY Zenon DEF WhenProtocol
  <1>2. PICK to \in {"owner", "drop"} :
            consumer' = [r \in Results |-> IF r \in Inputs THEN to ELSE consumer[r]]
    BY Zenon DEF resume_on
  <1>3. /\ coro = "resume_on" /\ coro' = "idle"
        /\ UNCHANGED <<pc_state, consumer_status, producer_status, sem, deletions, producer, joining, ret,
                       m_status, ctx, seen, call, todo, completed>>
    BY Zenon DEF resume_on, CoroGoes, shared
  <1>4. \A q \in Results : /\ consumer'[q] = IF consumer[q] = "any" THEN to ELSE consumer[q]
                           /\ consumer'[q] # "any"
    BY Zenon, <1>2 DEF Inputs
  <1>5. AnyTypeOK'
    <2>1. consumer' \in [Results -> ConsumerLabels]
      BY Zenon, <1>1, <1>2 DEF AnyTypeOK, TypeOK, ConsumerLabels
    <2> QED
      BY Zenon, <1>1, <1>3, <2>1 DEF AnyTypeOK, TypeOK, CoroLabels
  <1>6. ASSUME NEW q \in Results PROVE ResultInv(q)'
    <2>1. ~MayBeSet(q)
      BY Zenon, <1>3 DEF MayBeSet, Loop, Rewinding
    <2>2. consumer[q] = "any" => Done(q) \/ (pc_state[q] = "idle" /\ consumer_status[q] = "idle")
      BY Zenon, <1>1, <1>3, <2>1 DEF InputInv, ResultInv, Done
    <2> QED
      BY Zenon, <1>1, <1>2, <1>3, <1>4, <2>2 DEF ResultInv, Published, Done, Unregistered, SeesDone
  <1>7. ASSUME NEW q \in Results PROVE InputInv(q)'
    BY Zenon, <1>1, <1>3, <1>4 DEF InputInv
  <1>8. CoroInv'
    BY Zenon, <1>3, <1>4 DEF CoroInv, Inputs, Loop, Rewinding
  <1>9. ContextsInv'
    BY Zenon, <1>1, <1>3 DEF ContextsInv, Loop
  <1>10. VisitInv'
    BY Zenon, <1>3 DEF VisitInv
  <1>11. AllInv'
    BY Zenon, <1>1, <1>2, <1>3, <1>4, NobodyAwaits DEF CoroInv, AwaitLabels
  <1> QED
    BY Zenon, <1>5, <1>6, <1>7, <1>8, <1>9, <1>10, <1>11 DEF WhenProtocol

-----------------------------------------------------------------------------
(* The coroutine of when_all.                                              *)

\* A step of when_all that does not touch the results.
LEMMA AllKeepsWhenAny ==
    ASSUME WhenProtocol, coro = "idle", todo' \subseteq Results,
           UNCHANGED <<vars, m_status, ctx, seen, call, coro, completed>>
    PROVE  /\ AnyTypeOK' /\ \A q \in Results : ResultInv(q)' /\ InputInv(q)'
           /\ CoroInv' /\ ContextsInv' /\ VisitInv'
  <1>1. /\ AnyTypeOK /\ CoroInv /\ ContextsInv
        /\ \A q \in Results : ResultInv(q) /\ InputInv(q)
    BY Zenon DEF WhenProtocol
  <1>2. UNCHANGED <<pc_state, consumer_status, producer_status, sem, deletions, producer, consumer, joining, ret>>
    BY Zenon DEF vars
  <1>3. AnyTypeOK'
    BY Zenon, <1>1, <1>2 DEF AnyTypeOK, TypeOK
  <1>4. ASSUME NEW q \in Results PROVE ResultInv(q)'
    BY Zenon, <1>1, <1>2, LeavesKeepsResult DEF Leaves
  <1>5. ASSUME NEW q \in Results PROVE InputInv(q)'
    <2>1. consumer[q] # "any"
      BY Zenon, <1>1 DEF CoroInv, Inputs
    <2> QED
      BY Zenon, <1>1, <1>2, <2>1 DEF InputInv
  <1>6. CoroInv'
    BY Zenon, <1>1, <1>2 DEF CoroInv, Inputs, Loop, Rewinding
  <1>7. ContextsInv'
    BY Zenon, <1>1, <1>2 DEF ContextsInv
  <1>8. VisitInv'
    BY Zenon DEF VisitInv
  <1> QED
    BY Zenon, <1>3, <1>4, <1>5, <1>6, <1>7, <1>8

\* The client calls when_all, the loop goes on to the next input, or ends.
LEMMA AllLoopKeeps ==
    ASSUME WhenProtocol, when_all_call \/ all_awaited \/ all_done
    PROVE  WhenProtocol'
  <1>1. AnyTypeOK /\ CoroInv /\ AllInv
    BY Zenon DEF WhenProtocol
  <1>2. UNCHANGED <<vars, m_status, ctx, seen, call, coro, completed>>
    BY Zenon DEF when_all_call, all_awaited, all_done, allVars, anyVars
  <1>3. coro = "idle"
    BY Zenon, <1>1 DEF when_all_call, all_awaited, all_done, AllGoes, CoroInv
  <1>4. todo' \subseteq Results
    BY Zenon, <1>1 DEF AnyTypeOK, when_all_call, all_awaited, all_done, allVars, anyVars
  <1>5. UNCHANGED <<pc_state, consumer, joining>>
    BY Zenon, <1>2 DEF vars
  <1>6. AllInv'
    <2>1. CASE when_all_call
      BY Zenon, <1>1, <1>5, <2>1 DEF AllInv, when_all_call, AllGoes
    <2>2. CASE all_awaited
      <3>1. /\ all = "awaiting" /\ all' = "next" /\ consumer[Input] = "owner"
            /\ todo' = todo \ {Input} /\ inputs' = inputs
        BY Zenon, <2>2 DEF all_awaited, AllGoes
      <3>2. \A r \in inputs : consumer[r] = "owner" /\ (r \notin todo' => Done(r))
        BY Zenon, <1>1, <3>1 DEF AllInv
      <3>3. \A r \in Results : consumer[r] \notin AwaitLabels
        BY Zenon, <1>1, <3>1 DEF AllInv, AwaitLabels
      <3> QED
        BY Zenon, <1>1, <1>5, <3>1, <3>2, <3>3 DEF AllInv, Done
    <2>3. CASE all_done
      <3>1. all = "next" /\ all' = "resume_on" /\ todo = {} /\ inputs' = inputs
        BY Zenon, <2>3 DEF all_done, AllGoes
      <3> QED
        BY Zenon, <1>1, <1>5, <3>1 DEF AllInv, Done, SeesDone
    <2> QED
      BY Zenon, <2>1, <2>2, <2>3
  <1> QED
    BY Zenon, <1>2, <1>3, <1>4, <1>6, AllKeepsWhenAny DEF WhenProtocol

\* The inputs of when_all go back to the client, or are destroyed with the coroutine.
LEMMA all_resume_on_keeps ==
    ASSUME WhenProtocol, all_resume_on
    PROVE  WhenProtocol'
  <1>1. /\ AnyTypeOK /\ CoroInv /\ AllInv /\ ContextsInv
        /\ \A q \in Results : ResultInv(q) /\ InputInv(q)
    BY Zenon DEF WhenProtocol
  <1>2. /\ UNCHANGED <<pc_state, consumer_status, producer_status, sem, deletions, producer, joining, ret,
                       m_status, ctx, seen, call, coro, todo, completed, inputs>>
        /\ all = "resume_on"
    BY Zenon DEF all_resume_on, AllGoes, shared, anyVars
  <1>3. coro = "idle"
    BY Zenon, <1>1, <1>2 DEF CoroInv
  <1>4. \A q \in Results : consumer[q] # "any" /\ consumer[q] \notin AwaitLabels
    BY Zenon, <1>1, <1>2, <1>3 DEF CoroInv, Inputs, AllInv
  <1>5. \A q \in inputs : Done(q) /\ consumer[q] = "owner"
    BY Zenon, <1>1, <1>2 DEF AllInv
  <1>6. CASE all' = "returned" /\ consumer' = consumer
    <2>1. AllInv'
      BY Zenon, <1>1, <1>2, <1>4, <1>5, <1>6 DEF AllInv, Done, SeesDone
    <2>2. todo' \subseteq Results
      BY Zenon, <1>1, <1>2 DEF AnyTypeOK
    <2>3. UNCHANGED <<vars, m_status, ctx, seen, call, coro, completed>>
      BY Zenon, <1>2, <1>6 DEF vars
    <2> QED
      BY Zenon, <1>3, <2>1, <2>2, <2>3, AllKeepsWhenAny DEF WhenProtocol
  <1>7. CASE /\ all' = "interrupted"
             /\ consumer' = [r \in Results |-> IF r \in inputs THEN "drop" ELSE consumer[r]]
    <2>1. AnyTypeOK'
      <3>1. consumer' \in [Results -> ConsumerLabels]
        BY Zenon, <1>1, <1>7 DEF AnyTypeOK, TypeOK, ConsumerLabels
      <3> QED
        BY Zenon, <1>1, <1>2, <3>1 DEF AnyTypeOK, TypeOK
    <2>2. \A q \in Results : /\ consumer'[q] = IF q \in inputs THEN "drop" ELSE consumer[q]
                             /\ consumer'[q] # "any" /\ consumer'[q] \notin AwaitLabels
      BY Zenon, <1>4, <1>7 DEF AwaitLabels
    <2>3. ASSUME NEW q \in Results PROVE ResultInv(q)'
      <3>1. CASE q \in inputs
        BY Zenon, <1>1, <1>2, <1>5, <2>2, <3>1 DEF ResultInv, Published, Done, Unregistered, SeesDone
      <3>2. CASE q \notin inputs
        BY Zenon, <1>1, <1>2, <2>2, <3>2, LeavesKeepsResult DEF Leaves
      <3> QED
        BY Zenon, <3>1, <3>2
    <2>4. ASSUME NEW q \in Results PROVE InputInv(q)'
      BY Zenon, <1>1, <1>2, <1>3, <2>2 DEF InputInv
    <2>5. CoroInv' /\ VisitInv'
      BY Zenon, <1>2, <1>3, <2>2 DEF CoroInv, VisitInv, Inputs, Loop, Rewinding
    <2>6. ContextsInv'
      BY Zenon, <1>1, <1>2, <1>3 DEF ContextsInv
    <2>7. AllInv'
      BY Zenon, <1>1, <1>2, <1>7, <2>2 DEF AllInv
    <2> QED
      BY Zenon, <2>1, <2>3, <2>4, <2>5, <2>6, <2>7 DEF WhenProtocol
  <1> QED
    BY Zenon, <1>6, <1>7 DEF all_resume_on, AllGoes

-----------------------------------------------------------------------------
(* The theorems.                                                           *)

\* The client holds the results of running tasks: nothing is registered yet.
LEMMA WhenProtocolInit == WhenInit => WhenProtocol
  <1> SUFFICES ASSUME WhenInit PROVE WhenProtocol
    BY Zenon
  <1> USE DEF WhenInit, AnyInit
  <1>1. AnyTypeOK
    BY Zenon, MaxCallsIsPositive DEF AnyTypeOK, TypeOK, PcStates, ConsumerStatuses, Statuses, ProducerLabels,
                              ConsumerLabels, CoroLabels, Calls
  <1>2. ASSUME NEW r \in Results PROVE ResultInv(r)
    <2>1. /\ pc_state[r] = "idle" /\ consumer_status[r] = "idle" /\ producer_status[r] = "idle"
          /\ sem[r] # 1 /\ deletions[r] = 0 /\ producer[r] = "running" /\ consumer[r] = "owner"
      OBVIOUS
    <2> QED
      BY Zenon, <2>1 DEF ResultInv, Published, Done, Unregistered, SeesDone
  <1>3. ASSUME NEW r \in Results PROVE InputInv(r)
    BY DEF InputInv
  <1>4. CoroInv /\ VisitInv
    BY Zenon DEF CoroInv, VisitInv, Inputs, Loop, Rewinding
  <1>5. ContextsInv
    BY MaxCallsIsPositive DEF ContextsInv, Calls
  <1>6. AllInv
    BY Zenon DEF AllInv, AwaitLabels
  <1> QED
    BY Zenon, <1>1, <1>2, <1>3, <1>4, <1>5, <1>6 DEF WhenProtocol

\* Every step of the client, the coroutines and the producers keeps the protocol.
LEMMA WhenProtocolStep ==
    ASSUME WhenProtocol, [WhenNext]_whenVars
    PROVE  WhenProtocol'
  <1>1. CASE when_all_call
    BY Zenon, <1>1, AllLoopKeeps
  <1>2. CASE AllStep
    <2>1. CASE all_await
      BY Zenon, <2>1, AllAwaitKeeps DEF all_await
    <2>2. CASE all_awaited \/ all_done
      BY Zenon, <2>2, AllLoopKeeps
    <2>3. CASE all_resume_on
      BY Zenon, <2>3, all_resume_on_keeps
    <2>4. CASE all = "awaiting" /\ ConsumerStep(Input) /\ UNCHANGED <<anyVars, all, inputs>>
      BY Zenon, <2>4, AllAwaitKeeps
    <2> QED
      BY Zenon, <1>2, <2>1, <2>2, <2>3, <2>4 DEF AllStep
  <1>3. CASE all = "no" /\ when_any_call /\ UNCHANGED <<all, inputs>>
    BY Zenon, <1>3, when_any_call_keeps
  <1>4. CASE CoroStep /\ UNCHANGED <<all, inputs>>
    BY Zenon, <1>4, any_result_finished_keeps, finish_processing_keeps, when_any_load_keeps,
       set_when_any_context_keeps, when_any_cas_keeps, resume_inline_load_keeps,
       resume_inline_cas_keeps, completed_result_keeps, try_rewind_consumer_keeps,
       try_rewind_cas_keeps, try_rewind_clear_keeps, rewind_finished_keeps, resume_on_keeps
       DEF CoroStep
  <1>5. ASSUME NEW r \in Results, Beside(r), UNCHANGED <<all, inputs>>
        PROVE  WhenProtocol'
    <2>1. CASE AnyProducerStep(r)
      <3>1. CASE (ProducerStep(r) /\ UNCHANGED anyVars) \/ resume_when_any_consumer(r)
        BY Zenon, <1>5, <3>1, ProducerKeeps DEF resume_when_any_consumer
      <3>2. CASE try_resume_load(r) \/ try_resume_cas(r)
        BY Zenon, <1>5, <3>2, TryResumeKeeps
      <3> QED
        BY Zenon, <2>1, <3>1, <3>2 DEF AnyProducerStep
    <2>2. CASE Ends(r) /\ UNCHANGED anyVars
      BY Zenon, <1>5, <2>2, ProducerKeeps
    <2>3. CASE /\ all \in {"no", "returned", "interrupted"} \/ r \notin inputs
               /\ Use(r) \/ ConsumerStep(r)
               /\ UNCHANGED anyVars
      BY Zenon, <1>5, <2>3, ClientKeeps
    <2> QED
      BY Zenon, <1>5, <2>1, <2>2, <2>3 DEF Beside
  <1>6. CASE UNCHANGED whenVars
    <2>1. UNCHANGED <<vars, m_status, ctx, seen, call, coro, todo, completed, all, inputs>>
      BY Zenon, <1>6 DEF whenVars, allVars, anyVars
    <2>2. UNCHANGED <<pc_state, consumer_status, producer_status, sem, deletions, producer, consumer, joining, ret>>
      BY Zenon, <2>1 DEF vars
    <2> QED
      <3>1. AnyTypeOK' /\ CoroInv' /\ VisitInv'
        <4>1. AnyTypeOK'
          BY Zenon, <2>1, <2>2 DEF WhenProtocol, AnyTypeOK, TypeOK
        <4>2. CoroInv'
          BY Zenon, <2>1, <2>2 DEF WhenProtocol, CoroInv, Inputs
        <4>3. VisitInv'
          BY Zenon, <2>1, <2>2 DEF WhenProtocol, VisitInv, Input, Done
        <4> QED
          BY Zenon, <4>1, <4>2, <4>3
      <3>2. ContextsInv' /\ AllInv'
        BY Zenon, <2>1, <2>2 DEF WhenProtocol, ContextsInv, AllInv, Input, Done
      <3>3. ASSUME NEW r \in Results PROVE ResultInv(r)' /\ InputInv(r)'
        <4>1. ResultInv(r)'
          BY Zenon, <2>2, LeavesKeepsResult DEF WhenProtocol, Leaves
        <4>2. InputInv(r)'
          BY Zenon, <2>1, <2>2 DEF WhenProtocol, InputInv, MayBeSet, Input, Done
        <4> QED
          BY Zenon, <4>1, <4>2
      <3> QED
        BY Zenon, <3>1, <3>2, <3>3 DEF WhenProtocol
  <1> QED
    BY Zenon, <1>1, <1>2, <1>3, <1>4, <1>5, <1>6 DEF WhenNext

\* What the protocol says is enough for the assertions and the index.
LEMMA WhenProtocolSafe == WhenProtocol => WhenInv
  <1> SUFFICES ASSUME WhenProtocol PROVE WhenInv
    BY Zenon
  <1>1. /\ AnyTypeOK /\ CoroInv /\ AllInv /\ ContextsInv /\ VisitInv
        /\ \A q \in Results : ResultInv(q) /\ InputInv(q)
    BY Zenon DEF WhenProtocol
  <1>2. AssertionsHold
    <2> SUFFICES ASSUME NEW r \in Results
                 PROVE  /\ consumer[r] \in {"await_set", "wf_set"} => consumer_status[r] = "idle"
                        /\ consumer[r] \in {"owner", "wait_cas", "await_cas", "wf_cas", "drop_exchange"} =>
                              pc_state[r] \in {"idle", "producer_done"}
                        /\ consumer[r] = "wf_rewind" => pc_state[r] \in {"consumer_set", "producer_done"}
                        /\ consumer[r] \in {"joined", "resumed"} => Done(r) /\ producer_status[r] # "idle"
                        /\ consumer[r] = "wf_acquire" /\ sem[r] = 1 => Done(r)
                        /\ producer[r] = "running" => producer_status[r] = "idle"
                        /\ producer[r] = "built" => ~Done(r) /\ producer_status[r] # "idle"
      BY Zenon DEF AssertionsHold
    <2>1. consumer[r] \in ConsumerLabels
      BY Zenon, <1>1 DEF AnyTypeOK, TypeOK
    <2> QED
      BY Zenon, <1>1, <2>1 DEF ResultInv, Published, Done, Unregistered, ConsumerLabels
  <1>3. ContextRaceFree
    BY Zenon, <1>1 DEF ContextRaceFree, ResultInv, SeesDone
  <1>4. DeletedExactlyOnce
    BY Zenon, <1>1 DEF DeletedExactlyOnce, ResultInv
  <1>5. coro # "idle" => call \in Calls
    BY Zenon, <1>1 DEF CoroInv
  <1>6. \A c \in Calls : m_status[c] = k_done_processing => c = call /\ coro = "suspended"
    <2> SUFFICES ASSUME NEW c \in Calls, m_status[c] = k_done_processing
                 PROVE  c = call /\ coro = "suspended"
      BY Zenon
    <2>1. c \in Nat /\ call \in Nat
      BY <1>1, MaxCallsIsPositive DEF Calls, AnyTypeOK
    <2>2. ~(c > call) /\ ~(c < call)
      BY Zenon, <1>1, Codes DEF ContextsInv
    <2>3. c = call
      BY <2>1, <2>2
    <2> QED
      BY Zenon, <1>1, <2>3 DEF ContextsInv
  <1>7. coro = "cas" => pc_state[Input] \in {"idle", "producer_done"}
    <2> SUFFICES ASSUME coro = "cas" PROVE pc_state[Input] \in {"idle", "producer_done"}
      BY Zenon
    <2>1. Input \in Results /\ consumer[Input] = "any"
      BY Zenon, AtAnInput DEF Loop
    <2> QED
      BY Zenon, <1>1, <2>1 DEF VisitInv, ResultInv, Done
  <1>8. AnyAssertionsHold
    BY Zenon, <1>1, <1>2, <1>6, <1>7 DEF AnyAssertionsHold, VisitInv
  <1>9. AnyContextRaceFree
    BY Zenon, <1>1, <1>3 DEF AnyContextRaceFree, VisitInv
  <1>10. IndexIsReady
    <2> SUFFICES ASSUME coro \in {"rewind", "rewind_cas", "rewind_clear", "resume_on"}
                 PROVE  completed \in Inputs /\ Done(completed)
      BY Zenon DEF IndexIsReady
    <2>1. completed = m_status[call] /\ call \in Calls
      BY Zenon, <1>1, <1>5 DEF CoroInv, Rewinding
    <2>2. completed \in Results
      BY Zenon, <1>1, <2>1 DEF ContextsInv, AnyTypeOK, Loop
    <2> QED
      BY Zenon, <1>1, <2>1, <2>2 DEF ContextsInv, Inputs
  <1>11. AllReady
    BY Zenon, <1>1 DEF AllReady, AllInv, ResultInv, SeesDone
  <1> QED
    BY Zenon, <1>1, <1>4, <1>8, <1>9, <1>10, <1>11 DEF WhenInv, AllInv

\* WhenInv for any number of results and of calls: no assertion of result_state,
\* consumer_context or when_any_context fails, no context is written while its
\* producer reads it, each state is deleted once, the index that when_any gives
\* back is that of a ready input, and when_all gives back ready inputs only.
THEOREM WhenAnyAndAllAreSafe == WhenSpec => []WhenInv
  <1>1. WhenInit => WhenProtocol
    BY Zenon, WhenProtocolInit
  <1>2. WhenProtocol /\ [WhenNext]_whenVars => WhenProtocol'
    BY Zenon, WhenProtocolStep
  <1>3. WhenProtocol => WhenInv
    BY Zenon, WhenProtocolSafe
  <1> QED
    BY <1>1, <1>2, <1>3, PTL DEF WhenSpec

\* Only try_resume's CAS moves a producer and the coroutine of when_any together,
\* and it finds k_done_processing only in the context of a suspended coroutine.
LEMMA ResumeStep ==
    ASSUME WhenProtocol, [WhenNext]_whenVars, NEW r \in Results,
           producer'[r] # producer[r], coro' # coro
    PROVE  coro = "suspended"
  <1>1. PICK q \in Results : try_resume_cas(q)
    <2>1. ~(when_all_call \/ AllStep \/ UNCHANGED whenVars)
      BY Zenon DEF when_all_call, AllStep, all_await, all_awaited, all_done, all_resume_on, whenVars, allVars,
             anyVars, vars
    <2>2. ~(when_any_call \/ CoroStep)
      BY Zenon DEF when_any_call, CoroStep, vars, any_result_finished, finish_processing, when_any_load,
             set_when_any_context, when_any_cas, resume_inline_load, resume_inline_cas, completed_result,
             try_rewind_consumer, try_rewind_cas, try_rewind_clear, rewind_finished, resume_on
    <2>3. ASSUME NEW q \in Results, Beside(q) PROVE try_resume_cas(q)
      BY Zenon, <2>3 DEF Beside, AnyProducerStep, anyVars, resume_when_any_consumer, try_resume_load
    <2> QED
      BY Zenon, <2>1, <2>2, <2>3 DEF WhenNext
  <1>2. m_status[ctx[q]] = k_done_processing /\ producer[q] = "try_resume"
    BY Zenon, <1>1 DEF try_resume_cas
  <1>3. ctx[q] \in Calls
    BY Zenon, <1>2 DEF WhenProtocol, InputInv
  <1>4. AnyAssertionsHold
    BY Zenon, WhenProtocolSafe DEF WhenInv
  <1> QED
    BY Zenon, <1>2, <1>3, <1>4 DEF AnyAssertionsHold

\* ResumesOnlyTheSuspended for any number of results and of calls: a producer
\* calls the coroutine handle in try_resume only while the coroutine of the latest
\* call is suspended, whatever producers of earlier calls still have to do.
THEOREM ProducersResumeOnlyTheSuspended == WhenSpec => ResumesOnlyTheSuspended
  <1>1. WhenInit => WhenProtocol
    BY Zenon, WhenProtocolInit
  <1>2. WhenProtocol /\ [WhenNext]_whenVars => WhenProtocol'
    BY Zenon, WhenProtocolStep
  <1>3. WhenProtocol /\ [WhenNext]_whenVars =>
            [\A r \in Results : producer'[r] # producer[r] /\ coro' # coro => coro = "suspended"]_allVars
    BY Zenon, ResumeStep
  <1> QED
    BY <1>1, <1>2, <1>3, PTL DEF WhenSpec, ResumesOnlyTheSuspended

====
