----------------------------- MODULE ResultProofs -----------------------------
(***************************************************************************)
(* The safety of results: the producer/consumer rendezvous, for every set  *)
(* of results, the coroutines that produce and await them, and             *)
(* shared_result, for any number of holders.                               *)
(***************************************************************************)
EXTENDS Coroutine, SharedResult, FiniteSetTheorems, TLAPS

-----------------------------------------------------------------------------
(* The rendezvous follows from the inductive invariant Inv of ResultState: *)
(* each step touches one result, so it preserves Protocol of that result   *)
(* by the label and the m_pc_state it starts from, and of the others because *)
(* it leaves them alone.  Coroutines keep to that interface, so what holds of *)
(* every producer and consumer holds of theirs; and the frame that a       *)
(* result_state lives in is destroyed with it, once, and never before its  *)
(* coroutine is suspended for good.                                        *)

\* A new result_state satisfies the invariant.
LEMMA InitEstablishesInv == Init => Inv
  BY DEF Init, Inv, TypeOK, Protocol, Published, Done, PcStates, Statuses,
         ConsumerStatuses, ProducerLabels, ConsumerLabels, Unregistered, SeesDone

\* No step of the producer (set_result ... complete_producer, and the wake-up
\* it owes the consumer) breaks the invariant.
LEMMA ProducerPreservesInv ==
  ASSUME Inv, NEW r \in Results, TaskEnds(r) \/ ProducerStep(r)
  PROVE  Inv'
<1> USE DEF Inv, TypeOK, Protocol, Published, Done, Unregistered, SeesDone,
            PcStates, Statuses, ConsumerStatuses, ProducerLabels, ConsumerLabels,
            ProducerGoes, delete_self, shared
<1>1. CASE TaskEnds(r)
  BY <1>1 DEF TaskEnds, Produce
<1>2. CASE complete_producer(r)
  BY <1>2 DEF complete_producer
<1>3. CASE resume_consumer(r)
  BY <1>3 DEF resume_consumer
<1>4. CASE resume_deleted_consumer(r)
  BY <1>4 DEF resume_deleted_consumer
<1>5. CASE notify_one(r)
  BY <1>5 DEF notify_one
<1> QED
  BY Zenon, <1>1, <1>2, <1>3, <1>4, <1>5 DEF ProducerStep

\* No call that a client makes on a result or a promise breaks the invariant.
LEMMA ClientPreservesInv ==
  ASSUME Inv, NEW r \in Results, ClientCall(r)
  PROVE  Inv'
<1> USE DEF Inv, TypeOK, Protocol, Published, Done, Unregistered, SeesDone,
            PcStates, Statuses, ConsumerStatuses, ProducerLabels, ConsumerLabels,
            ConsumerGoes, ProducerGoes, Returns, delete_self, shared
<1>1. CASE get_result(r)
  BY <1>1 DEF get_result
<1>2. CASE destroy_promise(r)
  BY <1>2 DEF destroy_promise
<1>3. CASE drop(r)
  BY <1>3 DEF drop
<1>4. ASSUME NEW join \in BOOLEAN, wait(r, join)
      PROVE  Inv'
  BY <1>4 DEF wait
<1>5. ASSUME NEW join \in BOOLEAN, await(r, join)
      PROVE  Inv'
  BY <1>5 DEF await
<1>6. CASE wait_for(r)
  BY <1>6 DEF wait_for
<1>7. CASE status(r)
  BY <1>7 DEF status
<1>8. CASE make_ready_result(r)
  BY <1>8 DEF make_ready_result
<1> HIDE DEF Inv
<1> QED
  BY Zenon, <1>1, <1>2, <1>3, <1>4, <1>5, <1>6, <1>7, <1>8 DEF ClientCall, wait_until

\* No step inside a call of the consumer breaks the invariant.
LEMMA ConsumerPreservesInv ==
  ASSUME Inv, NEW r \in Results, ConsumerStep(r) \/ wait_spurious(r)
  PROVE  Inv'
<1> USE DEF Inv, TypeOK, Protocol, Published, Done, Unregistered, SeesDone,
            PcStates, Statuses, ConsumerStatuses, ProducerLabels, ConsumerLabels,
            ConsumerGoes, Cas, Returns, delete_self, shared, AfterWait, AfterAwait
<1>1. CASE wait_load(r)
  BY <1>1 DEF wait_load
<1>2. CASE wait_cas(r)
  BY <1>2 DEF wait_cas
<1>3. CASE wait_loop(r)
  BY <1>3 DEF wait_loop
<1>4. CASE wait_spurious(r)
  BY <1>4 DEF wait_spurious
<1>5. CASE joined_get(r)
  BY <1>5 DEF joined_get
<1>6. CASE await_load(r)
  BY <1>6 DEF await_load
<1>7. CASE set_await_handle(r)
  BY <1>7 DEF set_await_handle
<1>8. CASE await_cas(r)
  BY <1>8 DEF await_cas
<1>9. CASE await_resume(r)
  BY <1>9 DEF await_resume
<1>10. CASE wait_for_load(r)
  BY <1>10 DEF wait_for_load
<1>11. CASE set_wait_for_context(r)
  BY <1>11 DEF set_wait_for_context
<1>12. CASE wait_for_cas(r)
  BY <1>12 DEF wait_for_cas
<1>13. CASE wait_for_acquired(r)
  BY <1>13 DEF wait_for_acquired
<1>14. CASE wait_for_timed_out(r)
  BY <1>14 DEF wait_for_timed_out
<1>15. CASE wait_for_rewind(r)
  BY <1>15 DEF wait_for_rewind
<1>16. CASE wait_for_clear(r)
  BY <1>16 DEF wait_for_clear
<1>17. CASE complete_consumer_load(r)
  BY <1>17 DEF complete_consumer_load
<1>18. CASE complete_consumer_exchange(r)
  BY <1>18 DEF complete_consumer_exchange
<1> QED
  BY Zenon, <1>1, <1>2, <1>3, <1>4, <1>5, <1>6, <1>7, <1>8, <1>9, <1>10, <1>11, <1>12,
     <1>13, <1>14, <1>15, <1>16, <1>17, <1>18 DEF ConsumerStep

\* A step of the whole system preserves the invariant.
LEMMA NextPreservesInv == Inv /\ [Next]_vars => Inv'
<1>1. ASSUME Inv, NEW r \in Results,
             \/ TaskEnds(r) \/ ProducerStep(r)
             \/ ClientCall(r) \/ ConsumerStep(r) \/ wait_spurious(r)
      PROVE  Inv'
  BY Zenon, <1>1, ProducerPreservesInv, ClientPreservesInv, ConsumerPreservesInv
<1>2. ASSUME Inv, UNCHANGED vars
      PROVE  Inv'
  BY <1>2 DEF Inv, TypeOK, Protocol, Published, Done, vars
<1> QED
  BY Zenon, <1>1, <1>2 DEF Next

\* The protocol between the producer and the consumer of a result keeps its
\* inductive invariant: the type invariant, and for every result the agreement
\* of m_pc_state, the consumer context and the places of both ends.
THEOREM InvariantHolds == Spec => []Inv
  BY InitEstablishesInv, NextPreservesInv, PTL DEF Spec

\* The type invariant: in particular no state is deleted twice.
THEOREM TypeCorrect == Spec => []TypeOK
<1>1. Inv => TypeOK
  BY Zenon DEF Inv
<1> QED
  BY <1>1, InvariantHolds, PTL

\* None of the assertions in result_state and consumer_context can fail.
THEOREM AssertionsNeverFail == Spec => []AssertionsHold
<1>1. Inv => AssertionsHold
  BY Zenon DEF Inv, TypeOK, Protocol, AssertionsHold, Published, Done, Unregistered,
         SeesDone, PcStates, ProducerLabels
<1> QED
  BY <1>1, InvariantHolds, PTL

\* resume_consumer never reads m_consumer while the consumer writes it.
THEOREM ContextIsRaceFree == Spec => []ContextRaceFree
<1>1. Inv => ContextRaceFree
  BY Zenon DEF Inv, TypeOK, Protocol, ContextRaceFree, Published, SeesDone
<1> QED
  BY <1>1, InvariantHolds, PTL

\* Whichever end of a result finishes last deletes the state, and only it.
THEOREM StateDeletedExactlyOnce == Spec => []DeletedExactlyOnce
<1>1. Inv => DeletedExactlyOnce
  BY Zenon DEF Inv, Protocol, DeletedExactlyOnce
<1> QED
  BY <1>1, InvariantHolds, PTL

\* A producer that is done leaves no coroutine suspended and no thread blocked.
THEOREM WakeUpsAreNotLost == Spec => []NoLostWakeUp
<1>1. Inv => NoLostWakeUp
  BY Zenon DEF Inv, Protocol, NoLostWakeUp
<1> QED
  BY <1>1, InvariantHolds, PTL

-----------------------------------------------------------------------------
(* The refinement: under Inv every step of the protocol is a step of       *)
(* AsyncResult or leaves its three variables alone.                        *)

\* A step of the consumer from one label to another moves the client of that
\* result, and no other.
LEMMA ClientMoves ==
  ASSUME TypeOK, NEW r \in Results, NEW from, NEW to, ConsumerGoes(r, from, to)
  PROVE  /\ Client[r] = ClientAt(from)
         /\ Client' = [Client EXCEPT ![r] = ClientAt(to)]
         /\ ClientAt(from) = ClientAt(to) => Client' = Client
  BY Zenon DEF TypeOK, ConsumerGoes, Client

\* The step of complete_producer publishes the outcome; the other steps of the
\* producer do not concern the client.
LEMMA ProducerRefines ==
  ASSUME Inv, NEW r \in Results, TaskEnds(r) \/ ProducerStep(r)
  PROVE  [Abstract!Next]_(Abstract!vars)
<1> USE DEF Inv, TypeOK, Protocol, Published, Done, Outcome, Client,
            Statuses, SeesDone, ProducerGoes, shared
<1>1. CASE TaskEnds(r)
  <2>1. Outcome' = Outcome
    BY <1>1 DEF TaskEnds, Produce
  <2>2. Client' = Client /\ ret' = ret
    BY Zenon, <1>1 DEF TaskEnds, Produce
  <2> QED
    BY Zenon, <2>1, <2>2 DEF Abstract!vars
<1>2. CASE complete_producer(r)
  <2>1. Outcome[r] = "pending" /\ Outcome' = [Outcome EXCEPT ![r] = producer_status[r]]
    BY Zenon, <1>2 DEF complete_producer
  <2>2. Client' = Client /\ ret' = ret /\ producer_status[r] \in {"value", "exception"}
    BY Zenon, <1>2 DEF complete_producer
  <2>3. Abstract!Publish(r)
    BY Zenon, <2>1, <2>2 DEF Abstract!Publish, Abstract!Ready
  <2> QED
    BY Zenon, <2>3 DEF Abstract!Next
<1>3. CASE resume_consumer(r) \/ resume_deleted_consumer(r) \/ notify_one(r)
  <2>1. Outcome' = Outcome
    BY <1>3 DEF resume_consumer, resume_deleted_consumer, notify_one
  <2>2. \/ consumer' = consumer
        \/ ConsumerGoes(r, "suspended", "resumed")
        \/ ConsumerGoes(r, "wait_blocked", "wait_loop")
    BY <1>3 DEF resume_consumer, resume_deleted_consumer, notify_one, ConsumerGoes
  <2>3. Client' = Client /\ ret' = ret
    BY <1>3, <2>2, ClientMoves
    DEF resume_consumer, resume_deleted_consumer, notify_one, ClientAt
  <2> QED
    BY Zenon, <2>1, <2>3 DEF Abstract!vars
<1> QED
  BY Zenon, <1>1, <1>2, <1>3 DEF ProducerStep

\* As long as the consumer has the state, the outcome is what m_producer holds
\* once m_pc_state says producer_done, and pending before.
LEMMA OutcomeSeen ==
  ASSUME TypeOK, NEW r \in Results, Protocol(r), consumer[r] # "gone"
  PROVE  /\ Done(r) => Outcome[r] = producer_status[r] /\ Outcome[r] # "pending"
         /\ ~Done(r) => Outcome[r] = "pending"
  BY Zenon DEF TypeOK, Protocol, Published, Done, Outcome, Statuses

\* A step that leaves the producer alone leaves the outcome alone.
LEMMA OutcomeKept ==
  ASSUME UNCHANGED <<producer, producer_status>>
  PROVE  Outcome' = Outcome
  BY Zenon DEF Outcome, Published

\* The calls a client makes begin a call, ask for the status, or end the
\* client's interest in the result.
LEMMA ClientRefines ==
  ASSUME Inv, NEW r \in Results, ClientCall(r)
  PROVE  [Abstract!Next]_(Abstract!vars)
<1>0. TypeOK /\ Protocol(r)
  BY Zenon DEF Inv
<1>1. CASE get_result(r) \/ drop(r)
  <2>1. Outcome' = Outcome /\ ret' = ret
    BY Zenon, <1>1, OutcomeKept DEF get_result, drop, shared
  <2>2. Client' = Client
    BY Zenon, <1>0, <1>1, ClientMoves DEF get_result, drop, ClientAt
  <2> QED
    BY Zenon, <2>1, <2>2 DEF Abstract!vars
<1>2. CASE destroy_promise(r)
  <2>1. Outcome' = Outcome /\ ret' = ret
    BY <1>0, <1>2 DEF destroy_promise, ProducerGoes, Outcome, Published, Protocol, TypeOK
  <2>2. \/ Client' = Client
        \/ Client[r] = "holding" /\ Client' = [Client EXCEPT ![r] = "finished"]
    BY Zenon, <1>0, <1>2, ClientMoves DEF destroy_promise, ClientAt
  <2> QED
    BY Zenon, <2>1, <2>2 DEF Abstract!vars, Abstract!Next, Abstract!Discard, Abstract!ClientGoes
<1>3. CASE wait_for(r) \/ \E join \in BOOLEAN : wait(r, join) \/ await(r, join)
  <2>1. Outcome' = Outcome /\ ret' = ret
    BY Zenon, <1>3, OutcomeKept DEF wait_for, wait, await, shared
  <2>2. Client[r] = "holding" /\ Client' = [Client EXCEPT ![r] = "calling"]
    BY <1>0, <1>3, ClientMoves DEF wait_for, wait, await, ClientAt
  <2> QED
    BY Zenon, <2>1, <2>2 DEF Abstract!Next, Abstract!Begin, Abstract!ClientGoes
<1>4. CASE status(r)
  <2>1. Outcome' = Outcome /\ Client' = Client /\ Client[r] = "holding"
    BY Zenon, <1>4, OutcomeKept DEF status, shared, Client, ClientAt
  <2>2. Done(r) <=> pc_state[r] # "idle"
    BY Zenon, <1>0, <1>4 DEF status, Protocol, Done, Unregistered
  <2>3. ret' = [ret EXCEPT ![r] = IF Outcome[r] # "pending" THEN Outcome[r] ELSE "idle"]
    BY Zenon, <1>0, <1>4, <2>2, OutcomeSeen DEF status, Returns
  <2>4. Abstract!Query(r)
    BY Zenon, <2>1, <2>3 DEF Abstract!Query, Abstract!Told, Abstract!Ready
  <2> QED
    BY Zenon, <2>4 DEF Abstract!Next
<1>5. CASE make_ready_result(r)
  <2>1. PICK s \in {"value", "exception"} : Outcome[r] = "pending" /\ Outcome' = [Outcome EXCEPT ![r] = s]
    <3>1. PICK s \in {"value", "exception"} : producer_status' = [producer_status EXCEPT ![r] = s]
      BY Zenon, <1>5 DEF make_ready_result
    <3>2. producer[r] = "running" /\ producer' = [producer EXCEPT ![r] = "done"]
      BY Zenon, <1>5 DEF make_ready_result, ProducerGoes
    <3>3. \A q \in Results : Published(q)' = (Published(q) \/ q = r)
      BY Zenon, <1>0, <3>2 DEF Published, TypeOK
    <3>4. \A q \in Results : producer_status'[q] = IF q = r THEN s ELSE producer_status[q]
      BY Zenon, <1>0, <3>1 DEF TypeOK
    <3>5. Outcome[r] = "pending"
      BY Zenon, <3>2 DEF Outcome, Published
    <3>6. Outcome' = [Outcome EXCEPT ![r] = s]
      BY Zenon, <3>3, <3>4 DEF Outcome
    <3> QED
      BY Zenon, <3>5, <3>6
  <2>2. Client' = Client /\ ret' = ret
    BY Zenon, <1>0, <1>5, ClientMoves DEF make_ready_result, ClientAt
  <2> QED
    BY Zenon, <2>1, <2>2 DEF Abstract!Next, Abstract!Publish, Abstract!Ready
<1> QED
  BY Zenon, <1>1, <1>2, <1>3, <1>4, <1>5 DEF ClientCall, wait_until

\* A step inside a call is invisible, or answers with the outcome, or gives up
\* while the outcome is pending.
LEMMA ConsumerRefines ==
  ASSUME Inv, NEW r \in Results, ConsumerStep(r) \/ wait_spurious(r)
  PROVE  [Abstract!Next]_(Abstract!vars)
<1> DEFINE Quiet ==
             \/ wait_spurious(r) \/ set_await_handle(r)
             \/ set_wait_for_context(r) \/ wait_for_timed_out(r)
           Checks ==
             \/ wait_load(r) \/ wait_cas(r) \/ wait_loop(r)
             \/ await_load(r) \/ await_cas(r) \/ await_resume(r)
           Answers ==
             \/ wait_for_load(r) \/ wait_for_cas(r) \/ wait_for_acquired(r)
           Drops == complete_consumer_load(r) \/ complete_consumer_exchange(r)
<1>0. TypeOK /\ Protocol(r)
  BY Zenon DEF Inv
<1>1. CASE Quiet
  <2>1. Outcome' = Outcome /\ ret' = ret
    BY Zenon, <1>1, OutcomeKept DEF wait_spurious, set_await_handle, set_wait_for_context,
                             wait_for_timed_out, shared
  <2>2. Client' = Client
    BY <1>0, <1>1, ClientMoves DEF wait_spurious, set_await_handle,
                                   set_wait_for_context, wait_for_timed_out, ClientAt
  <2> QED
    BY Zenon, <2>1, <2>2 DEF Abstract!vars
<1>2. CASE Checks
  <2>1. Outcome' = Outcome /\ ret' = ret
    BY Zenon, <1>2, OutcomeKept DEF wait_load, wait_cas, wait_loop, await_load, await_cas,
                             await_resume, shared
  <2>2. \/ Client' = Client
        \/ /\ Done(r) /\ consumer[r] # "gone"
           /\ Client[r] = "calling" /\ Client' = [Client EXCEPT ![r] = "holding"]
    <3>1. CASE wait_load(r) \/ wait_loop(r)
      <4>1. consumer[r] # "gone"
        BY Zenon, <3>1 DEF wait_load, wait_loop, ConsumerGoes
      <4> QED
        BY <1>0, <3>1, <4>1, ClientMoves DEF wait_load, wait_loop, AfterWait, ClientAt
    <3>2. CASE await_load(r)
      <4>1. consumer[r] # "gone"
        BY Zenon, <3>2 DEF await_load, ConsumerGoes
      <4> QED
        BY <1>0, <3>2, <4>1, ClientMoves DEF await_load, AfterAwait, ClientAt
    <3>3. CASE wait_cas(r)
      <4>1. consumer[r] = "wait_cas" /\ (pc_state[r] # "idle" => Done(r))
        BY Zenon, <1>0, <3>3 DEF wait_cas, ConsumerGoes, Protocol, Done, Unregistered
      <4> QED
        BY <1>0, <3>3, <4>1, ClientMoves DEF wait_cas, AfterWait, ClientAt
    <3>4. CASE await_cas(r)
      <4>1. consumer[r] = "await_cas" /\ (pc_state[r] # "idle" => Done(r))
        BY Zenon, <1>0, <3>4 DEF await_cas, ConsumerGoes, Protocol, Done, Unregistered
      <4> QED
        BY <1>0, <3>4, <4>1, ClientMoves DEF await_cas, AfterAwait, ClientAt
    <3>5. CASE await_resume(r)
      <4>1. consumer[r] = "resumed" /\ Done(r)
        BY Zenon, <1>0, <3>5 DEF await_resume, ConsumerGoes, Protocol
      <4> QED
        BY <1>0, <3>5, <4>1, ClientMoves DEF await_resume, AfterAwait, ClientAt
    <3> QED
      BY Zenon, <1>2, <3>1, <3>2, <3>3, <3>4, <3>5
  <2> QED
    BY Zenon, <1>0, <2>1, <2>2, OutcomeSeen
    DEF Abstract!vars, Abstract!Next, Abstract!Answer, Abstract!ClientGoes, Abstract!Ready
<1>3. CASE Answers
  <2>1. Outcome' = Outcome
    BY Zenon, <1>3, OutcomeKept DEF wait_for_load, wait_for_cas, wait_for_acquired, shared
  <2>2. \/ Client' = Client /\ ret' = ret
        \/ /\ Done(r) /\ consumer[r] # "gone"
           /\ Client[r] = "calling" /\ Client' = [Client EXCEPT ![r] = "holding"]
           /\ ret' = [ret EXCEPT ![r] = producer_status[r]]
    <3>1. CASE wait_for_load(r)
      <4>1. consumer[r] # "gone"
        BY Zenon, <3>1 DEF wait_for_load, ConsumerGoes
      <4> QED
        BY <1>0, <3>1, <4>1, ClientMoves DEF wait_for_load, Returns, ClientAt
    <3>2. CASE wait_for_cas(r)
      <4>1. consumer[r] = "wf_cas" /\ (pc_state[r] # "idle" => Done(r))
        BY Zenon, <1>0, <3>2 DEF wait_for_cas, ConsumerGoes, Protocol, Done, Unregistered
      <4> QED
        BY <1>0, <3>2, <4>1, ClientMoves DEF wait_for_cas, Returns, ClientAt
    <3>3. CASE wait_for_acquired(r)
      <4>1. consumer[r] = "wf_acquire" /\ Done(r)
        BY Zenon, <1>0, <3>3 DEF wait_for_acquired, ConsumerGoes, Protocol, Published, Done
      <4> QED
        BY Zenon, <1>0, <3>3, <4>1, ClientMoves DEF wait_for_acquired, Returns, ClientAt
    <3> QED
      BY Zenon, <1>3, <3>1, <3>2, <3>3
  <2> QED
    BY Zenon, <1>0, <2>1, <2>2, OutcomeSeen
    DEF Abstract!vars, Abstract!Next, Abstract!Answer, Abstract!ClientGoes, Abstract!Ready,
        Abstract!Told
<1>4. CASE wait_for_rewind(r)
  <2>1. Outcome' = Outcome
    BY Zenon, <1>4, OutcomeKept DEF wait_for_rewind
  <2>2. /\ consumer[r] = "wf_rewind"
        /\ Done(r) <=> pc_state[r] # "consumer_set"
    BY Zenon, <1>0, <1>4 DEF wait_for_rewind, ConsumerGoes, Protocol, Done
  <2>3. \/ /\ ~Done(r)
           /\ Client[r] = "calling" /\ Client' = [Client EXCEPT ![r] = "timed_out"]
           /\ ret' = ret
        \/ /\ Done(r)
           /\ Client[r] = "calling" /\ Client' = [Client EXCEPT ![r] = "holding"]
           /\ ret' = [ret EXCEPT ![r] = producer_status[r]]
    BY Zenon, <1>0, <1>4, <2>2, ClientMoves DEF wait_for_rewind, Returns, Cas, ClientAt
  <2> QED
    BY Zenon, <1>0, <2>1, <2>2, <2>3, OutcomeSeen
    DEF Abstract!Next, Abstract!GiveUp, Abstract!Answer, Abstract!ClientGoes,
        Abstract!Ready, Abstract!Told
<1>5. CASE wait_for_clear(r)
  <2>1. Outcome' = Outcome /\ ret' = [ret EXCEPT ![r] = "idle"]
    BY Zenon, <1>5, OutcomeKept DEF wait_for_clear, Returns
  <2>2. Client[r] = "timed_out" /\ Client' = [Client EXCEPT ![r] = "holding"]
    BY Zenon, <1>0, <1>5, ClientMoves DEF wait_for_clear, ClientAt
  <2> QED
    BY Zenon, <2>1, <2>2 DEF Abstract!Next, Abstract!AnswerIdle, Abstract!ClientGoes, Abstract!Told
<1>6. CASE joined_get(r)
  <2>1. Outcome' = Outcome /\ ret' = [ret EXCEPT ![r] = producer_status[r]]
    BY Zenon, <1>6, OutcomeKept DEF joined_get, Returns
  <2>2. Done(r) /\ consumer[r] = "joined"
    BY Zenon, <1>0, <1>6 DEF joined_get, ConsumerGoes, Protocol
  <2>3. Client[r] = "calling" /\ Client' = [Client EXCEPT ![r] = "finished"]
    BY <1>0, <1>6, ClientMoves DEF joined_get, ClientAt
  <2> QED
    BY Zenon, <1>0, <2>1, <2>2, <2>3, OutcomeSeen
    DEF Abstract!Next, Abstract!Take, Abstract!ClientGoes, Abstract!Ready, Abstract!Told
<1>7. CASE Drops
  <2>1. Outcome' = Outcome /\ ret' = ret
    BY Zenon, <1>7, OutcomeKept DEF complete_consumer_load, complete_consumer_exchange
  <2>2. \/ Client' = Client
        \/ Client[r] = "holding" /\ Client' = [Client EXCEPT ![r] = "finished"]
    BY Zenon, <1>0, <1>7, ClientMoves DEF complete_consumer_load, complete_consumer_exchange, ClientAt
  <2> QED
    BY Zenon, <2>1, <2>2 DEF Abstract!vars, Abstract!Next, Abstract!Discard, Abstract!ClientGoes
<1> QED
  BY Zenon, <1>1, <1>2, <1>3, <1>4, <1>5, <1>6, <1>7 DEF ConsumerStep

\* The lock-free protocol implements the abstract result: a result is published
\* once, every call answers with the published outcome, and a wait_for that
\* timed out answers idle only when it gave up before the publication.
THEOREM ProtocolImplementsAsyncResult == Spec => ImplementsAsyncResult
<1>1. Init => Abstract!Init
  BY DEF Init, Abstract!Init, Outcome, Client, ClientAt, Published
<1>2. Inv /\ [Next]_vars => [Abstract!Next]_(Abstract!vars)
  <2>1. ASSUME Inv, NEW r \in Results,
               \/ TaskEnds(r) \/ ProducerStep(r)
               \/ ClientCall(r) \/ ConsumerStep(r) \/ wait_spurious(r)
        PROVE  [Abstract!Next]_(Abstract!vars)
    BY Zenon, <2>1, ProducerRefines, ClientRefines, ConsumerRefines
  <2>2. ASSUME UNCHANGED vars
        PROVE  UNCHANGED Abstract!vars
    BY Zenon, <2>2 DEF vars, Abstract!vars, Outcome, Client, Published
  <2> QED
    BY Zenon, <2>1, <2>2 DEF Next
<1> QED
  BY <1>1, <1>2, InvariantHolds, PTL DEF Spec, ImplementsAsyncResult, Abstract!Spec

-----------------------------------------------------------------------------
(* The coroutines.                                                         *)

\* What the promise types do to a result_state is what a producer may do to it.
LEMMA PromisesUseTheState ==
    ASSUME NEW c \in Results,
           call(c) \/ body_ends(c) \/ publish(c) \/ promise_step(c) \/ wake_step(c)
    PROVE  Next \/ UNCHANGED vars
<1>1. CASE call(c)
  BY Zenon, <1>1 DEF call, Next, ClientCall
<1>2. CASE body_ends(c)
  BY Zenon, <1>2 DEF body_ends, Leaves, Next, TaskEnds
<1>3. CASE publish(c) \/ promise_step(c) \/ wake_step(c)
  BY Zenon, <1>3 DEF publish, promise_step, wake_step, Next, ProducerStep
<1> QED
  BY Zenon, <1>1, <1>2, <1>3

\* Every behaviour of coroutines and their results is, on what producer and
\* consumer share, a behaviour of ResultState: get_return_object, return_value,
\* unhandled_exception and final_suspend add nothing to its protocol.
THEOREM CoImplementsResultState == CoSpec => Spec
<1>1. CoInit => Init
  BY Zenon DEF CoInit
<1>2. [CoNext]_co_vars => [Next]_vars
  <2>1. ASSUME NEW c \in Results, Choice(c) \/ Step(c) \/ BodyEnds(c) \/ result_step(c)
        PROVE  [Next]_vars
    <3>1. CASE call(c) \/ body_ends(c) \/ publish(c) \/ promise_step(c) \/ wake_step(c)
      BY Zenon, <3>1, PromisesUseTheState
    <3>2. CASE result_call(c) \/ result_step(c) \/ spurious_step(c)
      BY Zenon, <3>2 DEF result_call, result_step, spurious_step, Next
    <3>3. CASE \/ suspend(c) \/ make_callee(c) \/ drop_callee(c) \/ generator_next(c)
               \/ lazy_suspend(c) \/ start(c) \/ resume(c) \/ lazy_resume(c) \/ final_suspend(c)
               \/ lazy_await_resume(c)
      BY Zenon, <3>3 DEF suspend, make_callee, drop_callee, generator_next, lazy_suspend, start, resume,
                  lazy_resume, final_suspend, lazy_await_resume
    <3>4. CASE \/ \E awaitable \in {"awaitable", "resolver"} : lazy_await(c, awaitable)
               \/ \E outcome \in {"value", "exception"} : lazy_ends(c, outcome)
      BY Zenon, <3>4 DEF lazy_await, lazy_ends
    <3> QED
      BY Zenon, <2>1, <3>1, <3>2, <3>3, <3>4 DEF Choice, Step, BodyEnds
  <2>2. ASSUME UNCHANGED co_vars PROVE UNCHANGED vars
    BY Zenon, <2>2 DEF co_vars
  <2> QED
    BY Zenon, <2>1, <2>2 DEF CoNext
<1> QED
  BY <1>1, <1>2, PTL DEF CoSpec, Spec

\* So the protocol's invariant holds of results that are coroutines.
THEOREM CoKeepsTheProtocol == CoSpec => []Inv
  BY CoImplementsResultState, InvariantHolds, PTL

\* The state in a frame is deleted once, by whichever end finishes last.
THEOREM CoDeletesExactlyOnce == CoSpec => []DeletedExactlyOnce
  BY CoImplementsResultState, StateDeletedExactlyOnce, PTL

\* And the caller of a coroutine sees an outcome that is published once, and
\* answers that agree with it.
THEOREM CoImplementsAsyncResult == CoSpec => ImplementsAsyncResult
  BY CoImplementsResultState, ProtocolImplementsAsyncResult, PTL

-----------------------------------------------------------------------------
(* Frames.                                                                 *)

\* A step of one result leaves the ends of the others, and their deletion, alone.
Untouched(r) == \A q \in Results \ {r} :
    producer'[q] = producer[q] /\ consumer'[q] = consumer[q] /\ deletions'[q] = deletions[q]

\* A call in progress moves the consumer on, and leaves the producer alone.
LEMMA ConsumerTouches ==
    ASSUME Inv, NEW r \in Results, ConsumerStep(r) \/ wait_spurious(r)
    PROVE  /\ Untouched(r) /\ producer' = producer
           /\ consumer[r] \notin {"promise", "owner"} /\ consumer'[r] # "promise"
<1> USE DEF Inv, TypeOK, Untouched, ConsumerGoes, delete_self, shared, AfterWait, AfterAwait
<1>1. CASE wait_load(r) \/ wait_cas(r) \/ wait_loop(r) \/ wait_spurious(r)
  BY Zenon, <1>1 DEF wait_load, wait_cas, wait_loop, wait_spurious
<1>2. CASE joined_get(r) \/ complete_consumer_load(r) \/ complete_consumer_exchange(r)
  BY Zenon, <1>2 DEF joined_get, complete_consumer_load, complete_consumer_exchange
<1>3. CASE await_load(r) \/ set_await_handle(r) \/ await_cas(r) \/ await_resume(r)
  BY Zenon, <1>3 DEF await_load, set_await_handle, await_cas, await_resume
<1>4. CASE \/ wait_for_load(r) \/ set_wait_for_context(r) \/ wait_for_cas(r)
           \/ wait_for_acquired(r)
  BY Zenon, <1>4 DEF wait_for_load, set_wait_for_context, wait_for_cas, wait_for_acquired
<1>5. CASE wait_for_timed_out(r) \/ wait_for_rewind(r) \/ wait_for_clear(r)
  BY Zenon, <1>5 DEF wait_for_timed_out, wait_for_rewind, wait_for_clear
<1> QED
  BY Zenon, <1>1, <1>2, <1>3, <1>4, <1>5 DEF ConsumerStep

\* A consumer that is gone takes no step.
LEMMA GoneStays ==
    ASSUME NEW r \in Results, consumer[r] = "gone"
    PROVE  ~ConsumerStep(r) /\ ~wait_spurious(r)
  BY Zenon DEF ConsumerStep, wait_spurious, ConsumerGoes, wait_load, wait_cas, wait_loop, joined_get,
         await_load, set_await_handle, await_cas, await_resume, wait_for_load,
         set_wait_for_context, wait_for_cas, wait_for_acquired, wait_for_timed_out,
         wait_for_rewind, wait_for_clear, complete_consumer_load, complete_consumer_exchange

\* So does a call that begins, unless it is one of a promise.
LEMMA ClientTouches ==
    ASSUME Inv, NEW r \in Results, ClientCall(r)
    PROVE  /\ Untouched(r)
           /\ consumer[r] # "promise" =>
                 producer' = producer /\ deletions' = deletions /\ consumer'[r] # "promise"
<1> USE DEF Inv, TypeOK, Untouched, ConsumerGoes, ProducerGoes, delete_self, shared
<1>1. CASE get_result(r) \/ destroy_promise(r) \/ make_ready_result(r) \/ drop(r)
  BY Zenon, <1>1 DEF get_result, destroy_promise, make_ready_result, drop
<1>2. CASE \E join \in BOOLEAN : wait(r, join) \/ await(r, join)
  BY Zenon, <1>2 DEF wait, await
<1>3. CASE wait_for(r) \/ wait_until(r) \/ status(r)
  BY Zenon, <1>3 DEF wait_for, wait_until, status, Returns
<1> QED
  BY Zenon, <1>1, <1>2, <1>3 DEF ClientCall

\* Before the first call no coroutine has a frame.
LEMMA FramesInit == CoInit => FramesInv
  BY DEF CoInit, Init, FramesInv, FrameProtocol, HasResult, Kinds, FrameLabels, Before, Published

\* A step that touches one result, and at most its frame, keeps FramesInv when it
\* keeps FrameProtocol of that result.
LEMMA FramesFrame ==
    ASSUME FramesInv, NEW r \in Results, Untouched(r), kind' = kind,
           calling' \subseteq calling \cup {r}, calling \subseteq calling' \cup {r},
           \E label \in FrameLabels : frame' = [frame EXCEPT ![r] = label],
           \E set \in BOOLEAN : done_handle' = [done_handle EXCEPT ![r] = set],
           FrameProtocol(r)'
    PROVE  FramesInv'
<1>1. ASSUME NEW q \in Results, q # r PROVE FrameProtocol(q)'
  BY <1>1 DEF FramesInv, FrameProtocol, HasResult, Published, Untouched
<1> QED
  BY Zenon, <1>1 DEF FramesInv, HasResult

\* A body that goes on, or its callee, moves the frame from one place before its
\* end to another.
LEMMA BodyKeepsFrames ==
    ASSUME FramesInv, NEW c \in Results,
           \/ suspend(c) \/ resume(c) \/ start(c) \/ make_callee(c) \/ drop_callee(c)
           \/ generator_next(c) \/ lazy_suspend(c) \/ lazy_resume(c) \/ lazy_await_resume(c)
           \/ \E awaitable \in {"awaitable", "resolver"} : lazy_await(c, awaitable)
           \/ \E outcome \in {"value", "exception"} : lazy_ends(c, outcome)
    PROVE  FramesInv'
<1>1. /\ UNCHANGED <<vars, kind, done_handle>>
      /\ calling' \in {calling, calling \ {c}}
      /\ \/ frame' = frame
         \/ /\ frame[c] \in Before \ {"none"}
            /\ \E label \in Before \ {"none"} : frame' = [frame EXCEPT ![c] = label]
  <2> USE DEF FrameGoes, body, Before
  <2>1. CASE suspend(c) \/ resume(c) \/ start(c)
    BY Zenon, <2>1 DEF suspend, resume, start
  <2>2. CASE \/ make_callee(c) \/ drop_callee(c) \/ generator_next(c) \/ lazy_suspend(c)
             \/ lazy_resume(c) \/ lazy_await_resume(c)
    BY Zenon, <2>2 DEF make_callee, drop_callee, generator_next, lazy_suspend, lazy_resume,
                lazy_await_resume
  <2>3. CASE \/ \E awaitable \in {"awaitable", "resolver"} : lazy_await(c, awaitable)
             \/ \E outcome \in {"value", "exception"} : lazy_ends(c, outcome)
    BY Zenon, <2>3 DEF lazy_await, lazy_ends
  <2> QED
    BY Zenon, <2>1, <2>2, <2>3
<1> QED
  BY SMTT(30), <1>1 DEF FramesInv, FrameProtocol, HasResult, Published, Before, FrameLabels, vars

\* The steps of the promise types: the call, the end of the body, final_suspend.
LEMMA PromisesKeepFrames ==
    ASSUME Inv, FramesInv, NEW c \in Results, call(c) \/ body_ends(c) \/ final_suspend(c)
    PROVE  FramesInv'
<1> USE DEF FramesInv, FrameProtocol, HasResult, Published, Before, FrameLabels, FrameGoes,
            Inv, TypeOK
<1>1. CASE call(c)
  BY <1>1 DEF call, get_result, ConsumerGoes, shared, vars
<1>2. CASE body_ends(c)
  <2>1. /\ frame[c] \in {"interrupted", "running"}
        /\ frame' = [frame EXCEPT ![c] = "ended"]
        /\ UNCHANGED <<kind, calling, done_handle, consumer, deletions>>
        /\ IF HasResult(c) THEN producer[c] = "running" /\ producer' = [producer EXCEPT ![c] = "built"]
                           ELSE producer' = producer
    BY Zenon, <1>2 DEF body_ends, Leaves, Produce, ProducerGoes, vars
  <2> QED
    BY <2>1
<1>3. CASE final_suspend(c)
  BY Zenon, <1>3 DEF final_suspend, vars
<1> QED
  BY Zenon, <1>1, <1>2, <1>3

\* complete_producer of a coroutine, and what the producer does after it.
LEMMA PublishKeepsFrames ==
    ASSUME Inv, Inv', FramesInv, NEW c \in Results, publish(c) \/ promise_step(c) \/ wake_step(c)
    PROVE  FramesInv'
<1>1. CASE publish(c)
  <2>1. /\ Untouched(c) /\ producer[c] = "built" /\ consumer' = consumer
        /\ producer'[c] \in {"done", "resume", "notify"}
    BY Zenon, <1>1 DEF publish, complete_producer, Untouched, ProducerGoes, delete_self, Inv, TypeOK
  <2>2. frame[c] = "final" /\ done_handle[c] /\ kind[c] # "promise" /\ deletions[c] = 0
    BY Zenon, <1>1, <2>1 DEF publish, FramesInv, FrameProtocol, HasResult, Inv, TypeOK, Protocol, Published
  <2>3. deletions'[c] \in {0, 1}
    BY Zenon DEF Inv, TypeOK
  <2>4. frame' = [frame EXCEPT ![c] = IF deletions'[c] = 0 THEN "final" ELSE "destroyed"]
    BY Zenon, <1>1, <2>2 DEF publish, Deleted
  <2>5. UNCHANGED <<kind, done_handle>> /\ calling' = calling \ {c}
    BY Zenon, <1>1 DEF publish
  <2>6. FrameProtocol(c)'
    BY Zenon, <2>1, <2>2, <2>3, <2>4, <2>5 DEF FramesInv, FrameProtocol, HasResult, Published, Before,
       FrameLabels
  <2> QED
    BY Zenon, <2>1, <2>2, <2>3, <2>4, <2>5, <2>6, FramesFrame DEF FramesInv, FrameLabels
<1>2. CASE promise_step(c)
  BY <1>2 DEF promise_step, TaskEnds, Produce, complete_producer, ProducerGoes, delete_self, body,
     FramesInv, FrameProtocol, HasResult, Published, Inv, TypeOK
<1>3. CASE wake_step(c)
  <2>1. /\ UNCHANGED <<kind, frame, calling, done_handle, deletions>>
        /\ producer[c] \in {"resume", "notify"} /\ producer'[c] \in {"done", "undefined"}
        /\ \A q \in Results \ {c} : producer'[q] = producer[q] /\ consumer'[q] = consumer[q]
        /\ consumer'[c] \in {consumer[c], "resumed", "wait_loop"}
        /\ consumer'[c] # consumer[c] => consumer[c] # "promise" /\ Published(c)
    <3>1. CASE resume_consumer(c)
      BY SMTT(30), <1>3, <3>1 DEF wake_step, resume_consumer, ProducerGoes, body, Inv, TypeOK, Protocol, Published, SeesDone
    <3>2. CASE resume_deleted_consumer(c)
      BY Zenon, <1>3, <3>2 DEF wake_step, resume_deleted_consumer, ProducerGoes, body, shared, Inv, TypeOK
    <3>3. CASE notify_one(c)
      BY SMTT(30), <1>3, <3>3 DEF wake_step, notify_one, ProducerGoes, body, shared, Inv, TypeOK, Protocol, Published, SeesDone
    <3> QED
      BY Zenon, <1>3, <3>1, <3>2, <3>3 DEF wake_step
  <2> QED
    BY Zenon, <2>1 DEF FramesInv, FrameProtocol, HasResult, Published
<1> QED
  BY Zenon, <1>1, <1>2, <1>3

\* The consumer: it deletes a state only after the producer has published, when
\* the frame is suspended for good and m_done_handle is set.
LEMMA ConsumerKeepsFrames ==
    ASSUME Inv, Inv', FramesInv, NEW r \in Results,
           result_call(r) \/ result_step(r) \/ spurious_step(r)
    PROVE  FramesInv'
<1>1. UNCHANGED <<kind, calling, done_handle>>
  BY Zenon DEF result_call, result_step, spurious_step, body
<1>2. Untouched(r)
  BY Zenon, ConsumerTouches, ClientTouches DEF result_call, result_step, spurious_step
<1>3. CASE kind[r] = "promise"
  <2>1. frame' = frame
    BY Zenon, <1>3 DEF result_call, result_step, spurious_step, Deleted, body, FramesInv
  <2> QED
    BY Zenon, <1>1, <1>2, <1>3, <2>1 DEF FramesInv, FrameProtocol, HasResult, Published, Untouched
<1>4. CASE kind[r] # "promise"
  <2>1. /\ HasResult(r) /\ r \notin calling
        /\ consumer[r] # "promise" /\ consumer'[r] # "promise" /\ producer' = producer
    BY Zenon, <1>4, ConsumerTouches, ClientTouches
       DEF result_call, result_step, spurious_step, FramesInv, FrameProtocol
  <2>2. Published(r)' = Published(r)
    BY Zenon, <2>1 DEF Published
  <2>3. deletions[r] \in {0, 1} /\ deletions'[r] \in {0, 1}
    BY Zenon DEF Inv, TypeOK
  <2>4. deletions'[r] # deletions[r] => deletions'[r] = 1 /\ deletions[r] = 0 /\ Published(r)
    <3>1. deletions[r] = 1 => consumer[r] = "gone"
      BY SMTT(30) DEF Inv, Protocol
    <3>2. consumer[r] = "gone" => deletions' = deletions
      BY Zenon, <1>4, <2>1, ClientTouches, GoneStays DEF result_call, result_step, spurious_step
    <3>3. deletions'[r] = 1 => Published(r)'
      <4>1. Protocol(r)'
        BY Zenon DEF Inv
      <4>2. deletions'[r] = IF consumer'[r] = "gone" /\ Published(r)' THEN 1 ELSE 0
        BY Zenon, <4>1 DEF Protocol
      <4> QED
        BY <4>2
    <3> QED
      BY SMTT(30), <2>2, <2>3, <3>1, <3>2, <3>3
  <2>5. Published(r) /\ deletions[r] = 0 => frame[r] = "final" /\ done_handle[r]
    BY <1>4, <2>1 DEF FramesInv, FrameProtocol, HasResult
  <2>6. frame' = [frame EXCEPT ![r] = IF deletions'[r] = deletions[r] THEN @ ELSE "destroyed"]
    <3>1. CASE result_call(r) \/ result_step(r)
      BY Zenon, <1>4, <2>4, <2>5, <3>1 DEF result_call, result_step, Deleted
    <3>2. CASE spurious_step(r)
      BY Zenon, <3>2 DEF spurious_step, wait_spurious, shared, body, FramesInv
    <3> QED
      BY Zenon, <3>1, <3>2
  <2>7. FrameProtocol(r)'
    BY Zenon, <1>1, <1>4, <2>1, <2>2, <2>3, <2>4, <2>5, <2>6
       DEF FramesInv, FrameProtocol, HasResult, Before
  <2>8. \E label \in FrameLabels : frame' = [frame EXCEPT ![r] = label]
    BY Zenon, <2>6 DEF FramesInv, FrameLabels
  <2>9. \E set \in BOOLEAN : done_handle' = [done_handle EXCEPT ![r] = set]
    BY Zenon, <1>1 DEF FramesInv
  <2> QED
    BY Zenon, <1>1, <1>2, <2>7, <2>8, <2>9, FramesFrame
<1> QED
  BY Zenon, <1>3, <1>4

\* Every step keeps FramesInv.
LEMMA FramesNext == Inv /\ Inv' /\ FramesInv /\ [CoNext]_co_vars => FramesInv'
<1>1. ASSUME Inv, Inv', FramesInv, NEW c \in Results,
             Choice(c) \/ Step(c) \/ BodyEnds(c) \/ result_step(c)
      PROVE  FramesInv'
  BY Zenon, <1>1, BodyKeepsFrames, PromisesKeepFrames, PublishKeepsFrames, ConsumerKeepsFrames
     DEF Choice, Step, BodyEnds
<1>2. ASSUME FramesInv, UNCHANGED co_vars PROVE FramesInv'
  BY Zenon, <1>2 DEF co_vars, vars, body, FramesInv, FrameProtocol, HasResult, Published
<1> QED
  BY Zenon, <1>1, <1>2 DEF CoNext

\* So FramesInv holds throughout.
LEMMA FramesHold == CoSpec => []FramesInv
  BY FramesInit, FramesNext, CoKeepsTheProtocol, PTL DEF CoSpec

\* The frame of a result coroutine is destroyed by the delete_self of either end,
\* together with the result_state in it, only when it is suspended for good and
\* m_done_handle is set, and not while its caller is still in the call.
THEOREM CoFramesAreDeletedOnce == CoSpec => []FramesAreDeletedOnce
<1>1. CoSpec => []FramesInv
  BY Zenon, FramesHold
<1>2. Inv /\ FramesInv => FramesAreDeletedOnce
  BY Zenon DEF Inv, TypeOK, Protocol, FramesInv, FrameProtocol, FramesAreDeletedOnce, HasResult, Published
<1> QED
  BY <1>1, <1>2, CoKeepsTheProtocol, PTL

-----------------------------------------------------------------------------
(* Lazy tasks, generators and the objects that hold them.                  *)

\* Who holds the callee of a body and where it is: the strengthening of OneOwner
\* that every step preserves.
CalleeProtocol(c) ==
    /\ callee[c] # NoCallee =>
          /\ callee[c].is # "none" /\ callee[c].at # "none"
          /\ callee[c].holders \in {{"object"}, {"awaitable"}, {"resolver"}}
    /\ made[c] = destroyed[c] + IF callee[c] = NoCallee THEN 0 ELSE 1
    /\ frame[c] \in {"ended", "final", "destroyed"} => callee[c] = NoCallee
    /\ frame[c] = "awaiting" <=> callee[c].is = "lazy" /\ callee[c].at \in {"running", "posted"}
    /\ callee[c].is = "generator" => callee[c].at \in {"initial", "yielded", "final"}
    /\ ~Scheduled(c) => frame[c] \notin {"scheduled", "interrupted"}

CalleesInv ==
    /\ callee \in [Results -> Callees] /\ got \in [Results -> Statuses]
    /\ made \in [Results -> 0 .. MaxCallees] /\ destroyed \in [Results -> Nat]
    /\ hops \in [Results -> 0 .. MaxHops]
    /\ \A c \in Results : CalleeProtocol(c)

\* A step of one body leaves the callees of the others alone.
LEMMA CalleesOfOthers ==
    ASSUME CalleesInv, NEW c \in Results, kind' = kind,
           callee' \in [Results -> Callees], got' \in [Results -> Statuses],
           made' \in [Results -> 0 .. MaxCallees], destroyed' \in [Results -> Nat],
           hops' \in [Results -> 0 .. MaxHops],
           \A q \in Results \ {c} : /\ callee'[q] = callee[q] /\ frame'[q] = frame[q]
                                    /\ made'[q] = made[q] /\ destroyed'[q] = destroyed[q],
           CalleeProtocol(c)'
    PROVE  CalleesInv'
<1>1. ASSUME NEW q \in Results, q # c PROVE CalleeProtocol(q)'
  BY SMTT(30), <1>1 DEF CalleesInv, CalleeProtocol, Scheduled
<1> QED
  BY Zenon, <1>1 DEF CalleesInv

\* What a step may do to a frame without a change of the callee.
FrameMoves(c) ==
    /\ \A q \in Results \ {c} : frame'[q] = frame[q]
    /\ \/ frame'[c] = frame[c]
       \/ /\ frame[c] # "awaiting" /\ frame'[c] # "awaiting"
          /\ frame'[c] \in {"ended", "final", "destroyed"} => frame[c] \in {"ended", "final", "destroyed"}
          /\ frame'[c] \in {"scheduled", "interrupted"} => Scheduled(c)

\* A coroutine that moves on by itself leaves its callee alone.
LEMMA FrameMovesKeepCallees ==
    ASSUME CalleesInv, NEW c \in Results, FrameMoves(c), kind' = kind, UNCHANGED callees,
           hops' \in [Results -> 0 .. MaxHops]
    PROVE  CalleesInv'
<1>1. callee' = callee /\ got' = got /\ made' = made /\ destroyed' = destroyed
  BY Zenon DEF callees
<1>2. CalleeProtocol(c)
  BY Zenon DEF CalleesInv
<1>3. CalleeProtocol(c)'
  BY Zenon, <1>1, <1>2 DEF CalleeProtocol, FrameMoves, Scheduled
<1> QED
  BY Zenon, <1>1, <1>3, CalleesOfOthers DEF CalleesInv, FrameMoves

\* The steps of the promise types and of the two ends of the result.
LEMMA ResultsKeepCallees ==
    ASSUME FramesInv, FramesInv', CalleesInv, NEW c \in Results,
           \/ call(c) \/ start(c) \/ final_suspend(c) \/ publish(c) \/ suspend(c) \/ resume(c)
           \/ result_call(c) \/ result_step(c) \/ promise_step(c) \/ wake_step(c) \/ spurious_step(c)
    PROVE  CalleesInv'
<1>0. frame \in [Results -> FrameLabels] /\ hops \in [Results -> 0 .. MaxHops] /\ MaxHops \in Nat
  BY Zenon, BoundsAreNat DEF FramesInv, CalleesInv
<1>1. CASE call(c) \/ final_suspend(c) \/ resume(c)
  <2>1. FrameMoves(c)
    BY Zenon, <1>0, <1>1 DEF call, final_suspend, resume, FrameGoes, FrameMoves
  <2> QED
    BY Zenon, <1>0, <1>1, <2>1, FrameMovesKeepCallees DEF call, final_suspend, resume
<1>2. CASE start(c)
  <2>1. Scheduled(c)
    BY Zenon, <1>2 DEF start, FrameGoes, CalleesInv, CalleeProtocol
  <2>2. FrameMoves(c)
    BY Zenon, <1>0, <1>2, <2>1 DEF start, FrameGoes, FrameMoves
  <2> QED
    BY Zenon, <1>0, <1>2, <2>2, FrameMovesKeepCallees DEF start
<1>3. CASE suspend(c)
  <2>1. FrameMoves(c)
    BY Zenon, <1>0, <1>3 DEF suspend, FrameGoes, FrameMoves
  <2>2. hops' \in [Results -> 0 .. MaxHops]
    BY <1>0, <1>3 DEF suspend
  <2> QED
    BY Zenon, <1>3, <2>1, <2>2, FrameMovesKeepCallees DEF suspend
<1>4. CASE publish(c) \/ result_call(c) \/ result_step(c)
  <2>1. Deleted(c) /\ kind' = kind /\ UNCHANGED callees /\ hops' = hops
    BY Zenon, <1>4 DEF publish, result_call, result_step
  <2>2. frame'[c] # "corrupt"
    BY Zenon DEF FramesInv, FrameProtocol
  <2>3. FrameMoves(c)
    BY Zenon, <1>0, <2>1, <2>2 DEF Deleted, FrameMoves
  <2> QED
    BY Zenon, <1>0, <2>1, <2>3, FrameMovesKeepCallees
<1>5. CASE promise_step(c) \/ wake_step(c) \/ spurious_step(c)
  BY Zenon, <1>0, <1>5, FrameMovesKeepCallees DEF promise_step, wake_step, spurious_step, body, FrameMoves
<1> QED
  BY Zenon, <1>1, <1>2, <1>3, <1>4, <1>5

\* An object that goes destroys the frame that it holds, and it is one.
LEMMA OneHolder ==
    ASSUME CalleesInv, NEW c \in Results
    PROVE  Cardinality(callee[c].holders) = IF callee[c] = NoCallee THEN 0 ELSE 1
<1>1. Cardinality({}) = 0
  BY ONLY FS_EmptySet
<1>2. \A x : Cardinality({x}) = 1
  BY ONLY Zenon, FS_Singleton
<1>3. callee[c] = NoCallee => callee[c].holders = {}
  BY DEF NoCallee
<1>4. callee[c] # NoCallee => \E x : callee[c].holders = {x}
  BY Zenon DEF CalleesInv, CalleeProtocol
<1> QED
  BY Zenon, <1>1, <1>2, <1>3, <1>4

\* The callees that a coroutine starts with.
LEMMA NoCalleeType == NoCallee \in Callees /\ NewLazy \in Callees /\ NewGenerator \in Callees
  BY Zenon DEF NoCallee, NewLazy, NewGenerator, Callees, Statuses

\* The body ends, makes a callee or drops it.
LEMMA BodiesKeepCallees ==
    ASSUME FramesInv, CalleesInv, NEW c \in Results, body_ends(c) \/ make_callee(c) \/ drop_callee(c)
    PROVE  CalleesInv'
<1>0. /\ frame \in [Results -> FrameLabels] /\ hops \in [Results -> 0 .. MaxHops]
      /\ callee \in [Results -> Callees] /\ got \in [Results -> Statuses]
      /\ made \in [Results -> 0 .. MaxCallees] /\ destroyed \in [Results -> Nat] /\ MaxCallees \in Nat
  BY Zenon, BoundsAreNat DEF FramesInv, CalleesInv
<1>1. CalleeProtocol(c) /\ made[c] \in Nat /\ destroyed[c] \in Nat
  BY <1>0 DEF CalleesInv
<1>2. ASSUME LocalsDestroyed(c)
      PROVE  /\ callee' = [callee EXCEPT ![c] = NoCallee] /\ got' = got /\ made' = made
             /\ destroyed' = [destroyed EXCEPT ![c] = made[c]]
             /\ callee' \in [Results -> Callees] /\ destroyed' \in [Results -> Nat]
  <2>1. destroyed[c] + Cardinality(callee[c].holders) = made[c]
    BY Zenon, <1>1, OneHolder DEF CalleeProtocol
  <2>2. destroyed' = [destroyed EXCEPT ![c] = made[c]]
    BY Zenon, <1>2, <2>1 DEF LocalsDestroyed
  <2> QED
    BY Zenon, <1>0, <1>1, <1>2, <2>2, NoCalleeType DEF LocalsDestroyed
<1>3. CASE body_ends(c)
  <2>1. /\ LocalsDestroyed(c) /\ kind' = kind /\ hops' = hops
        /\ frame' = [frame EXCEPT ![c] = "ended"]
    BY Zenon, <1>3 DEF body_ends, FrameGoes
  <2>2. callee'[c] = NoCallee /\ made'[c] = destroyed'[c] /\ frame'[c] = "ended"
    BY Zenon, <1>0, <1>2, <2>1
  <2>3. CalleeProtocol(c)'
    BY SMTT(30), <1>0, <1>1, <1>2, <2>1, <2>2 DEF CalleeProtocol, NoCallee
  <2> QED
    BY Zenon, <1>0, <1>2, <2>1, <2>3, CalleesOfOthers
<1>4. CASE drop_callee(c)
  <2>1. /\ LocalsDestroyed(c) /\ kind' = kind /\ hops' = hops /\ frame' = frame /\ frame[c] = "running"
    BY Zenon, <1>4 DEF drop_callee, body, InBody
  <2>2. callee'[c] = NoCallee /\ made'[c] = destroyed'[c]
    BY Zenon, <1>0, <1>2, <2>1
  <2>3. CalleeProtocol(c)'
    BY SMTT(30), <1>0, <1>1, <1>2, <2>1, <2>2 DEF CalleeProtocol, NoCallee
  <2> QED
    BY Zenon, <1>0, <1>2, <2>1, <2>3, CalleesOfOthers
<1>5. CASE make_callee(c)
  <2>1. /\ kind' = kind /\ hops' = hops /\ frame' = frame /\ frame[c] = "running" /\ got' = got
        /\ destroyed' = destroyed /\ made' = [made EXCEPT ![c] = made[c] + 1]
        /\ callee[c] = NoCallee /\ made[c] < MaxCallees
    BY Zenon, <1>5 DEF make_callee, body, InBody
  <2>2. PICK new \in {NewLazy, NewGenerator} : callee' = [callee EXCEPT ![c] = new]
    BY Zenon, <1>5 DEF make_callee
  <2>3. /\ new.is \in {"lazy", "generator"} /\ new.at = "initial" /\ new.holders = {"object"}
        /\ new # NoCallee /\ new \in Callees
    BY NoCalleeType DEF NewLazy, NewGenerator, NoCallee
  <2>4. callee'[c] = new /\ callee' \in [Results -> Callees] /\ made'[c] = made[c] + 1
        /\ made' \in [Results -> 0 .. MaxCallees]
    BY <1>0, <1>1, <2>1, <2>2, <2>3
  <2>5. CalleeProtocol(c)'
    BY SMTT(30), <1>0, <1>1, <2>1, <2>3, <2>4 DEF CalleeProtocol, Scheduled
  <2> QED
    BY Zenon, <1>0, <2>1, <2>2, <2>4, <2>5, CalleesOfOthers
<1> QED
  BY Zenon, <1>3, <1>4, <1>5

\* A callee that goes on, with its holder or to another one.
LEMMA CalleeGoesOn ==
    ASSUME FramesInv, CalleesInv, NEW c \in Results, NEW new \in Callees, NEW label \in FrameLabels,
           callee' = [callee EXCEPT ![c] = new], frame' = [frame EXCEPT ![c] = label],
           kind' = kind, got' = got, made' = made, destroyed' = destroyed,
           hops' \in [Results -> 0 .. MaxHops],
           callee[c] # NoCallee, new.is = callee[c].is, new.at # "none",
           new.holders \in {{"object"}, {"awaitable"}, {"resolver"}},
           label = frame[c] \/ label \in {"running", "awaiting"},
           label = "awaiting" <=> new.is = "lazy" /\ new.at \in {"running", "posted"},
           new.is = "generator" => new.at \in {"initial", "yielded", "final"}
    PROVE  CalleesInv'
<1>0. /\ frame \in [Results -> FrameLabels] /\ callee \in [Results -> Callees]
      /\ got \in [Results -> Statuses]
      /\ made \in [Results -> 0 .. MaxCallees] /\ destroyed \in [Results -> Nat] /\ CalleeProtocol(c)
  BY Zenon DEF FramesInv, CalleesInv
<1>1. callee'[c] = new /\ frame'[c] = label /\ callee' \in [Results -> Callees]
      /\ \A q \in Results \ {c} : callee'[q] = callee[q] /\ frame'[q] = frame[q]
  BY Zenon, <1>0
<1>2. new # NoCallee
  BY SMTT(30) DEF NoCallee
<1>3. CalleeProtocol(c)'
  BY Zenon, <1>0, <1>1, <1>2 DEF CalleeProtocol, Scheduled
<1> QED
  BY Zenon, <1>0, <1>1, <1>3, CalleesOfOthers

\* co_await of a lazy result or its resolve, and the lazy task itself.
LEMMA LazyKeepsCallees ==
    ASSUME FramesInv, CalleesInv, NEW c \in Results,
           \/ \E awaitable \in {"awaitable", "resolver"} : lazy_await(c, awaitable)
           \/ \E outcome \in {"value", "exception"} : lazy_ends(c, outcome)
           \/ lazy_suspend(c) \/ lazy_resume(c) \/ generator_next(c)
    PROVE  CalleesInv'
<1>0. /\ frame \in [Results -> FrameLabels] /\ hops \in [Results -> 0 .. MaxHops] /\ MaxHops \in Nat
      /\ callee \in [Results -> Callees] /\ callee[c] \in Callees /\ frame[c] \in FrameLabels
      /\ frame = [frame EXCEPT ![c] = frame[c]] /\ CalleeProtocol(c)
      /\ "awaiting" \in FrameLabels /\ "running" \in FrameLabels
  <2>1. /\ frame \in [Results -> FrameLabels] /\ hops \in [Results -> 0 .. MaxHops] /\ MaxHops \in Nat
        /\ callee \in [Results -> Callees] /\ CalleeProtocol(c)
    BY Zenon, BoundsAreNat DEF FramesInv, CalleesInv
  <2>2. "awaiting" \in FrameLabels /\ "running" \in FrameLabels
    BY Zenon DEF FrameLabels
  <2> HIDE DEF FrameLabels
  <2> QED
    BY Zenon, <2>1, <2>2
<1>1. callee[c].is # "none" => callee[c] # NoCallee
  BY DEF NoCallee
<1>2. callee[c].status \in Statuses /\ {"value", "exception"} \subseteq Statuses
      /\ callee[c].holders \in SUBSET {"object", "awaitable", "resolver"}
  BY Zenon, <1>0 DEF Callees, Statuses
<1>3. callee[c] # NoCallee => callee[c].holders \in {{"object"}, {"awaitable"}, {"resolver"}}
  BY Zenon, <1>0 DEF CalleeProtocol
<1>4. frame[c] = "awaiting" <=> callee[c].is = "lazy" /\ callee[c].at \in {"running", "posted"}
  BY Zenon, <1>0 DEF CalleeProtocol
<1>5. ASSUME NEW awaitable \in {"awaitable", "resolver"}, lazy_await(c, awaitable) PROVE CalleesInv'
  <2>1. /\ kind' = kind /\ got' = got /\ made' = made /\ destroyed' = destroyed /\ hops' = hops
        /\ frame[c] = "running" /\ callee[c].is = "lazy" /\ callee[c] # NoCallee
    BY Zenon, <1>1, <1>5 DEF lazy_await, InBody
  <2>2. CASE callee[c].at = "final"
    <3> DEFINE new == [callee[c] EXCEPT !.holders = {awaitable}]
    <3>1. new \in Callees /\ new.is = "lazy" /\ new.at = "final" /\ new.holders = {awaitable}
      BY Zenon, <1>0, <1>2, <2>1, <2>2 DEF Callees
    <3>2. frame' = frame /\ callee' = [callee EXCEPT ![c] = new]
      BY Zenon, <1>5, <2>2 DEF lazy_await, Holding
    <3> HIDE DEF new
    <3> QED
      BY Zenon, <1>0, <2>1, <3>1, <3>2, CalleeGoesOn
  <2>3. CASE callee[c].at # "final"
    <3> DEFINE new == [[callee[c] EXCEPT !.holders = {awaitable}] EXCEPT !.at = "running"]
    <3>1. new \in Callees /\ new.is = "lazy" /\ new.at = "running" /\ new.holders = {awaitable}
      BY Zenon, <1>0, <1>2, <2>1 DEF Callees
    <3>2. frame' = [frame EXCEPT ![c] = "awaiting"] /\ callee' = [callee EXCEPT ![c] = new]
      BY Zenon, <1>5, <2>3 DEF lazy_await, Holding, FrameGoes
    <3> HIDE DEF new
    <3> QED
      BY Zenon, <1>0, <2>1, <3>1, <3>2, CalleeGoesOn
  <2> QED
    BY Zenon, <2>2, <2>3
<1>6. ASSUME NEW outcome \in {"value", "exception"}, lazy_ends(c, outcome) PROVE CalleesInv'
  <2> DEFINE new == [callee[c] EXCEPT !.at = "final", !.status = outcome]
  <2>1. /\ kind' = kind /\ got' = got /\ made' = made /\ destroyed' = destroyed /\ hops' = hops
        /\ callee[c].is = "lazy" /\ callee[c] # NoCallee /\ frame' = [frame EXCEPT ![c] = "running"]
    BY Zenon, <1>1, <1>6 DEF lazy_ends, FrameGoes
  <2>2. new \in Callees /\ new.is = "lazy" /\ new.at = "final" /\ new.holders = callee[c].holders
    BY Zenon, <1>0, <1>2, <2>1 DEF Callees
  <2>3. callee' = [callee EXCEPT ![c] = new]
    BY Zenon, <1>0, <1>6 DEF lazy_ends, Callees
  <2> HIDE DEF new
  <2> QED
    BY Zenon, <1>0, <1>3, <2>1, <2>2, <2>3, CalleeGoesOn
<1>7. CASE lazy_suspend(c)
  <2> DEFINE new == [callee[c] EXCEPT !.at = "posted"]
  <2>1. /\ kind' = kind /\ got' = got /\ made' = made /\ destroyed' = destroyed
        /\ callee[c].is = "lazy" /\ callee[c].at = "running" /\ callee[c] # NoCallee /\ frame' = frame
    BY Zenon, <1>1, <1>7 DEF lazy_suspend
  <2>2. new \in Callees /\ new.is = "lazy" /\ new.at = "posted" /\ new.holders = callee[c].holders
    BY Zenon, <1>0, <1>2, <2>1 DEF Callees
  <2>3. callee' = [callee EXCEPT ![c] = new] /\ hops' \in [Results -> 0 .. MaxHops]
    BY <1>0, <1>7 DEF lazy_suspend, Callees
  <2> HIDE DEF new
  <2> QED
    BY Zenon, <1>0, <1>3, <1>4, <2>1, <2>2, <2>3, CalleeGoesOn
<1>8. CASE lazy_resume(c)
  <2> DEFINE new == [callee[c] EXCEPT !.at = "running"]
  <2>1. /\ kind' = kind /\ got' = got /\ made' = made /\ destroyed' = destroyed /\ hops' = hops
        /\ callee[c].is = "lazy" /\ callee[c].at = "posted" /\ callee[c] # NoCallee /\ frame' = frame
    BY Zenon, <1>1, <1>8 DEF lazy_resume, body
  <2>2. new \in Callees /\ new.is = "lazy" /\ new.at = "running" /\ new.holders = callee[c].holders
    BY Zenon, <1>0, <1>2, <2>1 DEF Callees
  <2>3. callee' = [callee EXCEPT ![c] = new]
    BY Zenon, <1>0, <1>8 DEF lazy_resume, Callees
  <2> HIDE DEF new
  <2> QED
    BY Zenon, <1>0, <1>3, <1>4, <2>1, <2>2, <2>3, CalleeGoesOn
<1>9. CASE generator_next(c)
  <2>1. /\ kind' = kind /\ got' = got /\ made' = made /\ destroyed' = destroyed /\ hops' = hops
        /\ callee[c].is = "generator" /\ callee[c] # NoCallee /\ frame' = frame /\ frame[c] = "running"
    BY Zenon, <1>1, <1>9 DEF generator_next, body, InBody
  <2>2. CASE callee' = [callee EXCEPT ![c].at = "yielded"]
    <3> DEFINE new == [callee[c] EXCEPT !.at = "yielded"]
    <3>1. callee' = [callee EXCEPT ![c] = new]
      BY Zenon, <1>0, <2>2 DEF Callees
    <3>2. new \in Callees /\ new.is = "generator" /\ new.at = "yielded" /\ new.holders = callee[c].holders
      BY Zenon, <1>0, <1>2, <2>1 DEF Callees
    <3> HIDE DEF new
    <3> QED
      BY Zenon, <1>0, <1>3, <2>1, <3>1, <3>2, CalleeGoesOn
  <2>3. ASSUME NEW outcome \in {"value", "exception"},
               callee' = [callee EXCEPT ![c].at = "final", ![c].status = outcome]
        PROVE  CalleesInv'
    <3> DEFINE new == [callee[c] EXCEPT !.at = "final", !.status = outcome]
    <3>1. callee' = [callee EXCEPT ![c] = new]
      BY Zenon, <1>0, <2>3 DEF Callees
    <3>2. new \in Callees /\ new.is = "generator" /\ new.at = "final" /\ new.holders = callee[c].holders
      BY Zenon, <1>0, <1>2, <2>1 DEF Callees
    <3> HIDE DEF new
    <3> QED
      BY Zenon, <1>0, <1>3, <2>1, <3>1, <3>2, CalleeGoesOn
  <2> QED
    BY Zenon, <1>9, <2>2, <2>3 DEF generator_next
<1> QED
  BY Zenon, <1>5, <1>6, <1>7, <1>8, <1>9

\* lazy_awaitable destroys the lazy task, lazy_resolve_awaitable gives it back.
LEMMA AwaitResumeKeepsCallees ==
    ASSUME FramesInv, CalleesInv, NEW c \in Results, lazy_await_resume(c)
    PROVE  CalleesInv'
<1>0. /\ frame \in [Results -> FrameLabels] /\ hops \in [Results -> 0 .. MaxHops]
      /\ callee \in [Results -> Callees] /\ callee[c] \in Callees /\ got \in [Results -> Statuses]
      /\ made \in [Results -> 0 .. MaxCallees] /\ destroyed \in [Results -> Nat] /\ MaxCallees \in Nat
      /\ frame = [frame EXCEPT ![c] = frame[c]] /\ CalleeProtocol(c) /\ frame[c] \in FrameLabels
      /\ made[c] \in Nat /\ destroyed[c] \in Nat
  BY BoundsAreNat DEF FramesInv, CalleesInv
<1>1. /\ kind' = kind /\ made' = made /\ hops' = hops /\ frame' = frame /\ frame[c] = "running"
      /\ callee[c].at = "final" /\ callee[c] # NoCallee
  BY DEF lazy_await_resume, body, NoCallee
<1>2. CASE "resolver" \in callee[c].holders
  <2> DEFINE new == [callee[c] EXCEPT !.holders = {"object"}]
  <2>1. callee[c].holders = {"resolver"} /\ callee[c].status \in Statuses
    BY Zenon, <1>0, <1>1, <1>2 DEF CalleeProtocol, Callees
  <2>2. callee' = [callee EXCEPT ![c].holders = {"object"}] /\ got' = got /\ destroyed' = destroyed
    BY Zenon, <2>1 DEF lazy_await_resume
  <2>3. callee' = [callee EXCEPT ![c] = new]
    BY Zenon, <1>0, <2>2 DEF Callees
  <2>4. new \in Callees /\ new.is = callee[c].is /\ new.at = "final" /\ new.holders = {"object"}
    BY Zenon, <1>0, <1>1, <2>1 DEF Callees
  <2> HIDE DEF new
  <2> QED
    BY Zenon, <1>0, <1>1, <2>2, <2>3, <2>4, CalleeGoesOn
<1>3. CASE "awaitable" \in callee[c].holders
  <2>1. callee[c].holders = {"awaitable"}
    BY Zenon, <1>0, <1>1, <1>3 DEF CalleeProtocol
  <2>2. /\ callee' = [callee EXCEPT ![c] = NoCallee]
        /\ got' = [got EXCEPT ![c] = callee[c].status]
        /\ destroyed' = [destroyed EXCEPT ![c] = destroyed[c] + 1]
    BY Zenon, <2>1 DEF lazy_await_resume
  <2>3. /\ callee' \in [Results -> Callees] /\ callee'[c] = NoCallee
        /\ destroyed' \in [Results -> Nat] /\ destroyed'[c] = made'[c]
    BY Zenon, <1>0, <1>1, <2>2, NoCalleeType DEF CalleeProtocol
  <2>4. got' \in [Results -> Statuses]
    BY Zenon, <1>0, <2>2 DEF Callees
  <2>5. CalleeProtocol(c)'
    BY SMTT(30), <1>0, <1>1, <2>3 DEF CalleeProtocol, NoCallee, Scheduled
  <2> QED
    BY Zenon, <1>0, <1>1, <2>2, <2>3, <2>4, <2>5, CalleesOfOthers
<1> QED
  BY Zenon, <1>2, <1>3 DEF lazy_await_resume

\* Callees have one owner at first ...
LEMMA CalleesInit == CoInit => CalleesInv
<1> SUFFICES ASSUME CoInit PROVE CalleesInv
  BY Zenon
<1>1. \A k \in Handed : /\ k \in Callees /\ k.is = "lazy" /\ k.holders = {"object"}
                         /\ k.at \in {"initial", "final"} /\ k # NoCallee
  <2>1. NewLazy \in Callees /\ NewLazy.is = "lazy" /\ NewLazy.holders = {"object"}
        /\ NewLazy.at = "initial"
    BY Zenon, NoCalleeType DEF NewLazy
  <2>2. \A s \in {"value", "exception"} :
            LET n == [NewLazy EXCEPT !.at = "final", !.status = s] IN
               n \in Callees /\ n.is = "lazy" /\ n.at = "final" /\ n.holders = {"object"}
    BY Zenon, <2>1 DEF Callees, Statuses
  <2>3. NoCallee.is = "none"
    BY Zenon DEF NoCallee
  <2> QED
    BY Zenon, <2>1, <2>2, <2>3 DEF Handed
<1>2. \A c \in Results : /\ callee[c] = NoCallee <=> kind[c] # "run"
                         /\ callee[c] # NoCallee => /\ callee[c].is = "lazy" /\ callee[c].holders = {"object"}
                                                    /\ callee[c].at \in {"initial", "final"}
  BY Zenon, <1>1 DEF CoInit
<1>3. ASSUME NEW c \in Results PROVE CalleeProtocol(c)
  <2>1. callee[c] = NoCallee => callee[c].is = "none"
    BY DEF NoCallee
  <2>2. made[c] = destroyed[c] + IF callee[c] = NoCallee THEN 0 ELSE 1
    BY <1>2 DEF CoInit
  <2> QED
    BY Zenon, <1>2, <2>1, <2>2 DEF CoInit, CalleeProtocol
<1> QED
  BY <1>1, <1>3, NoCalleeType, BoundsAreNat DEF CalleesInv, CoInit, Statuses

\* ... and after every step of a coroutine.
LEMMA CalleesNext == FramesInv /\ FramesInv' /\ CalleesInv /\ [CoNext]_co_vars => CalleesInv'
<1>1. ASSUME FramesInv, FramesInv', CalleesInv, NEW c \in Results,
             Choice(c) \/ Step(c) \/ BodyEnds(c) \/ result_step(c)
      PROVE  CalleesInv'
  BY Zenon, <1>1, ResultsKeepCallees, BodiesKeepCallees, LazyKeepsCallees, AwaitResumeKeepsCallees
     DEF Choice, Step, BodyEnds
<1>2. ASSUME CalleesInv, UNCHANGED co_vars PROVE CalleesInv'
  BY Zenon, <1>2 DEF co_vars, body, callees, CalleesInv, CalleeProtocol, Scheduled
<1> QED
  BY Zenon, <1>1, <1>2 DEF CoNext

\* What the producer of a run coroutine has published, or will, stays as it is.
LEMMA OutcomeOfRun ==
    ASSUME Inv, FramesInv, CalleesInv, NEW r \in Results, kind[r] = "run", producer[r] # "running",
           NEW c \in Results, Choice(c) \/ Step(c) \/ BodyEnds(c) \/ result_step(c)
    PROVE  producer_status'[r] = producer_status[r] /\ got'[r] = got[r]
<1>0. /\ frame[r] \notin Before /\ consumer[r] # "promise" /\ kind[r] # "promise"
      /\ producer_status \in [Results -> Statuses]
  BY Zenon DEF FramesInv, FrameProtocol, HasResult, Inv, TypeOK, Before
<1>1. got'[r] = got[r]
  <2>1. CASE lazy_await_resume(c)
    <3>1. c # r
      BY Zenon, <1>0, <2>1 DEF lazy_await_resume, Before
    <3> QED
      BY Zenon, <2>1, <3>1 DEF lazy_await_resume, CalleesInv
  <2>2. CASE ~lazy_await_resume(c)
    BY Zenon, <2>2
    DEF Choice, Step, BodyEnds, result_step, call, result_call, spurious_step, suspend, make_callee,
        drop_callee, generator_next, lazy_suspend, lazy_await, start, resume, lazy_resume,
        final_suspend, publish, promise_step, wake_step, body_ends, lazy_ends, LocalsDestroyed, callees
  <2> QED
    BY Zenon, <2>1, <2>2
<1>2. producer_status'[r] = producer_status[r]
  <2>1. CASE UNCHANGED vars
    BY Zenon, <2>1 DEF vars
  <2>2. CASE call(c) /\ get_result(c)
    BY Zenon, <2>2 DEF get_result, shared
  <2>3. ASSUME NEW outcome \in {"value", "exception"}, Leaves(c, outcome)
        PROVE  producer_status'[r] = producer_status[r]
    BY Zenon, <1>0, <2>3 DEF Leaves, Produce, ProducerGoes, vars
  <2>4. CASE complete_producer(c)
    BY Zenon, <2>4 DEF complete_producer
  <2>5. CASE TaskEnds(c) /\ kind[c] = "promise"
    BY Zenon, <1>0, <2>5 DEF TaskEnds, Produce
  <2>6. CASE resume_consumer(c) \/ resume_deleted_consumer(c) \/ notify_one(c) \/ wait_spurious(c)
    BY Zenon, <2>6 DEF resume_consumer, resume_deleted_consumer, notify_one, wait_spurious, shared
  <2>7. CASE ClientCall(c)
    <3>1. CASE get_result(c) \/ destroy_promise(c) \/ make_ready_result(c) \/ drop(c)
      BY Zenon, <1>0, <3>1 DEF get_result, destroy_promise, make_ready_result, drop, shared, ConsumerGoes
    <3>2. CASE \E join \in BOOLEAN : wait(c, join) \/ await(c, join)
      BY Zenon, <3>2 DEF wait, await, shared
    <3>3. CASE wait_for(c) \/ wait_until(c) \/ status(c)
      BY Zenon, <3>3 DEF wait_for, wait_until, status, shared
    <3> QED
      BY Zenon, <2>7, <3>1, <3>2, <3>3 DEF ClientCall
  <2>8. CASE ConsumerStep(c)
    BY Zenon, <2>8 DEF ConsumerStep, wait_load, wait_cas, wait_loop, joined_get, await_load,
       set_await_handle, await_cas, await_resume, wait_for_load, set_wait_for_context, wait_for_cas,
       wait_for_acquired, wait_for_timed_out, wait_for_rewind, wait_for_clear,
       complete_consumer_load, complete_consumer_exchange, shared
  <2>9. CASE body_ends(c)
    BY Zenon, <2>3, <2>9 DEF body_ends
  <2>10. CASE \/ call(c) \/ result_call(c) \/ spurious_step(c) \/ result_step(c)
              \/ publish(c) \/ promise_step(c) \/ wake_step(c)
    BY Zenon, <2>1, <2>2, <2>4, <2>5, <2>6, <2>7, <2>8, <2>10
    DEF call, result_call, spurious_step, result_step, publish, promise_step, wake_step
  <2>11. CASE \/ suspend(c) \/ make_callee(c) \/ drop_callee(c) \/ generator_next(c) \/ lazy_suspend(c)
              \/ start(c) \/ resume(c) \/ lazy_resume(c) \/ final_suspend(c) \/ lazy_await_resume(c)
              \/ \E awaitable \in {"awaitable", "resolver"} : lazy_await(c, awaitable)
              \/ \E outcome \in {"value", "exception"} : lazy_ends(c, outcome)
    BY Zenon, <2>1, <2>11 DEF suspend, make_callee, drop_callee, generator_next, lazy_suspend, start, resume,
       lazy_resume, final_suspend, lazy_await_resume, lazy_await, lazy_ends
  <2> QED
    BY Zenon, <2>9, <2>10, <2>11 DEF Choice, Step, BodyEnds
<1> QED
  BY Zenon, <1>1, <1>2

\* A run coroutine gets an outcome where its body ends, and nowhere else.
LEMMA RunEnds ==
    ASSUME Inv, FramesInv, NEW r \in Results, kind[r] = "run", producer[r] = "running",
           producer'[r] # "running", NEW c \in Results, Choice(c) \/ Step(c) \/ BodyEnds(c) \/ result_step(c)
    PROVE  c = r /\ body_ends(r)
<1>0. /\ kind[r] # "promise" /\ HasResult(r) /\ producer \in [Results -> ProducerLabels]
      /\ frame[r] # "none" => consumer[r] # "promise"
  BY Zenon DEF FramesInv, FrameProtocol, HasResult, Inv, TypeOK
<1>1. CASE UNCHANGED vars
  BY Zenon, <1>1 DEF vars
<1>2. CASE result_call(c)
  <2>1. c # r => producer'[r] = producer[r]
    BY Zenon, <1>2, ClientTouches DEF result_call, Untouched
  <2>2. c = r => producer' = producer
    BY Zenon, <1>0, <1>2, ClientTouches DEF result_call
  <2> QED
    BY Zenon, <2>1, <2>2
<1>3. CASE result_step(c) \/ spurious_step(c)
  BY Zenon, <1>3, ConsumerTouches DEF result_step, spurious_step
<1>4. CASE call(c)
  BY Zenon, <1>1, <1>4 DEF call, get_result
<1>5. CASE publish(c) \/ promise_step(c) \/ wake_step(c)
  <2>1. CASE complete_producer(c)
    BY Zenon, <1>0, <2>1 DEF complete_producer, ProducerGoes
  <2>2. CASE TaskEnds(c) /\ kind[c] = "promise"
    BY Zenon, <1>0, <2>2 DEF TaskEnds, Produce, ProducerGoes
  <2>3. CASE resume_consumer(c) \/ resume_deleted_consumer(c) \/ notify_one(c)
    BY Zenon, <1>0, <2>3 DEF resume_consumer, resume_deleted_consumer, notify_one, ProducerGoes
  <2> QED
    BY Zenon, <1>5, <2>1, <2>2, <2>3 DEF publish, promise_step, wake_step
<1>6. CASE body_ends(c)
  <2>1. c # r => producer'[r] = producer[r]
    BY Zenon, <1>0, <1>6 DEF body_ends, Leaves, Produce, ProducerGoes, vars
  <2> QED
    BY Zenon, <1>6, <2>1
<1>7. CASE \/ suspend(c) \/ make_callee(c) \/ drop_callee(c) \/ generator_next(c) \/ lazy_suspend(c)
           \/ start(c) \/ resume(c) \/ lazy_resume(c) \/ final_suspend(c) \/ lazy_await_resume(c)
           \/ \E awaitable \in {"awaitable", "resolver"} : lazy_await(c, awaitable)
           \/ \E outcome \in {"value", "exception"} : lazy_ends(c, outcome)
  BY Zenon, <1>1, <1>7 DEF suspend, make_callee, drop_callee, generator_next, lazy_suspend, start, resume,
     lazy_resume, final_suspend, lazy_await_resume, lazy_await, lazy_ends
<1> QED
  BY Zenon, <1>2, <1>3, <1>4, <1>5, <1>6, <1>7 DEF Choice, Step, BodyEnds

\* A lazy result that is run publishes what its callee ended with.
LEMMA RunsNext ==
    Inv /\ FramesInv /\ CalleesInv /\ RunForwards /\ [CoNext]_co_vars => RunForwards'
<1>1. ASSUME Inv, FramesInv, CalleesInv, RunForwards, NEW c \in Results,
             Choice(c) \/ Step(c) \/ BodyEnds(c) \/ result_step(c),
             NEW r \in Results, kind'[r] = "run", producer'[r] # "running"
      PROVE  producer_status'[r] = got'[r] /\ got'[r] # "idle"
  <2>0. kind' = kind
    BY Zenon, <1>1
    DEF Choice, Step, BodyEnds, result_step, call, result_call, spurious_step, suspend, make_callee,
        drop_callee, generator_next, lazy_suspend, lazy_await, start, resume, lazy_resume,
        final_suspend, publish, promise_step, wake_step, body_ends, lazy_ends, lazy_await_resume
  <2>1. CASE producer[r] # "running"
    BY Zenon, <1>1, <2>0, <2>1, OutcomeOfRun DEF RunForwards
  <2>2. CASE producer[r] = "running"
    <3>1. body_ends(r)
      BY Zenon, <1>1, <2>0, <2>2, RunEnds
    <3>2. frame[r] # "interrupted" /\ HasResult(r)
      BY Zenon, <1>1, <2>0 DEF CalleesInv, CalleeProtocol, Scheduled, HasResult
    <3>3. PICK outcome \in {"value", "exception"} : outcome = got[r] /\ Leaves(r, outcome)
      BY Zenon, <1>1, <2>0, <3>1, <3>2 DEF body_ends, FrameGoes
    <3>4. producer_status' = [producer_status EXCEPT ![r] = outcome] /\ got' = got
      BY Zenon, <3>1, <3>2, <3>3 DEF Leaves, Produce, body_ends, LocalsDestroyed
    <3> QED
      BY Zenon, <1>1, <3>3, <3>4 DEF Inv, TypeOK
  <2> QED
    BY Zenon, <2>1, <2>2
<1>2. ASSUME RunForwards, UNCHANGED co_vars PROVE RunForwards'
  BY Zenon, <1>2 DEF co_vars, vars, callees, RunForwards
<1> QED
  BY Zenon, <1>1, <1>2 DEF CoNext, RunForwards

\* What CoInv says follows from what is inductive.
LEMMA CalleesImplyCoInv ==
    ASSUME FramesInv, CalleesInv, RunForwards
    PROVE  CoInv
<1>1. ASSUME NEW c \in Results
      PROVE  /\ callee[c] # NoCallee <=> Cardinality(callee[c].holders) = 1
             /\ made[c] - destroyed[c] = IF callee[c] = NoCallee THEN 0 ELSE 1
             /\ destroyed[c] \in 0 .. MaxCallees
  <2>1. /\ made[c] \in 0 .. MaxCallees /\ destroyed[c] \in Nat /\ MaxCallees \in Nat
        /\ made[c] = destroyed[c] + IF callee[c] = NoCallee THEN 0 ELSE 1
    BY Zenon, BoundsAreNat DEF CalleesInv, CalleeProtocol
  <2>2. callee[c] # NoCallee <=> Cardinality(callee[c].holders) = 1
    BY OneHolder
  <2> QED
    BY <2>1, <2>2
<1>2. OneOwner
  BY Zenon, <1>1 DEF OneOwner, CalleesInv, CalleeProtocol
<1>3. CoTypeOK
  BY Zenon, <1>1 DEF CoTypeOK, FramesInv, CalleesInv
<1> QED
  BY Zenon, <1>2, <1>3 DEF CoInv

\* The lazy tasks and generators of any number of coroutines: each is held by one
\* object and destroyed once, and no later than the body that made it ends; a body
\* and its lazy task never run at the same time; and what lazy_result::run
\* publishes is the outcome of the lazy task.
THEOREM CalleesHaveOneOwner == CoSpec => []CoInv
<1>1. CoSpec => []CalleesInv
  BY CalleesInit, CalleesNext, FramesHold, PTL DEF CoSpec
<1>2. CoInit => RunForwards
  BY Zenon DEF CoInit, Init, RunForwards
<1>3. CoSpec => []RunForwards
  BY <1>1, <1>2, RunsNext, FramesHold, CoKeepsTheProtocol, PTL DEF CoSpec
<1>4. FramesInv /\ CalleesInv /\ RunForwards => CoInv
  BY Zenon, CalleesImplyCoInv
<1> QED
  BY <1>1, <1>3, <1>4, FramesHold, PTL

-----------------------------------------------------------------------------
(* shared_result: SharedInv says what on_result_finished achieves; that it *)
(* achieves it once depends on where the constructor, the producer and the *)
(* destructor are when one of them touches m_pc_state, which SharedProtocol, *)
(* the inductive invariant, says: who is registered (EndsInv), who may still *)
(* call on_result_finished (FinishInv) and how far it has got (ProgressInv). *)

\* Holder h is in the list s.
In(s, h) == \E i \in DOMAIN s : s[i] = h

\* Where the constructor is before the result is shared, or finished by it.
Early == {"result", "share_load", "share_set", "share_cas"}

\* The holders: only the maker is in the constructor, and nobody else has a
\* reference then; once the destructor runs nobody has one.
HoldersInv ==
    /\ \A h \in Holders \ {Maker} :
          /\ holder[h] \notin Early \cup {"finishing"}
          /\ holder[Maker] \in Early \cup {"finishing"} => holder[h] = "none"
    /\ holder[Maker] # "none"
    /\ dtor # "alive" => holder[Maker] = "gone" /\ \A h \in Holders : holder[h] \in {"none", "gone"}

\* Nobody touches the other results.
OthersInv ==
    \A r \in Results \ {Shared} : producer[r] = "running" /\ consumer[r] = "owner" /\ deletions[r] = 0

\* The shared state is not the consumer of the result: not yet, or no more.
Unset ==
    holder[Maker] \in Early \/ dtor = "rewind_clear" \/ consumer[Shared] \in {"drop", "drop_exchange"}

\* The two ends of the result that is shared.
EndsInv ==
    /\ producer[Shared] \in {"running", "built", "resume", "done", "undefined"}
    /\ producer[Shared] = "running" <=> producer_status[Shared] = "idle"
    /\ consumer[Shared] = "owner" <=> holder[Maker] = "result"
    /\ consumer[Shared] = "shared" <=> holder[Maker] # "result" /\ dtor # "reset"
    /\ dtor = "reset" => consumer[Shared] \in {"drop", "drop_exchange", "gone"}
    /\ Published(Shared) =>
          Done(Shared) \/ (pc_state[Shared] = "consumer_done" /\ consumer[Shared] = "gone")
    /\ ~Published(Shared) =>
          \/ pc_state[Shared] = "idle" /\ Unset
          \/ pc_state[Shared] = "consumer_done" /\ consumer[Shared] = "gone"
          \/ pc_state[Shared] = "consumer_set" /\ ~Unset /\ consumer[Shared] # "gone"
    /\ deletions[Shared] = IF consumer[Shared] = "gone" /\ Published(Shared) THEN 1 ELSE 0
    /\ holder[Maker] = "share_cas" \/ pc_state[Shared] = "consumer_set" \/ producer[Shared] = "resume"
          => consumer_status[Shared] = "shared"
    /\ producer[Shared] = "resume" => holder[Maker] \notin Early \cup {"finishing"} /\ dtor # "rewind_clear"
    /\ producer[Shared] = "undefined" => consumer[Shared] = "gone"

\* Who is in on_result_finished, and who may still get there.
FinishInv ==
    /\ fin = "none" <=> finisher = "none"
    /\ finisher = "maker" <=> holder[Maker] = "finishing"
    /\ finisher = "producer" => producer[Shared] = "resume" /\ dtor = "alive"
    /\ finisher = "maker" => producer[Shared] = "done" /\ finishes = 0
    /\ finishes \in {0, 1}
    /\ finishes = 1 => finisher = "none" /\ producer[Shared] = "done" /\ holder[Maker] \notin Early
    /\ producer[Shared] = "done" /\ finisher = "none" /\ holder[Maker] \notin Early /\ dtor = "alive"
          => finishes = 1

\* What on_result_finished has done so far.
ProgressInv ==
    /\ m_status # "idle" <=> finishes = 1 \/ fin \notin {"none", "store"}
    /\ m_status # "idle" => m_status = producer_status[Shared]
    /\ ready <=> finishes = 1 \/ fin = "resume"
    /\ ready => m_awaiters = <<>>
    /\ fin # "resume" => awaiters = <<>>
    /\ \A h \in Holders :
          /\ holder[h] = "ready" => m_status # "idle"
          /\ holder[h] = "suspended" => In(m_awaiters, h) \/ In(awaiters, h)
          /\ holder[h] = "blocked" => m_status = "idle" \/ fin = "notify"

\* The inductive invariant.
SharedProtocol ==
    SharedTypeOK /\ HoldersInv /\ OthersInv /\ EndsInv /\ FinishInv /\ ProgressInv

-----------------------------------------------------------------------------
(* Sequences.                                                              *)

\* What the loop that reverses the list makes of it.
LEMMA ReverseElements ==
    ASSUME NEW S, NEW s \in Seq(S)
    PROVE  /\ Reverse(s) \in Seq(S) /\ Len(Reverse(s)) = Len(s)
           /\ \A i \in 1 .. Len(s) : Reverse(s)[i] = s[Len(s) + 1 - i]
  BY DEF Reverse

\* Reversing the list loses nobody.
LEMMA ReverseKeepsMembers ==
    ASSUME NEW S, NEW s \in Seq(S), NEW h, In(s, h)
    PROVE  In(Reverse(s), h)
  <1>1. PICK i \in 1 .. Len(s) : s[i] = h
    BY DEF In
  <1>2. Len(s) + 1 - i \in 1 .. Len(s) /\ Len(s) + 1 - (Len(s) + 1 - i) = i
    OBVIOUS
  <1>3. Reverse(s)[Len(s) + 1 - i] = h
    BY Zenon, <1>1, <1>2, ReverseElements
  <1>4. DOMAIN Reverse(s) = 1 .. Len(s)
    BY ReverseElements
  <1> QED
    BY Zenon, <1>2, <1>3, <1>4 DEF In

\* A holder that is pushed on the stack comes last in the order of arrival.
LEMMA ReverseOfPushed ==
    ASSUME NEW S, NEW s \in Seq(S), NEW h \in S
    PROVE  Reverse(<<h>> \o s) = Append(Reverse(s), h)
  <1> DEFINE t == <<h>> \o s
  <1>1. t \in Seq(S) /\ Len(t) = Len(s) + 1 /\ t[1] = h /\ \A i \in 1 .. Len(s) : t[i + 1] = s[i]
    OBVIOUS
  <1> HIDE DEF t
  <1>2. Reverse(t) \in Seq(S) /\ Len(Reverse(t)) = Len(s) + 1
    BY Zenon, <1>1, ReverseElements
  <1>3. Append(Reverse(s), h) \in Seq(S) /\ Len(Append(Reverse(s), h)) = Len(s) + 1
    BY ReverseElements
  <1>4. ASSUME NEW i \in 1 .. Len(s) + 1 PROVE Reverse(t)[i] = Append(Reverse(s), h)[i]
    <2>1. Reverse(t)[i] = t[(Len(s) + 1 - i) + 1]
      BY <1>1, ReverseElements
    <2>2. CASE i = Len(s) + 1
      BY <2>1, <2>2, <1>1, ReverseElements
    <2>3. CASE i \in 1 .. Len(s)
      <3>1. (Len(s) + 1 - i) \in 1 .. Len(s) /\ (Len(s) + 1 - i) = Len(s) + 1 - i
        BY <2>3
      <3>2. Reverse(t)[i] = s[Len(s) + 1 - i]
        BY Zenon, <2>1, <3>1, <1>1
      <3>3. Append(Reverse(s), h)[i] = Reverse(s)[i]
        BY <2>3, ReverseElements
      <3> QED
        BY Zenon, <3>2, <3>3, <2>3, ReverseElements
    <2>4. Len(s) \in Nat /\ i \in 1 .. Len(s) + 1
      OBVIOUS
    <2>5. i = Len(s) + 1 \/ i \in 1 .. Len(s)
      BY ONLY <2>4
    <2> QED
      BY Zenon, <2>2, <2>3, <2>5
  <1>5. Reverse(t) = Append(Reverse(s), h)
    BY <1>2, <1>3, <1>4
  <1> QED
    BY Zenon, <1>5 DEF t

\* A push adds the holder and loses nobody.
LEMMA PushedMembers ==
    ASSUME NEW S, NEW s \in Seq(S), NEW h \in S
    PROVE  /\ <<h>> \o s \in Seq(S)
           /\ In(<<h>> \o s, h)
           /\ \A k : In(s, k) => In(<<h>> \o s, k)
  <1> DEFINE t == <<h>> \o s
  <1>1. t \in Seq(S) /\ Len(t) = Len(s) + 1 /\ t[1] = h /\ \A i \in 1 .. Len(s) : t[i + 1] = s[i]
    OBVIOUS
  <1> HIDE DEF t
  <1>2. In(t, h)
    <2>1. 1 \in DOMAIN t
      BY <1>1
    <2> QED
      BY Zenon, <2>1, <1>1 DEF In
  <1>3. ASSUME NEW k, In(s, k) PROVE In(t, k)
    <2>1. PICK i \in 1 .. Len(s) : s[i] = k
      BY <1>3 DEF In
    <2>2. i + 1 \in DOMAIN t /\ t[i + 1] = k
      BY <1>1, <2>1
    <2> QED
      BY Zenon, <2>2 DEF In
  <1> QED
    BY Zenon, <1>1, <1>2, <1>3 DEF t

\* Resuming the head of the list leaves the others in it.
LEMMA TailMembers ==
    ASSUME NEW S, NEW s \in Seq(S), s # <<>>, NEW h, In(s, h), h # Head(s)
    PROVE  In(Tail(s), h)
  <1>1. PICK i \in 1 .. Len(s) : s[i] = h
    BY DEF In
  <1>2. i # 1 /\ i - 1 \in 1 .. Len(Tail(s)) /\ Tail(s)[i - 1] = h
    BY <1>1
  <1>3. i - 1 \in DOMAIN Tail(s)
    BY <1>2
  <1> QED
    BY Zenon, <1>2, <1>3 DEF In

\* The head moves from the list that is resumed to those that were resumed.
LEMMA HeadMovesOver ==
    ASSUME NEW S, NEW r \in Seq(S), NEW a \in Seq(S), NEW b \in Seq(S), a # <<>>
    PROVE  Append(r, Head(a)) \o Tail(a) \o b = r \o a \o b
  <1>1. Append(r, Head(a)) \o Tail(a) = r \o a
    OBVIOUS
  <1> QED
    BY Zenon, <1>1

\* Appending to the last of two sequences.
LEMMA EndGrows ==
    ASSUME NEW S, NEW r \in Seq(S), NEW b \in Seq(S), NEW h \in S
    PROVE  Append(r \o b, h) = r \o Append(b, h)
  OBVIOUS

-----------------------------------------------------------------------------
(* Every step preserves SharedProtocol.                                    *)

\* Where a holder is that has a shared_result, once it is made.
Inside ==
    {"owner", "await", "await_cas", "suspended", "wait", "blocked", "until", "until_acquire", "ready"}

USE DEF Unset, HolderGoes, ConsumerGoes, ProducerGoes, Cas, Done, delete_self, Published, Early,
        FinGoes, shared, state, finish, history

\* A result that is about to be shared satisfies the invariant.
LEMMA ProtocolStarts == SharedInit => SharedProtocol
  <1> SUFFICES ASSUME SharedInit PROVE SharedProtocol
    BY Zenon
  <1>0. Maker \in Holders /\ Shared \in Results
    BY Zenon, TheyExist
  <1>1. TypeOK
    BY Zenon DEF SharedInit, TypeOK, PcStates, Statuses, ConsumerStatuses, ProducerLabels, ConsumerLabels
  <1>2. SharedTypeOK
    <2>1. <<>> \in Seq(Holders)
      OBVIOUS
    <2>2. holder \in [Holders -> HolderLabels]
      BY Zenon DEF SharedInit, HolderLabels
    <2>3. before \in [Holders -> Seq(Holders)]
      BY Zenon, <2>1 DEF SharedInit
    <2> QED
      BY Zenon, <1>1, <2>1, <2>2, <2>3 DEF SharedInit, SharedTypeOK, Statuses
  <1>3. HoldersInv
    BY Zenon, <1>0 DEF SharedInit, HoldersInv
  <1>4. EndsInv /\ OthersInv
    BY Zenon, <1>0 DEF SharedInit, EndsInv, OthersInv
  <1>5. FinishInv
    BY <1>0 DEF SharedInit, FinishInv
  <1>6. ProgressInv
    BY <1>0 DEF SharedInit, ProgressInv
  <1> QED
    BY Zenon, <1>2, <1>3, <1>4, <1>5, <1>6 DEF SharedProtocol

\* Holders come and go without touching the two ends of the result ...
LEMMA EndsFrame ==
    ASSUME EndsInv, UNCHANGED vars,
           holder[Maker] \notin Early \cup {"finishing"}, holder'[Maker] \notin Early \cup {"finishing"},
           dtor \in {"alive", "rewind"}, dtor' \in {"alive", "rewind"}
    PROVE  EndsInv'
  BY Zenon DEF EndsInv, vars

\* ... or on_result_finished.
LEMMA FinishFrame ==
    ASSUME FinishInv, UNCHANGED vars, UNCHANGED finish,
           holder[Maker] \notin Early \cup {"finishing"}, holder'[Maker] \notin Early \cup {"finishing"},
           dtor = "alive", dtor' = "alive" \/ finisher # "producer"
    PROVE  FinishInv'
  BY Zenon DEF FinishInv, vars

\* The task ends: its value is built, and nobody sees it yet.
LEMMA TaskKeeps ==
    ASSUME SharedProtocol, Task
    PROVE  SharedProtocol'
  <1>0. Maker \in Holders /\ Shared \in Results
    BY Zenon, TheyExist
  <1>1. SharedTypeOK /\ TypeOK /\ HoldersInv /\ OthersInv /\ EndsInv /\ FinishInv /\ ProgressInv
    BY Zenon DEF SharedProtocol, SharedTypeOK
  <1>e. /\ producer[Shared] = "running" /\ producer'[Shared] = "built"
        /\ producer_status'[Shared] # "idle"
        /\ UNCHANGED <<pc_state, consumer_status, deletions, consumer,
                       m_status, ready, m_awaiters, holder, before, finisher, fin, awaiters, finishes, dtor>>
    BY Zenon, <1>0, <1>1 DEF SharedTypeOK, TypeOK, Task, TaskEnds, Produce, sharedVars
  <1>2. TypeOK'
    BY <1>0, <1>1 DEF TypeOK, Task, TaskEnds, Produce, PcStates, Statuses, ConsumerStatuses, ProducerLabels,
                 ConsumerLabels, EndsInv
  <1>3. SharedTypeOK'
    BY Zenon, <1>1, <1>2 DEF SharedTypeOK, sharedVars, Task
  <1>4. HoldersInv'
    BY Zenon, <1>0, <1>1, <1>e DEF HoldersInv
  <1>8. OthersInv'
    BY Zenon, <1>1 DEF OthersInv, TypeOK, Task, TaskEnds, Produce
  <1>5. EndsInv'
    BY Zenon, <1>0, <1>1, <1>e DEF HoldersInv, EndsInv, FinishInv
  <1>6. FinishInv'
    BY Zenon, <1>0, <1>1, <1>e DEF HoldersInv, EndsInv, FinishInv
  <1>7. ProgressInv'
    BY Zenon, <1>0, <1>1, <1>e DEF HoldersInv, EndsInv, FinishInv, ProgressInv
  <1> QED
    BY Zenon, <1>3, <1>4, <1>5, <1>6, <1>7, <1>8 DEF SharedProtocol

\* The producer publishes, and sees whether the shared state is registered.
LEMMA CompleteProducerKeeps ==
    ASSUME SharedProtocol, complete_producer(Shared) /\ UNCHANGED sharedVars
    PROVE  SharedProtocol'
  <1>0. Maker \in Holders /\ Shared \in Results
    BY Zenon, TheyExist
  <1>1. SharedTypeOK /\ TypeOK /\ HoldersInv /\ OthersInv /\ EndsInv /\ FinishInv /\ ProgressInv
    BY Zenon DEF SharedProtocol, SharedTypeOK
  <1>e. /\ producer[Shared] = "built" /\ pc_state'[Shared] = "producer_done"
        /\ \/ pc_state[Shared] = "consumer_set" /\ producer'[Shared] = "resume" /\ deletions' = deletions
           \/ pc_state[Shared] = "idle" /\ producer'[Shared] = "done" /\ deletions' = deletions
           \/ /\ pc_state[Shared] = "consumer_done" /\ producer'[Shared] = "done"
              /\ deletions'[Shared] = 1
        /\ UNCHANGED <<consumer_status, producer_status, consumer,
                       m_status, ready, m_awaiters, holder, before, finisher, fin, awaiters, finishes, dtor>>
    BY <1>0, <1>1 DEF SharedTypeOK, TypeOK, complete_producer, EndsInv, sharedVars
  <1>2. TypeOK'
    BY <1>0, <1>1 DEF TypeOK, complete_producer, PcStates, Statuses, ConsumerStatuses, ProducerLabels,
                 ConsumerLabels, EndsInv
  <1>3. SharedTypeOK'
    BY Zenon, <1>1, <1>2 DEF SharedTypeOK, sharedVars
  <1>4. HoldersInv'
    BY Zenon, <1>0, <1>1, <1>e DEF HoldersInv
  <1>8. OthersInv'
    BY Zenon, <1>1 DEF OthersInv, TypeOK, complete_producer
  <1>5. EndsInv'
    BY Zenon, <1>0, <1>1, <1>e DEF HoldersInv, EndsInv, FinishInv
  <1>6. FinishInv'
    BY Zenon, <1>0, <1>1, <1>e DEF HoldersInv, EndsInv, FinishInv
  <1>7. ProgressInv'
    BY Zenon, <1>0, <1>1, <1>e DEF HoldersInv, EndsInv, FinishInv, ProgressInv
  <1> QED
    BY Zenon, <1>3, <1>4, <1>5, <1>6, <1>7, <1>8 DEF SharedProtocol

\* The producer is late: the last holder has deleted the result state.
LEMMA ResumeDeletedKeeps ==
    ASSUME SharedProtocol, resume_deleted_consumer(Shared) /\ UNCHANGED sharedVars
    PROVE  SharedProtocol'
  <1>0. Maker \in Holders /\ Shared \in Results
    BY Zenon, TheyExist
  <1>1. SharedTypeOK /\ TypeOK /\ HoldersInv /\ OthersInv /\ EndsInv /\ FinishInv /\ ProgressInv
    BY Zenon DEF SharedProtocol, SharedTypeOK
  <1>e. /\ producer[Shared] = "resume" /\ producer'[Shared] = "undefined" /\ deletions[Shared] = 1
        /\ UNCHANGED <<pc_state, consumer_status, producer_status, deletions, consumer,
                       m_status, ready, m_awaiters, holder, before, finisher, fin, awaiters, finishes, dtor>>
    BY <1>0, <1>1 DEF SharedTypeOK, TypeOK, resume_deleted_consumer, sharedVars
  <1>2. TypeOK'
    BY Zenon, <1>0, <1>1 DEF TypeOK, resume_deleted_consumer, PcStates, Statuses, ConsumerStatuses, ProducerLabels,
                 ConsumerLabels, EndsInv
  <1>3. SharedTypeOK'
    BY Zenon, <1>1, <1>2 DEF SharedTypeOK, sharedVars
  <1>4. HoldersInv'
    BY Zenon, <1>0, <1>1, <1>e DEF HoldersInv
  <1>8. OthersInv'
    BY Zenon, <1>1 DEF OthersInv, TypeOK, resume_deleted_consumer
  <1>5. EndsInv'
    BY Zenon, <1>0, <1>1, <1>e DEF HoldersInv, EndsInv, FinishInv
  <1>6. FinishInv'
    BY Zenon, <1>0, <1>1, <1>e DEF HoldersInv, EndsInv, FinishInv
  <1>7. ProgressInv'
    BY Zenon, <1>0, <1>1, <1>e DEF HoldersInv, EndsInv, FinishInv, ProgressInv
  <1> QED
    BY Zenon, <1>3, <1>4, <1>5, <1>6, <1>7, <1>8 DEF SharedProtocol

\* The producer locks the weak pointer, or finds it expired.
LEMMA ResumeSharedKeeps ==
    ASSUME SharedProtocol, resume_shared_consumer
    PROVE  SharedProtocol'
  <1>0. Maker \in Holders /\ Shared \in Results
    BY Zenon, TheyExist
  <1>1. SharedTypeOK /\ TypeOK /\ HoldersInv /\ OthersInv /\ EndsInv /\ FinishInv /\ ProgressInv
    BY Zenon DEF SharedProtocol, SharedTypeOK
  <1>e. /\ producer[Shared] = "resume" /\ finisher = "none"
        /\ \/ dtor = "alive" /\ finisher' = "producer" /\ fin' = "store" /\ producer' = producer
           \/ dtor # "alive" /\ finisher' = "none" /\ fin' = fin /\ producer'[Shared] = "done"
        /\ UNCHANGED <<pc_state, consumer_status, producer_status, deletions, consumer,
                       state, holder, before, awaiters, finishes, dtor, history>>
    BY Zenon, <1>0, <1>1 DEF SharedTypeOK, TypeOK, resume_shared_consumer
  <1>2. TypeOK'
    BY Zenon, <1>0, <1>1 DEF TypeOK, resume_shared_consumer, PcStates, Statuses, ConsumerStatuses, ProducerLabels,
                 ConsumerLabels, EndsInv
  <1>3. SharedTypeOK'
    BY Zenon, <1>0, <1>1, <1>2 DEF SharedTypeOK, resume_shared_consumer, Statuses, HolderLabels
  <1>4. HoldersInv'
    BY Zenon, <1>0, <1>1, <1>e DEF HoldersInv, EndsInv, FinishInv
  <1>8. OthersInv'
    BY Zenon, <1>1 DEF OthersInv, TypeOK, resume_shared_consumer
  <1>5. EndsInv'
    BY Zenon, <1>0, <1>1, <1>e DEF HoldersInv, EndsInv, FinishInv
  <1>6. FinishInv'
    BY Zenon, <1>0, <1>1, <1>e DEF HoldersInv, EndsInv, FinishInv
  <1>7. ProgressInv'
    BY Zenon, <1>0, <1>1, <1>e DEF HoldersInv, EndsInv, FinishInv, ProgressInv
  <1> QED
    BY Zenon, <1>3, <1>4, <1>5, <1>6, <1>7, <1>8 DEF SharedProtocol

\* m_status is stored: by then the result is done.
LEMMA FinishStoreKeeps ==
    ASSUME SharedProtocol, finish_store
    PROVE  SharedProtocol'
  <1>0. Maker \in Holders /\ Shared \in Results
    BY Zenon, TheyExist
  <1>1. SharedTypeOK /\ TypeOK /\ HoldersInv /\ OthersInv /\ EndsInv /\ FinishInv /\ ProgressInv
    BY Zenon DEF SharedProtocol, SharedTypeOK
  <1>e. /\ fin = "store" /\ fin' = "notify"
        /\ m_status' = producer_status[Shared] /\ producer_status[Shared] # "idle"
        /\ UNCHANGED <<vars, holder, before, finisher, finishes, awaiters, m_semaphore, m_awaiters, ready, dtor, history>>
    BY Zenon, <1>0, <1>1 DEF SharedTypeOK, TypeOK, finish_store, FinishInv, EndsInv, HoldersInv
  <1>2. TypeOK'
    BY Zenon, <1>1, <1>e DEF TypeOK, vars
  <1>3. SharedTypeOK'
    BY Zenon, <1>0, <1>1, <1>2 DEF SharedTypeOK, finish_store, Statuses, HolderLabels, TypeOK
  <1>4. HoldersInv'
    BY Zenon, <1>0, <1>1, <1>e DEF HoldersInv, vars, EndsInv, FinishInv
  <1>8. OthersInv'
    BY Zenon, <1>1, <1>e DEF OthersInv, vars
  <1>5. EndsInv'
    BY Zenon, <1>0, <1>1, <1>e DEF HoldersInv, EndsInv, FinishInv, vars
  <1>6. FinishInv'
    BY Zenon, <1>0, <1>1, <1>e DEF HoldersInv, EndsInv, FinishInv, vars
  <1>7. ProgressInv'
    BY Zenon, <1>0, <1>1, <1>e DEF HoldersInv, EndsInv, FinishInv, ProgressInv, vars
  <1> QED
    BY Zenon, <1>3, <1>4, <1>5, <1>6, <1>7, <1>8 DEF SharedProtocol

\* m_status.notify_all() unblocks the waiting threads.
LEMMA FinishNotifyKeeps ==
    ASSUME SharedProtocol, finish_notify
    PROVE  SharedProtocol'
  <1>0. Maker \in Holders /\ Shared \in Results
    BY Zenon, TheyExist
  <1>1. SharedTypeOK /\ TypeOK /\ HoldersInv /\ OthersInv /\ EndsInv /\ FinishInv /\ ProgressInv
    BY Zenon DEF SharedProtocol, SharedTypeOK
  <1>e. /\ fin = "notify" /\ fin' = "release"
        /\ \A k \in Holders : holder'[k] = holder[k] \/ (holder[k] = "blocked" /\ holder'[k] = "wait")
        /\ \A k \in Holders : holder'[k] # "blocked"
        /\ UNCHANGED <<vars, state, before, finisher, finishes, awaiters, dtor, history>>
    BY Zenon, <1>0, <1>1 DEF SharedTypeOK, TypeOK, finish_notify
  <1>2. TypeOK'
    BY Zenon, <1>1, <1>e DEF TypeOK, vars
  <1>3. SharedTypeOK'
    BY Zenon, <1>0, <1>1, <1>2 DEF SharedTypeOK, finish_notify, Statuses, HolderLabels
  <1>4. HoldersInv'
    BY Zenon, <1>0, <1>1, <1>e DEF HoldersInv, vars, EndsInv, FinishInv
  <1>8. OthersInv'
    BY Zenon, <1>1, <1>e DEF OthersInv, vars
  <1>5. EndsInv'
    BY Zenon, <1>0, <1>1, <1>e DEF HoldersInv, EndsInv, FinishInv, vars
  <1>6. FinishInv'
    BY Zenon, <1>0, <1>1, <1>e DEF HoldersInv, EndsInv, FinishInv, vars
  <1>7. ProgressInv'
    BY Zenon, <1>0, <1>1, <1>e DEF HoldersInv, EndsInv, FinishInv, ProgressInv, vars
  <1> QED
    BY Zenon, <1>3, <1>4, <1>5, <1>6, <1>7, <1>8 DEF SharedProtocol

\* The semaphore of wait_until is released.
LEMMA FinishReleaseKeeps ==
    ASSUME SharedProtocol, finish_release
    PROVE  SharedProtocol'
  <1>0. Maker \in Holders /\ Shared \in Results
    BY Zenon, TheyExist
  <1>1. SharedTypeOK /\ TypeOK /\ HoldersInv /\ OthersInv /\ EndsInv /\ FinishInv /\ ProgressInv
    BY Zenon DEF SharedProtocol, SharedTypeOK
  <1>e. /\ fin = "release" /\ fin' = "exchange"
        /\ UNCHANGED <<vars, m_status, m_awaiters, ready, holder, before, finisher, finishes, awaiters, dtor, history>>
    BY Zenon, <1>0, <1>1 DEF SharedTypeOK, TypeOK, finish_release
  <1>2. TypeOK'
    BY Zenon, <1>1, <1>e DEF TypeOK, vars
  <1>3. SharedTypeOK'
    BY Zenon, <1>0, <1>1, <1>2 DEF SharedTypeOK, finish_release, Statuses, HolderLabels
  <1>4. HoldersInv'
    BY Zenon, <1>0, <1>1, <1>e DEF HoldersInv, vars, EndsInv, FinishInv
  <1>8. OthersInv'
    BY Zenon, <1>1, <1>e DEF OthersInv, vars
  <1>5. EndsInv'
    BY Zenon, <1>0, <1>1, <1>e DEF HoldersInv, EndsInv, FinishInv, vars
  <1>6. FinishInv'
    BY Zenon, <1>0, <1>1, <1>e DEF HoldersInv, EndsInv, FinishInv, vars
  <1>7. ProgressInv'
    BY Zenon, <1>0, <1>1, <1>e DEF HoldersInv, EndsInv, FinishInv, ProgressInv, vars
  <1> QED
    BY Zenon, <1>3, <1>4, <1>5, <1>6, <1>7, <1>8 DEF SharedProtocol

\* The list is closed, and turned round.
LEMMA FinishExchangeKeeps ==
    ASSUME SharedProtocol, finish_exchange
    PROVE  SharedProtocol'
  <1>0. Maker \in Holders /\ Shared \in Results
    BY Zenon, TheyExist
  <1>1. SharedTypeOK /\ TypeOK /\ HoldersInv /\ OthersInv /\ EndsInv /\ FinishInv /\ ProgressInv
    BY Zenon DEF SharedProtocol, SharedTypeOK
  <1>e. /\ fin = "exchange" /\ fin' = "resume"
        /\ UNCHANGED <<vars, m_status, holder, before, finisher, finishes, dtor, history>>
    BY Zenon, <1>0, <1>1 DEF SharedTypeOK, TypeOK, finish_exchange
  <1>2. TypeOK'
    BY Zenon, <1>1, <1>e DEF TypeOK, vars
  <1>3. SharedTypeOK'
    <2>1. awaiters' \in Seq(Holders)
      BY Zenon, <1>1, ReverseElements DEF finish_exchange, SharedTypeOK
    <2>2. m_awaiters' \in Seq(Holders)
      BY DEF finish_exchange
    <2> QED
      BY Zenon, <1>1, <1>2, <2>1, <2>2 DEF SharedTypeOK, finish_exchange
  <1>4. HoldersInv'
    BY Zenon, <1>0, <1>1, <1>e DEF HoldersInv, vars, EndsInv, FinishInv
  <1>8. OthersInv'
    BY Zenon, <1>1, <1>e DEF OthersInv, vars
  <1>5. EndsInv'
    BY Zenon, <1>0, <1>1, <1>e DEF HoldersInv, EndsInv, FinishInv, vars
  <1>6. FinishInv'
    BY Zenon, <1>0, <1>1, <1>e DEF HoldersInv, EndsInv, FinishInv, vars
  <1>7. ProgressInv'
    <2>1. ASSUME NEW k \in Holders, holder'[k] = "suspended" PROVE In(awaiters', k)
      <3>1. In(m_awaiters, k)
        BY <1>1, <2>1 DEF finish_exchange, ProgressInv, In
      <3> QED
        BY Zenon, <3>1, <1>1, ReverseKeepsMembers DEF finish_exchange, SharedTypeOK
    <2> QED
      BY Zenon, <1>1, <2>1 DEF FinishInv, ProgressInv, finish_exchange, vars
  <1> QED
    BY Zenon, <1>3, <1>4, <1>5, <1>6, <1>7, <1>8 DEF SharedProtocol

\* The first awaiter in the list is resumed.
LEMMA FinishResumeKeeps ==
    ASSUME SharedProtocol, finish_resume
    PROVE  SharedProtocol'
  <1>0. Maker \in Holders /\ Shared \in Results
    BY Zenon, TheyExist
  <1>1. SharedTypeOK /\ TypeOK /\ HoldersInv /\ OthersInv /\ EndsInv /\ FinishInv /\ ProgressInv
    BY Zenon DEF SharedProtocol, SharedTypeOK
  <1>e. /\ fin = "resume" /\ fin' = "resume" /\ Head(awaiters) \in Holders
        /\ holder[Head(awaiters)] = "suspended" /\ holder'[Head(awaiters)] = "ready"
        /\ \A k \in Holders \ {Head(awaiters)} : holder'[k] = holder[k]
        /\ UNCHANGED <<vars, state, before, finisher, finishes, dtor, queued>>
    BY <1>0, <1>1 DEF SharedTypeOK, TypeOK, finish_resume
  <1>2. TypeOK'
    BY Zenon, <1>1, <1>e DEF TypeOK, vars
  <1>3. SharedTypeOK'
    BY <1>0, <1>1, <1>2 DEF SharedTypeOK, finish_resume, Statuses, HolderLabels
  <1>4. HoldersInv'
    BY Zenon, <1>0, <1>1, <1>e DEF HoldersInv, vars, EndsInv, FinishInv
  <1>8. OthersInv'
    BY Zenon, <1>1, <1>e DEF OthersInv, vars
  <1>5. EndsInv'
    BY Zenon, <1>0, <1>1, <1>e DEF HoldersInv, EndsInv, FinishInv, vars
  <1>6. FinishInv'
    BY Zenon, <1>0, <1>1, <1>e DEF HoldersInv, EndsInv, FinishInv, vars
  <1>7. ProgressInv'
    <2>1. Head(awaiters) \in Holders
      BY <1>1 DEF finish_resume, SharedTypeOK
    <2>2. ASSUME NEW k \in Holders, holder'[k] = "suspended" PROVE In(m_awaiters', k) \/ In(awaiters', k)
      <3>1. holder[k] = "suspended" /\ k # Head(awaiters)
        BY Zenon, <1>1, <2>1, <2>2 DEF finish_resume, SharedTypeOK
      <3>2. In(m_awaiters, k) \/ In(awaiters, k)
        BY Zenon, <1>1, <3>1 DEF ProgressInv
      <3>3. In(awaiters, k) => In(Tail(awaiters), k)
        BY Zenon, <1>1, <3>1, TailMembers DEF SharedTypeOK, finish_resume
      <3> QED
        BY Zenon, <3>2, <3>3 DEF finish_resume
    <2>3. \A k \in Holders : holder'[k] # holder[k] => holder'[k] = "ready"
      BY Zenon, <1>1, <2>1 DEF finish_resume, SharedTypeOK
    <2> QED
      BY Zenon, <1>1, <2>2, <2>3 DEF FinishInv, ProgressInv, finish_resume, vars
  <1> QED
    BY Zenon, <1>3, <1>4, <1>5, <1>6, <1>7, <1>8 DEF SharedProtocol

\* on_result_finished ends; a producer drops its reference, perhaps the last one.
LEMMA FinishEndKeeps ==
    ASSUME SharedProtocol, finish_end
    PROVE  SharedProtocol'
  <1>0. Maker \in Holders /\ Shared \in Results
    BY Zenon, TheyExist
  <1>1. SharedTypeOK /\ TypeOK /\ HoldersInv /\ OthersInv /\ EndsInv /\ FinishInv /\ ProgressInv
    BY Zenon DEF SharedProtocol, SharedTypeOK
  <1>e. /\ fin = "resume" /\ awaiters = <<>> /\ finisher' = "none" /\ fin' = "none" /\ finishes' = finishes + 1
        /\ \/ /\ finisher = "producer" /\ producer[Shared] = "resume" /\ producer'[Shared] = "done"
              /\ dtor' = dtor \/ (dtor' = "rewind" /\ \A k \in Holders : holder[k] \in {"none", "result", "gone"})
              /\ holder' = holder
           \/ /\ finisher = "maker" /\ holder[Maker] = "finishing" /\ holder'[Maker] = "owner"
              /\ \A k \in Holders \ {Maker} : holder'[k] = holder[k]
              /\ producer' = producer /\ dtor' = dtor
        /\ UNCHANGED <<pc_state, consumer_status, producer_status, deletions, consumer, state, before, awaiters, history>>
    BY Zenon, <1>0, <1>1 DEF SharedTypeOK, TypeOK, finish_end, Expires, Owners
  <1>2. TypeOK'
    BY Zenon, <1>0, <1>1 DEF TypeOK, finish_end, Expires, Owners, PcStates, Statuses, ConsumerStatuses, ProducerLabels,
                 ConsumerLabels, EndsInv
  <1>3. SharedTypeOK'
    <2>1. dtor' \in {dtor, "rewind"}
      BY Zenon DEF finish_end, Expires
    <2>2. holder' \in [Holders -> HolderLabels]
      BY Zenon, <1>1 DEF finish_end, SharedTypeOK, HolderLabels
    <2> QED
      BY <1>1, <1>2, <2>1, <2>2 DEF SharedTypeOK, finish_end
  <1>4. HoldersInv'
    BY Zenon, <1>0, <1>1, <1>e DEF HoldersInv, EndsInv, FinishInv
  <1>8. OthersInv'
    BY Zenon, <1>1 DEF OthersInv, TypeOK, finish_end, Expires, Owners
  <1>5. EndsInv'
    BY Zenon, <1>0, <1>1, <1>e DEF HoldersInv, EndsInv, FinishInv
  <1>6. FinishInv'
    <2>1. CASE finisher = "producer"
      BY <1>0, <1>1, <1>e, <2>1 DEF HoldersInv, EndsInv, FinishInv
    <2>2. CASE finisher = "maker"
      BY <1>0, <1>1, <1>e, <2>2 DEF HoldersInv, EndsInv, FinishInv
    <2> QED
      BY Zenon, <1>e, <2>1, <2>2
  <1>7. ProgressInv'
    BY <1>0, <1>1, <1>e DEF HoldersInv, EndsInv, FinishInv, ProgressInv
  <1> QED
    BY Zenon, <1>3, <1>4, <1>5, <1>6, <1>7, <1>8 DEF SharedProtocol

\* The destructor of the shared state: the load of try_rewind_consumer.
LEMMA RewindLoadKeeps ==
    ASSUME SharedProtocol, rewind_load
    PROVE  SharedProtocol'
  <1>0. Maker \in Holders /\ Shared \in Results
    BY Zenon, TheyExist
  <1>1. SharedTypeOK /\ TypeOK /\ HoldersInv /\ OthersInv /\ EndsInv /\ FinishInv /\ ProgressInv
    BY Zenon DEF SharedProtocol, SharedTypeOK
  <1>e. /\ dtor = "rewind"
        /\ \/ /\ pc_state[Shared] # "consumer_set" /\ dtor' = "reset"
              /\ consumer[Shared] = "shared" /\ consumer'[Shared] = "drop"
           \/ pc_state[Shared] = "consumer_set" /\ dtor' = "rewind_cas" /\ consumer' = consumer
        /\ UNCHANGED <<pc_state, consumer_status, producer_status, deletions, producer, state, holder, before, finish, history>>
    BY Zenon, <1>0, <1>1 DEF SharedTypeOK, TypeOK, rewind_load, Reset
  <1>2. TypeOK'
    BY Zenon, <1>0, <1>1 DEF TypeOK, rewind_load, Reset, PcStates, Statuses, ConsumerStatuses, ProducerLabels,
                 ConsumerLabels, EndsInv
  <1>3. SharedTypeOK'
    BY Zenon, <1>0, <1>1, <1>2 DEF SharedTypeOK, rewind_load, Reset, Statuses, HolderLabels
  <1>4. HoldersInv'
    BY Zenon, <1>0, <1>1, <1>e DEF HoldersInv, EndsInv, FinishInv
  <1>8. OthersInv'
    BY Zenon, <1>1 DEF OthersInv, TypeOK, rewind_load, Reset
  <1>5. EndsInv'
    BY Zenon, <1>0, <1>1, <1>e DEF HoldersInv, EndsInv, FinishInv
  <1>6. FinishInv'
    BY Zenon, <1>0, <1>1, <1>e DEF HoldersInv, EndsInv, FinishInv
  <1>7. ProgressInv'
    BY Zenon, <1>0, <1>1, <1>e DEF HoldersInv, EndsInv, FinishInv, ProgressInv
  <1> QED
    BY Zenon, <1>3, <1>4, <1>5, <1>6, <1>7, <1>8 DEF SharedProtocol

\* Its CAS, which may lose against the producer.
LEMMA RewindCasKeeps ==
    ASSUME SharedProtocol, rewind_cas
    PROVE  SharedProtocol'
  <1>0. Maker \in Holders /\ Shared \in Results
    BY Zenon, TheyExist
  <1>1. SharedTypeOK /\ TypeOK /\ HoldersInv /\ OthersInv /\ EndsInv /\ FinishInv /\ ProgressInv
    BY Zenon DEF SharedProtocol, SharedTypeOK
  <1>e. /\ dtor = "rewind_cas"
        /\ \/ /\ pc_state[Shared] # "consumer_set" /\ dtor' = "reset" /\ pc_state' = pc_state
              /\ consumer[Shared] = "shared" /\ consumer'[Shared] = "drop"
           \/ /\ pc_state[Shared] = "consumer_set" /\ pc_state'[Shared] = "idle"
              /\ dtor' = "rewind_clear" /\ consumer' = consumer
        /\ UNCHANGED <<consumer_status, producer_status, deletions, producer, state, holder, before, finish, history>>
    BY Zenon, <1>0, <1>1 DEF SharedTypeOK, TypeOK, rewind_cas, Reset
  <1>2. TypeOK'
    BY Zenon, <1>0, <1>1 DEF TypeOK, rewind_cas, Reset, PcStates, Statuses, ConsumerStatuses, ProducerLabels,
                 ConsumerLabels, EndsInv
  <1>3. SharedTypeOK'
    BY Zenon, <1>0, <1>1, <1>2 DEF SharedTypeOK, rewind_cas, Reset, Statuses, HolderLabels
  <1>4. HoldersInv'
    BY Zenon, <1>0, <1>1, <1>e DEF HoldersInv, EndsInv, FinishInv
  <1>8. OthersInv'
    BY Zenon, <1>1 DEF OthersInv, TypeOK, rewind_cas, Reset
  <1>5. EndsInv'
    BY Zenon, <1>0, <1>1, <1>e DEF HoldersInv, EndsInv, FinishInv
  <1>6. FinishInv'
    BY Zenon, <1>0, <1>1, <1>e DEF HoldersInv, EndsInv, FinishInv
  <1>7. ProgressInv'
    BY Zenon, <1>0, <1>1, <1>e DEF HoldersInv, EndsInv, FinishInv, ProgressInv
  <1> QED
    BY Zenon, <1>3, <1>4, <1>5, <1>6, <1>7, <1>8 DEF SharedProtocol

\* The context is cleared, and the consumer end dropped.
LEMMA RewindClearKeeps ==
    ASSUME SharedProtocol, rewind_clear
    PROVE  SharedProtocol'
  <1>0. Maker \in Holders /\ Shared \in Results
    BY Zenon, TheyExist
  <1>1. SharedTypeOK /\ TypeOK /\ HoldersInv /\ OthersInv /\ EndsInv /\ FinishInv /\ ProgressInv
    BY Zenon DEF SharedProtocol, SharedTypeOK
  <1>e. /\ dtor = "rewind_clear" /\ dtor' = "reset"
        /\ consumer[Shared] = "shared" /\ consumer'[Shared] = "drop"
        /\ UNCHANGED <<pc_state, producer_status, deletions, producer, state, holder, before, finish, history>>
    BY Zenon, <1>0, <1>1 DEF SharedTypeOK, TypeOK, rewind_clear, Reset
  <1>2. TypeOK'
    BY Zenon, <1>0, <1>1 DEF TypeOK, rewind_clear, Reset, PcStates, Statuses, ConsumerStatuses, ProducerLabels,
                 ConsumerLabels, EndsInv
  <1>3. SharedTypeOK'
    BY Zenon, <1>0, <1>1, <1>2 DEF SharedTypeOK, rewind_clear, Reset, Statuses, HolderLabels
  <1>4. HoldersInv'
    BY Zenon, <1>0, <1>1, <1>e DEF HoldersInv, EndsInv, FinishInv
  <1>8. OthersInv'
    BY Zenon, <1>1 DEF OthersInv, TypeOK, rewind_clear, Reset
  <1>5. EndsInv'
    BY Zenon, <1>0, <1>1, <1>e DEF HoldersInv, EndsInv, FinishInv
  <1>6. FinishInv'
    BY Zenon, <1>0, <1>1, <1>e DEF HoldersInv, EndsInv, FinishInv
  <1>7. ProgressInv'
    BY Zenon, <1>0, <1>1, <1>e DEF HoldersInv, EndsInv, FinishInv, ProgressInv
  <1> QED
    BY Zenon, <1>3, <1>4, <1>5, <1>6, <1>7, <1>8 DEF SharedProtocol

\* complete_consumer loads m_pc_state.
LEMMA ConsumerLoadKeeps ==
    ASSUME SharedProtocol, complete_consumer_load(Shared) /\ UNCHANGED sharedVars
    PROVE  SharedProtocol'
  <1>0. Maker \in Holders /\ Shared \in Results
    BY Zenon, TheyExist
  <1>1. SharedTypeOK /\ TypeOK /\ HoldersInv /\ OthersInv /\ EndsInv /\ FinishInv /\ ProgressInv
    BY Zenon DEF SharedProtocol, SharedTypeOK
  <1>e. /\ consumer[Shared] = "drop"
        /\ \/ Done(Shared) /\ consumer'[Shared] = "gone" /\ deletions'[Shared] = 1
           \/ ~Done(Shared) /\ consumer'[Shared] = "drop_exchange" /\ deletions' = deletions
        /\ UNCHANGED <<pc_state, consumer_status, producer_status, producer,
                       m_status, ready, m_awaiters, holder, before, finisher, fin, awaiters, finishes, dtor>>
    BY <1>0, <1>1 DEF SharedTypeOK, TypeOK, complete_consumer_load, EndsInv, sharedVars
  <1>2. TypeOK'
    BY <1>0, <1>1 DEF TypeOK, complete_consumer_load, PcStates, Statuses, ConsumerStatuses, ProducerLabels,
                 ConsumerLabels, EndsInv
  <1>3. SharedTypeOK'
    BY Zenon, <1>1, <1>2 DEF SharedTypeOK, sharedVars
  <1>4. HoldersInv'
    BY Zenon, <1>0, <1>1, <1>e DEF HoldersInv
  <1>8. OthersInv'
    BY Zenon, <1>1 DEF OthersInv, TypeOK, complete_consumer_load
  <1>5. EndsInv'
    BY Zenon, <1>0, <1>1, <1>e DEF HoldersInv, EndsInv, FinishInv
  <1>6. FinishInv'
    BY Zenon, <1>0, <1>1, <1>e DEF HoldersInv, EndsInv, FinishInv
  <1>7. ProgressInv'
    BY Zenon, <1>0, <1>1, <1>e DEF HoldersInv, EndsInv, FinishInv, ProgressInv
  <1> QED
    BY Zenon, <1>3, <1>4, <1>5, <1>6, <1>7, <1>8 DEF SharedProtocol

\* complete_consumer exchanges it.
LEMMA ConsumerExchangeKeeps ==
    ASSUME SharedProtocol, complete_consumer_exchange(Shared) /\ UNCHANGED sharedVars
    PROVE  SharedProtocol'
  <1>0. Maker \in Holders /\ Shared \in Results
    BY Zenon, TheyExist
  <1>1. SharedTypeOK /\ TypeOK /\ HoldersInv /\ OthersInv /\ EndsInv /\ FinishInv /\ ProgressInv
    BY Zenon DEF SharedProtocol, SharedTypeOK
  <1>f. deletions[Shared] = 0 /\ deletions \in [Results -> {0, 1}]
    BY Zenon, <1>0, <1>1 DEF complete_consumer_exchange, EndsInv, TypeOK
  <1>e. /\ consumer[Shared] = "drop_exchange" /\ consumer'[Shared] = "gone"
        /\ pc_state'[Shared] = "consumer_done"
        /\ \/ Done(Shared) /\ deletions'[Shared] = 1
           \/ ~Done(Shared) /\ deletions' = deletions
        /\ UNCHANGED <<consumer_status, producer_status, producer,
                       m_status, ready, m_awaiters, holder, before, finisher, fin, awaiters, finishes, dtor>>
    BY <1>0, <1>1, <1>f DEF TypeOK, complete_consumer_exchange, sharedVars
  <1>2. TypeOK'
    BY <1>0, <1>1 DEF TypeOK, complete_consumer_exchange, PcStates, Statuses, ConsumerStatuses, ProducerLabels,
                 ConsumerLabels, EndsInv
  <1>3. SharedTypeOK'
    BY Zenon, <1>1, <1>2 DEF SharedTypeOK, sharedVars
  <1>4. HoldersInv'
    BY Zenon, <1>0, <1>1, <1>e DEF HoldersInv
  <1>8. OthersInv'
    BY Zenon, <1>1 DEF OthersInv, TypeOK, complete_consumer_exchange
  <1>5. EndsInv'
    BY Zenon, <1>0, <1>1, <1>e DEF HoldersInv, EndsInv, FinishInv
  <1>6. FinishInv'
    BY Zenon, <1>0, <1>1, <1>e DEF HoldersInv, EndsInv, FinishInv
  <1>7. ProgressInv'
    BY Zenon, <1>0, <1>1, <1>e DEF HoldersInv, EndsInv, FinishInv, ProgressInv
  <1> QED
    BY Zenon, <1>3, <1>4, <1>5, <1>6, <1>7, <1>8 DEF SharedProtocol

\* The constructor takes the result.
LEMMA MakeSharedKeeps ==
    ASSUME SharedProtocol, make_shared_result
    PROVE  SharedProtocol'
  <1>0. Maker \in Holders /\ Shared \in Results
    BY Zenon, TheyExist
  <1>1. SharedTypeOK /\ TypeOK /\ HoldersInv /\ OthersInv /\ EndsInv /\ FinishInv /\ ProgressInv
    BY Zenon DEF SharedProtocol, SharedTypeOK
  <1>e. /\ \A k \in Holders \ {Maker} : holder'[k] = holder[k]
        /\ holder[Maker] = "result" /\ holder'[Maker] = "share_load"
        /\ consumer[Shared] = "owner" /\ consumer'[Shared] = "shared"
        /\ UNCHANGED <<pc_state, consumer_status, producer_status, deletions, producer, state, before, finish, dtor, history>>
    BY Zenon, <1>0, <1>1 DEF SharedTypeOK, TypeOK, make_shared_result
  <1>2. TypeOK'
    BY Zenon, <1>0, <1>1 DEF TypeOK, make_shared_result, PcStates, Statuses, ConsumerStatuses, ProducerLabels,
                 ConsumerLabels, EndsInv
  <1>3. SharedTypeOK'
    BY Zenon, <1>0, <1>1, <1>2 DEF SharedTypeOK, make_shared_result, Statuses, HolderLabels
  <1>4. HoldersInv'
    BY Zenon, <1>0, <1>1, <1>e DEF HoldersInv, EndsInv, FinishInv
  <1>8. OthersInv'
    BY Zenon, <1>1 DEF OthersInv, TypeOK, make_shared_result
  <1>5. EndsInv'
    BY Zenon, <1>0, <1>1, <1>e DEF HoldersInv, EndsInv, FinishInv
  <1>6. FinishInv'
    BY Zenon, <1>0, <1>1, <1>e DEF HoldersInv, EndsInv, FinishInv
  <1>7. ProgressInv'
    BY Zenon, <1>0, <1>1, <1>e DEF HoldersInv, EndsInv, FinishInv, ProgressInv
  <1> QED
    BY Zenon, <1>3, <1>4, <1>5, <1>6, <1>7, <1>8 DEF SharedProtocol

\* share finds the result ready, or not yet.
LEMMA ShareLoadKeeps ==
    ASSUME SharedProtocol, share_load
    PROVE  SharedProtocol'
  <1>0. Maker \in Holders /\ Shared \in Results
    BY Zenon, TheyExist
  <1>1. SharedTypeOK /\ TypeOK /\ HoldersInv /\ OthersInv /\ EndsInv /\ FinishInv /\ ProgressInv
    BY Zenon DEF SharedProtocol, SharedTypeOK
  <1>e. /\ \A k \in Holders \ {Maker} : holder'[k] = holder[k]
        /\ holder[Maker] = "share_load"
        /\ \/ /\ Done(Shared)
              /\ holder'[Maker] = "finishing" /\ finisher' = "maker" /\ fin' = "store"
           \/ ~Done(Shared) /\ holder'[Maker] = "share_set" /\ finisher' = finisher /\ fin' = fin
        /\ UNCHANGED <<vars, state, before, awaiters, finishes, dtor, history>>
    BY Zenon, <1>0, <1>1 DEF SharedTypeOK, TypeOK, share_load, MakerFinishes
  <1>2. TypeOK'
    BY Zenon, <1>1, <1>e DEF TypeOK, vars
  <1>3. SharedTypeOK'
    BY Zenon, <1>0, <1>1, <1>2 DEF SharedTypeOK, share_load, MakerFinishes, Statuses, HolderLabels
  <1>4. HoldersInv'
    BY Zenon, <1>0, <1>1, <1>e DEF HoldersInv, vars, EndsInv, FinishInv
  <1>8. OthersInv'
    BY Zenon, <1>1, <1>e DEF OthersInv, vars
  <1>5. EndsInv'
    BY Zenon, <1>0, <1>1, <1>e DEF HoldersInv, EndsInv, FinishInv, vars
  <1>6. FinishInv'
    BY Zenon, <1>0, <1>1, <1>e DEF HoldersInv, EndsInv, FinishInv, vars
  <1>7. ProgressInv'
    <2>1. finisher = "none" /\ fin = "none" /\ finishes = 0
      BY Zenon, <1>1, <1>e DEF EndsInv, FinishInv, SharedTypeOK
    <2>2. m_status = "idle" /\ ~ready /\ awaiters = <<>>
      BY <1>1, <2>1 DEF ProgressInv, SharedTypeOK
    <2>3. \A k \in Holders : holder'[k] = holder[k] \/ holder'[k] \in {"finishing", "share_set", "owner"}
      BY Zenon, <1>e
    <2>4. fin' \in {"none", "store"}
      BY Zenon, <1>e, <2>1
    <2> QED
      BY Zenon, <1>1, <1>e, <2>1, <2>2, <2>3, <2>4 DEF ProgressInv, vars
  <1> QED
    BY Zenon, <1>3, <1>4, <1>5, <1>6, <1>7, <1>8 DEF SharedProtocol

\* share sets the consumer context.
LEMMA SetContextKeeps ==
    ASSUME SharedProtocol, set_shared_context
    PROVE  SharedProtocol'
  <1>0. Maker \in Holders /\ Shared \in Results
    BY Zenon, TheyExist
  <1>1. SharedTypeOK /\ TypeOK /\ HoldersInv /\ OthersInv /\ EndsInv /\ FinishInv /\ ProgressInv
    BY Zenon DEF SharedProtocol, SharedTypeOK
  <1>e. /\ \A k \in Holders \ {Maker} : holder'[k] = holder[k]
        /\ holder[Maker] = "share_set" /\ holder'[Maker] = "share_cas"
        /\ consumer_status'[Shared] = "shared"
        /\ UNCHANGED <<pc_state, producer_status, deletions, producer, consumer, state, before, finish, dtor, history>>
    BY Zenon, <1>0, <1>1 DEF SharedTypeOK, TypeOK, set_shared_context
  <1>2. TypeOK'
    BY Zenon, <1>0, <1>1 DEF TypeOK, set_shared_context, PcStates, Statuses, ConsumerStatuses, ProducerLabels,
                 ConsumerLabels, EndsInv
  <1>3. SharedTypeOK'
    BY Zenon, <1>0, <1>1, <1>2 DEF SharedTypeOK, set_shared_context, Statuses, HolderLabels
  <1>4. HoldersInv'
    BY Zenon, <1>0, <1>1, <1>e DEF HoldersInv, EndsInv, FinishInv
  <1>8. OthersInv'
    BY Zenon, <1>1 DEF OthersInv, TypeOK, set_shared_context
  <1>5. EndsInv'
    BY Zenon, <1>0, <1>1, <1>e DEF HoldersInv, EndsInv, FinishInv
  <1>6. FinishInv'
    BY Zenon, <1>0, <1>1, <1>e DEF HoldersInv, EndsInv, FinishInv
  <1>7. ProgressInv'
    BY Zenon, <1>0, <1>1, <1>e DEF HoldersInv, EndsInv, FinishInv, ProgressInv
  <1> QED
    BY Zenon, <1>3, <1>4, <1>5, <1>6, <1>7, <1>8 DEF SharedProtocol

\* share registers the context, unless the producer was faster.
LEMMA ShareCasKeeps ==
    ASSUME SharedProtocol, share_cas
    PROVE  SharedProtocol'
  <1>0. Maker \in Holders /\ Shared \in Results
    BY Zenon, TheyExist
  <1>1. SharedTypeOK /\ TypeOK /\ HoldersInv /\ OthersInv /\ EndsInv /\ FinishInv /\ ProgressInv
    BY Zenon DEF SharedProtocol, SharedTypeOK
  <1>e. /\ \A k \in Holders \ {Maker} : holder'[k] = holder[k]
        /\ holder[Maker] = "share_cas"
        /\ \/ /\ pc_state[Shared] = "idle" /\ pc_state'[Shared] = "consumer_set"
              /\ holder'[Maker] = "owner" /\ finisher' = finisher /\ fin' = fin
           \/ /\ pc_state[Shared] # "idle" /\ pc_state' = pc_state
              /\ holder'[Maker] = "finishing" /\ finisher' = "maker" /\ fin' = "store"
        /\ UNCHANGED <<consumer_status, producer_status, deletions, producer, consumer, state, before, awaiters, finishes, dtor, history>>
    BY Zenon, <1>0, <1>1 DEF SharedTypeOK, TypeOK, share_cas, MakerFinishes
  <1>2. TypeOK'
    BY Zenon, <1>0, <1>1 DEF TypeOK, share_cas, MakerFinishes, PcStates, Statuses, ConsumerStatuses, ProducerLabels,
                 ConsumerLabels, EndsInv
  <1>3. SharedTypeOK'
    BY Zenon, <1>0, <1>1, <1>2 DEF SharedTypeOK, share_cas, MakerFinishes, Statuses, HolderLabels
  <1>4. HoldersInv'
    BY Zenon, <1>0, <1>1, <1>e DEF HoldersInv, EndsInv, FinishInv
  <1>8. OthersInv'
    BY Zenon, <1>1 DEF OthersInv, TypeOK, share_cas, MakerFinishes
  <1>5. EndsInv'
    BY Zenon, <1>0, <1>1, <1>e DEF HoldersInv, EndsInv, FinishInv
  <1>6. FinishInv'
    BY Zenon, <1>0, <1>1, <1>e DEF HoldersInv, EndsInv, FinishInv
  <1>7. ProgressInv'
    <2>1. finisher = "none" /\ fin = "none" /\ finishes = 0
      BY Zenon, <1>1, <1>e DEF EndsInv, FinishInv, SharedTypeOK
    <2>2. m_status = "idle" /\ ~ready /\ awaiters = <<>>
      BY <1>1, <2>1 DEF ProgressInv, SharedTypeOK
    <2>3. \A k \in Holders : holder'[k] = holder[k] \/ holder'[k] \in {"finishing", "share_set", "owner"}
      BY Zenon, <1>e
    <2>4. fin' \in {"none", "store"}
      BY Zenon, <1>e, <2>1
    <2> QED
      BY Zenon, <1>1, <1>e, <2>1, <2>2, <2>3, <2>4 DEF ProgressInv
  <1> QED
    BY Zenon, <1>3, <1>4, <1>5, <1>6, <1>7, <1>8 DEF SharedProtocol

\* A holder goes; the last one starts the destructor.
LEMMA DropKeeps ==
    ASSUME NEW h \in Holders, SharedProtocol, shared_drop(h)
    PROVE  SharedProtocol'
  <1>0. Maker \in Holders /\ Shared \in Results
    BY Zenon, TheyExist
  <1>1. SharedTypeOK /\ TypeOK /\ HoldersInv /\ OthersInv /\ EndsInv /\ FinishInv /\ ProgressInv
    BY Zenon DEF SharedProtocol, SharedTypeOK
  <1>e. /\ \A k \in Holders \ {h} : holder'[k] = holder[k]
        /\ holder[h] = "owner" /\ holder'[h] = "gone"
        /\ \/ dtor' = dtor
           \/ /\ dtor' = "rewind" /\ finisher # "producer"
              /\ \A k \in Holders \ {h} : holder[k] \in {"none", "result", "gone"}
        /\ UNCHANGED <<vars, state, before, finish, history>>
    BY Zenon, <1>0, <1>1 DEF SharedTypeOK, TypeOK, shared_drop, Expires, Owners
  <1>a. /\ holder[Maker] \notin Early \cup {"finishing"} /\ holder'[Maker] \notin Early \cup {"finishing"}
        /\ dtor = "alive"
    BY Zenon, <1>0, <1>1, <1>e DEF HoldersInv
  <1>2. TypeOK'
    BY Zenon, <1>1, <1>e DEF TypeOK, vars
  <1>3. SharedTypeOK'
    <2>1. holder' \in [Holders -> HolderLabels]
      BY Zenon, <1>1 DEF SharedTypeOK, shared_drop, HolderLabels
    <2> QED
      BY Zenon, <1>1, <1>2, <1>e, <2>1 DEF SharedTypeOK
  <1>4. HoldersInv'
    BY Zenon, <1>0, <1>1, <1>e DEF HoldersInv, vars, EndsInv, FinishInv
  <1>8. OthersInv'
    BY Zenon, <1>1, <1>e DEF OthersInv, vars
  <1>5. EndsInv'
    BY Zenon, <1>1, <1>a, <1>e, EndsFrame
  <1>6. FinishInv'
    BY Zenon, <1>1, <1>a, <1>e, FinishFrame
  <1>7. ProgressInv'
    BY Zenon, <1>1, <1>e DEF ProgressInv, vars
  <1> QED
    BY Zenon, <1>3, <1>4, <1>5, <1>6, <1>7, <1>8 DEF SharedProtocol

\* An awaiter loads the list.
LEMMA AwaitLoadKeeps ==
    ASSUME NEW h \in Holders, SharedProtocol, shared_await_load(h)
    PROVE  SharedProtocol'
  <1>0. Maker \in Holders /\ Shared \in Results
    BY Zenon, TheyExist
  <1>1. SharedTypeOK /\ TypeOK /\ HoldersInv /\ OthersInv /\ EndsInv /\ FinishInv /\ ProgressInv
    BY Zenon DEF SharedProtocol, SharedTypeOK
  <1>e. /\ \A k \in Holders \ {h} : holder'[k] = holder[k]
        /\ holder[h] = "await"
        /\ (ready /\ holder'[h] = "ready") \/ (~ready /\ holder'[h] = "await_cas")
        /\ UNCHANGED <<vars, state, finish, dtor, history>>
    BY Zenon, <1>0, <1>1 DEF SharedTypeOK, TypeOK, shared_await_load
  <1>a. /\ holder[Maker] \notin Early \cup {"finishing"} /\ holder'[Maker] \notin Early \cup {"finishing"}
        /\ dtor = "alive"
    BY Zenon, <1>0, <1>1, <1>e DEF HoldersInv
  <1>2. TypeOK'
    BY Zenon, <1>1, <1>e DEF TypeOK, vars
  <1>3. SharedTypeOK'
    BY Zenon, <1>0, <1>1, <1>2 DEF SharedTypeOK, shared_await_load, Statuses, HolderLabels
  <1>4. HoldersInv'
    BY Zenon, <1>0, <1>1, <1>e DEF HoldersInv, vars, EndsInv, FinishInv
  <1>8. OthersInv'
    BY Zenon, <1>1, <1>e DEF OthersInv, vars
  <1>5. EndsInv'
    BY Zenon, <1>1, <1>a, <1>e, EndsFrame
  <1>6. FinishInv'
    BY Zenon, <1>1, <1>a, <1>e, FinishFrame
  <1>7. ProgressInv'
    BY Zenon, <1>1, <1>e DEF ProgressInv, vars
  <1> QED
    BY Zenon, <1>3, <1>4, <1>5, <1>6, <1>7, <1>8 DEF SharedProtocol

\* It pushes itself on it, or finds that the list has changed.
LEMMA AwaitCasKeeps ==
    ASSUME NEW h \in Holders, SharedProtocol, shared_await_cas(h)
    PROVE  SharedProtocol'
  <1>0. Maker \in Holders /\ Shared \in Results
    BY Zenon, TheyExist
  <1>1. SharedTypeOK /\ TypeOK /\ HoldersInv /\ OthersInv /\ EndsInv /\ FinishInv /\ ProgressInv
    BY Zenon DEF SharedProtocol, SharedTypeOK
  <1>e. /\ \A k \in Holders \ {h} : holder'[k] = holder[k]
        /\ holder[h] = "await_cas" /\ holder'[h] \in {"suspended", "await"}
        /\ UNCHANGED <<vars, m_status, ready, finish, dtor, resumed>>
    BY Zenon, <1>0, <1>1 DEF SharedTypeOK, TypeOK, shared_await_cas
  <1>a. /\ holder[Maker] \notin Early \cup {"finishing"} /\ holder'[Maker] \notin Early \cup {"finishing"}
        /\ dtor = "alive"
    BY Zenon, <1>0, <1>1, <1>e DEF HoldersInv
  <1>2. TypeOK'
    BY Zenon, <1>1, <1>e DEF TypeOK, vars
  <1>3. SharedTypeOK'
    <2>1. m_awaiters' \in Seq(Holders)
      <3>1. m_awaiters' = m_awaiters \/ m_awaiters' = <<h>> \o m_awaiters
        BY Zenon DEF shared_await_cas
      <3>2. m_awaiters \in Seq(Holders)
        BY Zenon, <1>1 DEF SharedTypeOK
      <3> QED
        BY Zenon, <3>1, <3>2, PushedMembers
    <2>2. queued' \in Seq(Holders)
      <3>1. queued' = queued \/ queued' = Append(queued, h)
        BY Zenon DEF shared_await_cas
      <3>2. queued \in Seq(Holders)
        BY Zenon, <1>1 DEF SharedTypeOK
      <3> QED
        BY <3>1, <3>2
    <2>3. holder' \in [Holders -> HolderLabels]
      BY Zenon, <1>1 DEF shared_await_cas, SharedTypeOK, HolderLabels
    <2>4. before' \in [Holders -> Seq(Holders)]
      BY <1>1 DEF shared_await_cas, SharedTypeOK
    <2> QED
      BY Zenon, <1>1, <1>2, <2>1, <2>2, <2>3, <2>4 DEF SharedTypeOK, shared_await_cas
  <1>4. HoldersInv'
    BY Zenon, <1>0, <1>1, <1>e DEF HoldersInv, vars, EndsInv, FinishInv
  <1>8. OthersInv'
    BY Zenon, <1>1, <1>e DEF OthersInv, vars
  <1>5. EndsInv'
    BY Zenon, <1>1, <1>a, <1>e, EndsFrame
  <1>6. FinishInv'
    BY Zenon, <1>1, <1>a, <1>e, FinishFrame
  <1>7. ProgressInv'
    <2>1. m_awaiters' = m_awaiters \/ m_awaiters' = <<h>> \o m_awaiters
      BY Zenon DEF shared_await_cas
    <2>2. m_awaiters \in Seq(Holders)
      BY Zenon, <1>1 DEF SharedTypeOK
    <2>3. \A k : In(m_awaiters, k) => In(m_awaiters', k)
      BY Zenon, <2>1, <2>2, PushedMembers
    <2>4. holder'[h] = "suspended" => In(m_awaiters', h)
      <3>1. holder'[h] = "suspended" => m_awaiters' = <<h>> \o m_awaiters
        BY Zenon, <1>1 DEF shared_await_cas, SharedTypeOK
      <3> QED
        BY Zenon, <2>2, <3>1, PushedMembers
    <2>5. \A k \in Holders \ {h} : holder'[k] = holder[k]
      BY Zenon, <1>1 DEF shared_await_cas, SharedTypeOK
    <2>6. holder'[h] \in {"suspended", "await"}
      BY Zenon, <1>1 DEF shared_await_cas, SharedTypeOK
    <2>7. ASSUME NEW k \in Holders
          PROVE  /\ holder'[k] = "ready" => m_status' # "idle"
                 /\ holder'[k] = "suspended" => In(m_awaiters', k) \/ In(awaiters', k)
                 /\ holder'[k] = "blocked" => m_status' = "idle" \/ fin' = "notify"
      BY Zenon, <1>1, <2>3, <2>4, <2>5, <2>6 DEF ProgressInv, shared_await_cas
    <2>8. ready' => m_awaiters' = <<>>
      BY Zenon, <1>1 DEF ProgressInv, shared_await_cas
    <2> QED
      BY Zenon, <1>1, <2>7, <2>8 DEF ProgressInv, shared_await_cas, vars
  <1> QED
    BY Zenon, <1>3, <1>4, <1>5, <1>6, <1>7, <1>8 DEF SharedProtocol

\* Its CAS fails spuriously.
LEMMA AwaitWeakKeeps ==
    ASSUME NEW h \in Holders, SharedProtocol, shared_await_weak(h)
    PROVE  SharedProtocol'
  <1>0. Maker \in Holders /\ Shared \in Results
    BY Zenon, TheyExist
  <1>1. SharedTypeOK /\ TypeOK /\ HoldersInv /\ OthersInv /\ EndsInv /\ FinishInv /\ ProgressInv
    BY Zenon DEF SharedProtocol, SharedTypeOK
  <1>e. /\ \A k \in Holders \ {h} : holder'[k] = holder[k]
        /\ holder[h] = "await_cas" /\ holder'[h] = "await"
        /\ UNCHANGED <<vars, state, finish, dtor, history>>
    BY Zenon, <1>0, <1>1 DEF SharedTypeOK, TypeOK, shared_await_weak
  <1>a. /\ holder[Maker] \notin Early \cup {"finishing"} /\ holder'[Maker] \notin Early \cup {"finishing"}
        /\ dtor = "alive"
    BY Zenon, <1>0, <1>1, <1>e DEF HoldersInv
  <1>2. TypeOK'
    BY Zenon, <1>1, <1>e DEF TypeOK, vars
  <1>3. SharedTypeOK'
    BY <1>0, <1>1, <1>2 DEF SharedTypeOK, shared_await_weak, Statuses, HolderLabels
  <1>4. HoldersInv'
    BY Zenon, <1>0, <1>1, <1>e DEF HoldersInv, vars, EndsInv, FinishInv
  <1>8. OthersInv'
    BY Zenon, <1>1, <1>e DEF OthersInv, vars
  <1>5. EndsInv'
    BY Zenon, <1>1, <1>a, <1>e, EndsFrame
  <1>6. FinishInv'
    BY Zenon, <1>1, <1>a, <1>e, FinishFrame
  <1>7. ProgressInv'
    BY Zenon, <1>1, <1>e DEF ProgressInv, vars
  <1> QED
    BY Zenon, <1>3, <1>4, <1>5, <1>6, <1>7, <1>8 DEF SharedProtocol

\* A holder moves on and touches nothing.
LEMMA MoveKeeps ==
    ASSUME NEW h \in Holders, NEW from \in Inside \cup {"none"}, NEW to \in Inside \ {"suspended"},
           from = "none" => \E k \in Holders : holder[k] = "owner",
           to = "ready" => m_status # "idle", to = "blocked" => m_status = "idle",
           SharedProtocol, Moves(h, from, to)
    PROVE  SharedProtocol'
  <1>0. Maker \in Holders /\ Shared \in Results
    BY Zenon, TheyExist
  <1>1. SharedTypeOK /\ TypeOK /\ HoldersInv /\ OthersInv /\ EndsInv /\ FinishInv /\ ProgressInv
    BY Zenon DEF SharedProtocol, SharedTypeOK
  <1>e. /\ \A k \in Holders \ {h} : holder'[k] = holder[k]
        /\ holder[h] = from /\ holder'[h] = to
        /\ UNCHANGED <<vars, state, before, finish, dtor, history>>
    BY Zenon, <1>0, <1>1 DEF SharedTypeOK, TypeOK, Moves
  <1>a. /\ holder[Maker] \notin Early \cup {"finishing"} /\ holder'[Maker] \notin Early \cup {"finishing"}
        /\ dtor = "alive"
    BY Zenon, <1>0, <1>1, <1>e DEF HoldersInv, Inside
  <1>2. TypeOK'
    BY Zenon, <1>1, <1>e DEF TypeOK, vars
  <1>3. SharedTypeOK'
    BY <1>0, <1>1, <1>2 DEF SharedTypeOK, Moves, Statuses, HolderLabels, Inside
  <1>4. HoldersInv'
    BY Zenon, <1>0, <1>1, <1>a, <1>e DEF HoldersInv, Inside
  <1>8. OthersInv'
    BY Zenon, <1>1, <1>e DEF OthersInv, vars
  <1>5. EndsInv'
    BY Zenon, <1>1, <1>a, <1>e, EndsFrame
  <1>6. FinishInv'
    BY Zenon, <1>1, <1>a, <1>e, FinishFrame
  <1>7. ProgressInv'
    BY Zenon, <1>1, <1>e DEF ProgressInv, Inside, vars
  <1> QED
    BY Zenon, <1>3, <1>4, <1>5, <1>6, <1>7, <1>8 DEF SharedProtocol

\* The steps of a holder.
LEMMA HolderKeeps ==
    ASSUME NEW h \in Holders, SharedProtocol,
           \/ HolderCall(h) \/ HolderStep(h) \/ shared_await_cas(h)
           \/ shared_await_weak(h) \/ shared_wait_spurious(h) \/ shared_until_timed_out(h)
    PROVE  SharedProtocol'
  <1> USE DEF Inside
  <1>1. CASE shared_await(h)
    BY Zenon, <1>1, MoveKeeps DEF shared_await
  <1>2. CASE shared_wait(h)
    BY Zenon, <1>2, MoveKeeps DEF shared_wait
  <1>3. CASE shared_wait_until(h)
    BY Zenon, <1>3, MoveKeeps DEF shared_wait_until
  <1>4. CASE \E g \in Holders : copy(h, g)
    BY Zenon, <1>4, MoveKeeps DEF copy
  <1>5. CASE shared_get(h)
    BY Zenon, <1>5, MoveKeeps DEF shared_get
  <1>6. CASE shared_wait_load(h)
    <2>1. CASE m_status = "idle"
      BY Zenon, <1>6, <2>1, MoveKeeps DEF shared_wait_load
    <2>2. CASE m_status # "idle"
      BY Zenon, <1>6, <2>2, MoveKeeps DEF shared_wait_load
    <2> QED
      BY Zenon, <2>1, <2>2
  <1>7. CASE shared_wait_spurious(h)
    BY Zenon, <1>7, MoveKeeps DEF shared_wait_spurious
  <1>8. CASE shared_until_head(h)
    BY Zenon, <1>8, MoveKeeps DEF shared_until_head
  <1>9. CASE shared_until_timed_out(h)
    BY Zenon, <1>9, MoveKeeps DEF shared_until_timed_out
  <1>10. CASE shared_until_acquired(h)
    BY Zenon, <1>10, MoveKeeps DEF shared_until_acquired
  <1> QED
    BY Zenon, <1>1, <1>2, <1>3, <1>4, <1>5, <1>6, <1>7, <1>8, <1>9, <1>10,
       DropKeeps, AwaitLoadKeeps, AwaitCasKeeps, AwaitWeakKeeps DEF HolderCall, HolderStep

\* Every step preserves the invariant.
LEMMA ProtocolSteps == SharedProtocol /\ [SharedNext]_allVars => SharedProtocol'
  <1> SUFFICES ASSUME SharedProtocol, [SharedNext]_allVars PROVE SharedProtocol'
    BY Zenon
  <1>1. CASE Task
    BY Zenon, <1>1, TaskKeeps
  <1>2. CASE Producer
    <2>1. ~resume_consumer(Shared) /\ ~notify_one(Shared)
      BY Zenon DEF resume_consumer, notify_one, SharedProtocol, EndsInv
    <2> QED
      BY Zenon, <1>2, <2>1, CompleteProducerKeeps, ResumeDeletedKeeps, ResumeSharedKeeps DEF Producer, ProducerStep
  <1>3. CASE Finisher
    BY Zenon, <1>3, FinishStoreKeeps, FinishNotifyKeeps, FinishReleaseKeeps, FinishExchangeKeeps,
       FinishResumeKeeps, FinishEndKeeps DEF Finisher
  <1>4. CASE Destructor
    BY Zenon, <1>4, RewindLoadKeeps, RewindCasKeeps, RewindClearKeeps, ConsumerLoadKeeps,
       ConsumerExchangeKeeps DEF Destructor
  <1>5. CASE make_shared_result \/ Constructor
    BY Zenon, <1>5, MakeSharedKeeps, ShareLoadKeeps, SetContextKeeps, ShareCasKeeps DEF Constructor
  <1>6. CASE \E h \in Holders :
               \/ HolderCall(h) \/ HolderStep(h) \/ shared_await_cas(h)
               \/ shared_await_weak(h) \/ shared_wait_spurious(h) \/ shared_until_timed_out(h)
    BY Zenon, <1>6, HolderKeeps
  <1>7. CASE UNCHANGED allVars
    <2>1. UNCHANGED vars /\ UNCHANGED sharedVars
      BY Zenon, <1>7 DEF allVars
    <2>2. SharedTypeOK'
      BY Zenon, <2>1 DEF SharedProtocol, SharedTypeOK, TypeOK, vars, sharedVars
    <2>3. HoldersInv' /\ FinishInv'
      BY Zenon, <2>1 DEF SharedProtocol, HoldersInv, FinishInv, vars, sharedVars
    <2>4. EndsInv' /\ OthersInv'
      BY Zenon, <2>1 DEF SharedProtocol, EndsInv, OthersInv, vars, sharedVars
    <2>5. ProgressInv'
      BY Zenon, <2>1 DEF SharedProtocol, ProgressInv, vars, sharedVars
    <2> QED
      BY Zenon, <2>2, <2>3, <2>4, <2>5 DEF SharedProtocol
  <1> QED
    BY Zenon, <1>1, <1>2, <1>3, <1>4, <1>5, <1>6, <1>7 DEF SharedNext

-----------------------------------------------------------------------------
(* What it says of a shared_result.                                        *)

\* The invariant implies the properties.
LEMMA ProtocolImpliesSharedInv == SharedProtocol => SharedInv
  <1> SUFFICES ASSUME SharedProtocol PROVE SharedInv
    BY Zenon
  <1>0. Maker \in Holders /\ Shared \in Results
    BY Zenon, TheyExist
  <1>1. SharedTypeOK /\ HoldersInv /\ OthersInv /\ EndsInv /\ FinishInv /\ ProgressInv
    BY Zenon DEF SharedProtocol
  <1>2. FinishedOnce
    BY <1>1 DEF FinishInv, FinishedOnce
  <1>3. ReadyWhenRead
    <2> SUFFICES ASSUME NEW h \in Holders, holder[h] = "ready"
                 PROVE  /\ Done(Shared) /\ deletions[Shared] = 0
                        /\ m_status = producer_status[Shared] /\ m_status # "idle"
      BY Zenon DEF ReadyWhenRead
    <2>1. m_status = producer_status[Shared] /\ m_status # "idle"
      BY Zenon, <1>1 DEF ProgressInv
    <2>2. dtor = "alive" /\ holder[Maker] # "result"
      BY Zenon, <1>0, <1>1 DEF HoldersInv
    <2>3. consumer[Shared] = "shared"
      BY Zenon, <1>1, <2>2 DEF EndsInv
    <2>4. finishes = 1 \/ finisher \in {"producer", "maker"}
      BY Zenon, <1>1, <2>1 DEF ProgressInv, FinishInv, SharedTypeOK
    <2>5. Published(Shared)
      BY Zenon, <1>1, <2>4 DEF FinishInv
    <2> QED
      BY Zenon, <1>1, <2>1, <2>3, <2>5 DEF EndsInv
  <1>4. NoStrandedHolder
    <2> SUFFICES ASSUME producer[Shared] = "done", finisher = "none", holder[Maker] \notin Early,
                        NEW h \in Holders, holder[h] \in {"suspended", "blocked"}
                 PROVE  FALSE
      BY Zenon DEF NoStrandedHolder
    <2>1. dtor = "alive"
      BY Zenon, <1>1 DEF HoldersInv
    <2>2. finishes = 1 /\ fin = "none"
      BY Zenon, <1>1, <2>1 DEF FinishInv
    <2>3. m_awaiters = <<>> /\ awaiters = <<>> /\ m_status # "idle"
      BY Zenon, <1>1, <2>2 DEF ProgressInv
    <2>4. ~In(<<>>, h)
      BY DEF In
    <2> QED
      BY Zenon, <1>1, <2>2, <2>3, <2>4 DEF ProgressInv
  <1>5. DeletedExactlyOnce
    BY Zenon, <1>1 DEF EndsInv, OthersInv, DeletedExactlyOnce
  <1> QED
    BY Zenon, <1>1, <1>2, <1>3, <1>4, <1>5 DEF SharedInv

\* However the constructor, the producer, the holders and the destructor of the
\* shared state interleave, on_result_finished runs at most once, a holder that is
\* let through finds the value, nobody stays suspended or blocked when it has run,
\* and the result state is deleted exactly once (shared_result_state.cpp, and
\* share and try_rewind_consumer of result_state.cpp).
THEOREM SharedResultsAreFinishedOnce == SharedSpec => []SharedInv
  <1>1. SharedInit => SharedProtocol
    BY Zenon, ProtocolStarts
  <1>2. SharedProtocol /\ [SharedNext]_allVars => SharedProtocol'
    BY Zenon, ProtocolSteps
  <1>3. SharedProtocol => SharedInv
    BY Zenon, ProtocolImpliesSharedInv
  <1> QED
    BY <1>1, <1>2, <1>3, PTL DEF SharedSpec

\* Awaiters of a shared result are resumed in the order in which their CAS put
\* them in the list, each once, although the list is a stack that one exchange
\* takes whole (shared_result_state_base::on_result_finished).
THEOREM AwaitersAreResumedInOrder == SharedSpec => []ResumedInOrder
  <1>1. SharedInit => ResumedInOrder
    <2>1. Reverse(<<>>) = <<>>
      BY DEF Reverse
    <2> QED
      BY <2>1 DEF SharedInit, ResumedInOrder
  <1>2. ASSUME SharedProtocol, ResumedInOrder, [SharedNext]_allVars PROVE ResumedInOrder'
    <2>0. /\ m_awaiters \in Seq(Holders) /\ awaiters \in Seq(Holders)
          /\ queued \in Seq(Holders) /\ resumed \in Seq(Holders)
          /\ Reverse(m_awaiters) \in Seq(Holders)
      BY Zenon, <1>2, ReverseElements DEF SharedProtocol, SharedTypeOK
    <2>1. CASE finish_exchange
      <3>1. awaiters = <<>>
        BY Zenon, <1>2, <2>1 DEF SharedProtocol, ProgressInv, finish_exchange
      <3>2. Reverse(<<>>) = <<>>
        BY DEF Reverse
      <3>3. queued' = resumed \o <<>> \o Reverse(m_awaiters)
        BY Zenon, <1>2, <2>1, <3>1 DEF ResumedInOrder, finish_exchange
      <3>4. resumed \o <<>> \o Reverse(m_awaiters) = resumed \o Reverse(m_awaiters) \o <<>>
        BY <2>0
      <3> QED
        BY Zenon, <2>1, <3>2, <3>3, <3>4 DEF ResumedInOrder, finish_exchange
    <2>2. CASE finish_resume
      <3>1. queued' = resumed' \o awaiters' \o Reverse(m_awaiters)
        BY <1>2, <2>0, <2>2, HeadMovesOver DEF ResumedInOrder, finish_resume
      <3> QED
        BY Zenon, <2>2, <3>1 DEF ResumedInOrder, finish_resume
    <2>3. ASSUME NEW h \in Holders, shared_await_cas(h) PROVE ResumedInOrder'
      <3>1. CASE m_awaiters' = m_awaiters /\ queued' = queued
        BY Zenon, <1>2, <2>3, <3>1 DEF ResumedInOrder, shared_await_cas
      <3>2. CASE m_awaiters' = <<h>> \o m_awaiters /\ queued' = Append(queued, h)
        <4>1. Reverse(m_awaiters') = Append(Reverse(m_awaiters), h)
          BY Zenon, <2>0, <3>2, ReverseOfPushed
        <4>2. resumed \o awaiters \in Seq(Holders)
          BY <2>0
        <4> DEFINE a == resumed \o awaiters
                   b == Reverse(m_awaiters)
        <4>3. queued' = a \o Append(b, h)
          <5>1. a \in Seq(Holders) /\ b \in Seq(Holders)
            BY Zenon, <2>0, <4>2
          <5>2. queued' = Append(a \o b, h)
            BY Zenon, <1>2, <3>2 DEF ResumedInOrder
          <5> HIDE DEF a, b
          <5>3. Append(a \o b, h) = a \o Append(b, h)
            BY <5>1
          <5> QED
            BY Zenon, <5>2, <5>3
        <4> QED
          BY Zenon, <2>3, <4>1, <4>3 DEF ResumedInOrder, shared_await_cas
      <3> QED
        BY Zenon, <2>3, <3>1, <3>2 DEF shared_await_cas
    <2>4. CASE UNCHANGED <<queued, resumed, awaiters, m_awaiters>>
      BY Zenon, <1>2, <2>4 DEF ResumedInOrder
    <2>5. CASE Task \/ Producer
      BY Zenon, <2>4, <2>5 DEF Task, Producer, sharedVars, resume_shared_consumer
    <2>6. CASE finish_store \/ finish_notify \/ finish_release \/ finish_end
      BY Zenon, <2>4, <2>6 DEF finish_store, finish_notify, finish_release, finish_end
    <2>7. CASE Destructor
      BY Zenon, <2>4, <2>7 DEF Destructor, sharedVars, rewind_load, rewind_cas, rewind_clear
    <2>8. CASE make_shared_result \/ Constructor
      BY Zenon, <2>4, <2>8 DEF Constructor, make_shared_result, share_load, set_shared_context, share_cas,
                        MakerFinishes
    <2>9. ASSUME NEW h \in Holders,
                 \/ HolderCall(h) \/ HolderStep(h)
                 \/ shared_await_weak(h) \/ shared_wait_spurious(h) \/ shared_until_timed_out(h)
          PROVE  ResumedInOrder'
      BY Zenon, <2>4, <2>9 DEF HolderCall, HolderStep, shared_await_weak, shared_wait_spurious,
                        shared_until_timed_out, shared_await, shared_wait, shared_wait_until,
                        shared_drop, copy, shared_await_load, shared_get, shared_wait_load,
                        shared_until_head, shared_until_acquired, Moves
    <2>10. CASE UNCHANGED allVars
      BY Zenon, <2>4, <2>10 DEF allVars, sharedVars
    <2> QED
      BY Zenon, <1>2, <2>1, <2>2, <2>3, <2>5, <2>6, <2>7, <2>8, <2>9, <2>10 DEF SharedNext, Finisher
  <1> QED
    BY <1>1, <1>2, ProtocolStarts, ProtocolSteps, PTL DEF SharedSpec

===============================================================================
