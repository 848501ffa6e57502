------------------------------ MODULE ResultState ------------------------------
(***************************************************************************)
(* The rendezvous of one producer and one consumer over a result_state:    *)
(* the atomic m_pc_state, the consumer context it guards, the produced     *)
(* value or exception and the deletion of the shared state.                *)
(*                                                                         *)
(* A step is one access to m_pc_state, to the wait_for semaphore or to     *)
(* m_consumer.  Results are independent of each other here; the modules    *)
(* that compose several of them (WhenAny) or share one (SharedResult)      *)
(* extend this one.                                                        *)
(***************************************************************************)
EXTENDS Naturals

CONSTANT Results        \* the result_state objects

VARIABLES
    pc_state,           \* m_pc_state
    consumer_status,    \* m_consumer.m_status
    producer_status,    \* m_producer.m_status
    sem,                \* the binary semaphore of the latest wait_for call
    deletions,          \* how often delete_self ran on the state
    producer,           \* where the producer's thread is
    consumer,           \* where the consumer (a thread or a coroutine) is
    joining,            \* the call in progress takes the value and deletes
    ret                 \* the last status the consumer's calls returned

shared == <<pc_state, consumer_status, producer_status, sem, deletions>>
vars == <<pc_state, consumer_status, producer_status, sem, deletions,
          producer, consumer, joining, ret>>

PcStates == {"idle", "consumer_set", "consumer_waiting", "consumer_done",
             "producer_done"}
Statuses == {"idle", "value", "exception"}
ConsumerStatuses == {"idle", "await", "wait_for", "when_any", "shared"}

\* "running": no result yet.  "built": the value or the exception is in
\* m_producer.  "resume", "notify": published, with a consumer to wake up.
\* "try_resume": inside when_any_context::try_resume (WhenAny).
\* "undefined": m_consumer was read after the state was deleted.
ProducerLabels ==
    {"running", "built", "resume", "notify", "try_resume", "done", "undefined"}

\* "promise": still inside the result_promise.  "owner": a result object
\* holds the state and no call is in progress.  "gone": the object is empty.
ConsumerLabels ==
    {"promise", "owner", "gone", "joined",
     "wait", "wait_cas", "wait_loop", "wait_blocked",
     "await", "await_set", "await_cas", "suspended", "resumed",
     "wf", "wf_set", "wf_cas", "wf_acquire", "wf_rewind", "wf_clear",
     "drop", "drop_exchange", "any", "shared"}

\* The state of the two ends of each result: the semaphore of wait_for never
\* counts past one, and delete_self is reached at most once.
TypeOK ==
    /\ pc_state \in [Results -> PcStates]
    /\ consumer_status \in [Results -> ConsumerStatuses]
    /\ producer_status \in [Results -> Statuses]
    /\ sem \in [Results -> {0, 1}]
    /\ deletions \in [Results -> {0, 1}]
    /\ producer \in [Results -> ProducerLabels]
    /\ consumer \in [Results -> ConsumerLabels]
    /\ joining \in [Results -> BOOLEAN]
    /\ ret \in [Results -> Statuses \cup {"none"}]

Init ==
    /\ pc_state = [r \in Results |-> "idle"]
    /\ consumer_status = [r \in Results |-> "idle"]
    /\ producer_status = [r \in Results |-> "idle"]
    /\ sem = [r \in Results |-> 0]
    /\ deletions = [r \in Results |-> 0]
    /\ producer = [r \in Results |-> "running"]
    /\ consumer = [r \in Results |-> "promise"]
    /\ joining = [r \in Results |-> FALSE]
    /\ ret = [r \in Results |-> "none"]

-----------------------------------------------------------------------------
(* Steps from one label to the next.                                       *)

ConsumerGoes(r, from, to) ==
    /\ consumer[r] = from
    /\ consumer' = [consumer EXCEPT ![r] = to]

ProducerGoes(r, from, to) ==
    /\ producer[r] = from
    /\ producer' = [producer EXCEPT ![r] = to]

\* The CAS m_pc_state: old -> new, when it succeeds.
Cas(r, old, new) ==
    /\ pc_state[r] = old
    /\ pc_state' = [pc_state EXCEPT ![r] = new]

Done(r) == pc_state[r] = "producer_done"

delete_self(r) == deletions' = [deletions EXCEPT ![r] = @ + 1]

Returns(r, status) == ret' = [ret EXCEPT ![r] = status]

-----------------------------------------------------------------------------
(* The producer: a result_promise or a coroutine that ends.                *)

\* set_result, set_exception, from_callable, break_task_if_needed, or the
\* coroutine's return_value / unhandled_exception.
Produce(r, status) ==
    /\ ProducerGoes(r, "running", "built")
    /\ producer_status' = [producer_status EXCEPT ![r] = status]
    /\ UNCHANGED <<pc_state, consumer_status, sem, deletions, consumer, joining, ret>>

\* Mutant: the thread blocked in m_pc_state.wait is not notified.
complete_producer_unnotified(r) ==
    /\ pc_state' = [pc_state EXCEPT ![r] = "producer_done"]
    /\ ProducerGoes(r, "built", IF pc_state[r] = "consumer_set" THEN "resume" ELSE "done")
    /\ IF pc_state[r] = "consumer_done" THEN delete_self(r) ELSE UNCHANGED deletions
    /\ UNCHANGED <<consumer_status, producer_status, sem, consumer, joining, ret>>

complete_producer(r) ==
    /\ pc_state' = [pc_state EXCEPT ![r] = "producer_done"]
    /\ \/ /\ pc_state[r] = "consumer_set"
          /\ ProducerGoes(r, "built", "resume")
          /\ UNCHANGED deletions
       \/ /\ pc_state[r] = "idle"
          /\ ProducerGoes(r, "built", "done")
          /\ UNCHANGED deletions
       \/ /\ pc_state[r] = "consumer_waiting"
          /\ ProducerGoes(r, "built", "notify")
          /\ UNCHANGED deletions
       \/ /\ pc_state[r] = "consumer_done"
          /\ ProducerGoes(r, "built", "done")
          /\ delete_self(r)
    /\ UNCHANGED <<consumer_status, producer_status, sem, consumer, joining, ret>>

\* resume_consumer runs the awaiting coroutine, or releases the semaphore
\* that a wait_for call is (or was) blocked on.
resume_consumer(r) ==
    /\ deletions[r] = 0
    /\ consumer_status[r] \notin {"when_any", "shared"}
    /\ ProducerGoes(r, "resume", "done")
    /\ consumer' = [consumer EXCEPT ![r] =
                      IF consumer_status[r] = "await" THEN "resumed" ELSE @]
    /\ sem' = [sem EXCEPT ![r] = IF consumer_status[r] = "wait_for" THEN 1 ELSE @]
    /\ UNCHANGED <<pc_state, consumer_status, producer_status, deletions, joining, ret>>

\* The read of m_consumer happens after the state was deleted: undefined
\* behaviour, after which the model lets the producer do nothing more.
resume_deleted_consumer(r) ==
    /\ deletions[r] > 0
    /\ ProducerGoes(r, "resume", "undefined")
    /\ UNCHANGED <<shared, consumer, joining, ret>>

\* m_pc_state.notify_one() unblocks the thread blocked in m_pc_state.wait().
\* It uses the address of the atomic only.
notify_one(r) ==
    /\ ProducerGoes(r, "notify", "done")
    /\ consumer' = [consumer EXCEPT ![r] = IF @ = "wait_blocked" THEN "wait_loop" ELSE @]
    /\ UNCHANGED <<shared, joining, ret>>

-----------------------------------------------------------------------------
(* result_promise: taking the result out, and destroying both ends.        *)

\* get_result throws when the promise has published (throw_if_empty) or the
\* result was taken before.
get_result(r) ==
    /\ producer[r] = "running"
    /\ ConsumerGoes(r, "promise", "owner")
    /\ UNCHANGED <<shared, producer, joining, ret>>

\* The destructor of a promise whose result was never taken.  Published: the
\* consumer end is dropped.  Not published: break_task_if_needed returns, the
\* consumer end is dropped first and complete_producer then deletes.
destroy_promise(r) ==
    /\ \/ /\ producer[r] = "done"
          /\ ConsumerGoes(r, "promise", "drop")
          /\ UNCHANGED <<pc_state, deletions, producer>>
       \/ /\ ProducerGoes(r, "running", "done")
          /\ ConsumerGoes(r, "promise", "gone")
          /\ pc_state' = [pc_state EXCEPT ![r] = "producer_done"]
          /\ delete_self(r)
    /\ UNCHANGED <<consumer_status, producer_status, sem, joining, ret>>

\* make_ready_result and make_exceptional_result: the producer end publishes and
\* goes before anybody has the result.
make_ready_result(r) ==
    /\ ProducerGoes(r, "running", "done")
    /\ ConsumerGoes(r, "promise", "owner")
    /\ \E s \in {"value", "exception"} : producer_status' = [producer_status EXCEPT ![r] = s]
    /\ pc_state' = [pc_state EXCEPT ![r] = "producer_done"]
    /\ UNCHANGED <<consumer_status, sem, deletions, joining, ret>>

-----------------------------------------------------------------------------
(* result::wait and result::get.                                           *)

\* Leaving wait() with a ready result: result::wait returns to its caller,
\* result::get goes on to take the value.
AfterWait(r) == IF joining[r] THEN "joined" ELSE "owner"

wait(r, join) ==
    /\ ConsumerGoes(r, "owner", "wait")
    /\ joining' = [joining EXCEPT ![r] = join]
    /\ UNCHANGED <<shared, producer, ret>>

wait_load(r) ==
    /\ ConsumerGoes(r, "wait", IF Done(r) THEN AfterWait(r) ELSE "wait_cas")
    /\ UNCHANGED <<shared, producer, joining, ret>>

wait_cas(r) ==
    /\ \/ /\ Cas(r, "idle", "consumer_waiting")
          /\ ConsumerGoes(r, "wait_cas", "wait_loop")
       \/ /\ pc_state[r] # "idle"
          /\ ConsumerGoes(r, "wait_cas", AfterWait(r))
          /\ UNCHANGED pc_state
    /\ UNCHANGED <<consumer_status, producer_status, sem, deletions, producer, joining, ret>>

\* The load of the loop and the comparison of m_pc_state.wait: the thread
\* leaves the loop, or blocks while the state is still consumer_waiting.
wait_loop(r) ==
    /\ ConsumerGoes(r, "wait_loop", IF Done(r) THEN AfterWait(r) ELSE "wait_blocked")
    /\ UNCHANGED <<shared, producer, joining, ret>>

\* A blocked atomic wait may be unblocked spuriously.
wait_spurious(r) ==
    /\ ConsumerGoes(r, "wait_blocked", "wait_loop")
    /\ UNCHANGED <<shared, producer, joining, ret>>

\* get() of a joined consumer: reads m_producer, then deletes the state.
joined_get(r) ==
    /\ ConsumerGoes(r, "joined", "gone")
    /\ Returns(r, producer_status[r])
    /\ delete_self(r)
    /\ UNCHANGED <<pc_state, consumer_status, producer_status, sem, producer, joining>>

-----------------------------------------------------------------------------
(* co_await and result::resolve.                                           *)

AfterAwait(r) == IF joining[r] THEN "joined" ELSE "owner"

await(r, join) ==
    /\ ConsumerGoes(r, "owner", "await")
    /\ joining' = [joining EXCEPT ![r] = join]
    /\ UNCHANGED <<shared, producer, ret>>

await_load(r) ==
    /\ ConsumerGoes(r, "await", IF Done(r) THEN AfterAwait(r) ELSE "await_set")
    /\ UNCHANGED <<shared, producer, joining, ret>>

set_await_handle(r) ==
    /\ ConsumerGoes(r, "await_set", "await_cas")
    /\ consumer_status' = [consumer_status EXCEPT ![r] = "await"]
    /\ UNCHANGED <<pc_state, producer_status, sem, deletions, producer, joining, ret>>

\* Mutant: await returns true although the CAS failed.
await_cas_suspends(r) ==
    /\ pc_state' = [pc_state EXCEPT ![r] = IF @ = "idle" THEN "consumer_set" ELSE @]
    /\ ConsumerGoes(r, "await_cas", "suspended")
    /\ UNCHANGED <<consumer_status, producer_status, sem, deletions, producer, joining, ret>>

await_cas(r) ==
    /\ \/ /\ Cas(r, "idle", "consumer_set")
          /\ ConsumerGoes(r, "await_cas", "suspended")
       \/ /\ pc_state[r] # "idle"
          /\ ConsumerGoes(r, "await_cas", AfterAwait(r))
          /\ UNCHANGED pc_state
    /\ UNCHANGED <<consumer_status, producer_status, sem, deletions, producer, joining, ret>>

await_resume(r) ==
    /\ ConsumerGoes(r, "resumed", AfterAwait(r))
    /\ UNCHANGED <<shared, producer, joining, ret>>

-----------------------------------------------------------------------------
(* result::status, result::wait_for and result::wait_until.                *)

status(r) ==
    /\ consumer[r] = "owner"
    /\ Returns(r, IF pc_state[r] = "idle" THEN "idle" ELSE producer_status[r])
    /\ UNCHANGED <<shared, producer, consumer, joining>>

wait_for(r) ==
    /\ ConsumerGoes(r, "owner", "wf")
    /\ UNCHANGED <<shared, producer, joining, ret>>

\* wait_until asks for the status when the time point has passed already.
wait_until(r) == status(r) \/ wait_for(r)

wait_for_load(r) ==
    /\ \/ /\ Done(r)
          /\ ConsumerGoes(r, "wf", "owner")
          /\ Returns(r, producer_status[r])
       \/ /\ ~Done(r)
          /\ ConsumerGoes(r, "wf", "wf_set")
          /\ UNCHANGED ret
    /\ UNCHANGED <<shared, producer, joining>>

set_wait_for_context(r) ==
    /\ ConsumerGoes(r, "wf_set", "wf_cas")
    /\ consumer_status' = [consumer_status EXCEPT ![r] = "wait_for"]
    /\ sem' = [sem EXCEPT ![r] = 0]
    /\ UNCHANGED <<pc_state, producer_status, deletions, producer, joining, ret>>

wait_for_cas(r) ==
    /\ \/ /\ Cas(r, "idle", "consumer_set")
          /\ ConsumerGoes(r, "wf_cas", "wf_acquire")
          /\ UNCHANGED ret
       \/ /\ pc_state[r] # "idle"
          /\ ConsumerGoes(r, "wf_cas", "owner")
          /\ Returns(r, producer_status[r])
          /\ UNCHANGED pc_state
    /\ UNCHANGED <<consumer_status, producer_status, sem, deletions, producer, joining>>

wait_for_acquired(r) ==
    /\ sem[r] = 1
    /\ sem' = [sem EXCEPT ![r] = 0]
    /\ ConsumerGoes(r, "wf_acquire", "owner")
    /\ Returns(r, producer_status[r])
    /\ UNCHANGED <<pc_state, consumer_status, producer_status, deletions, producer, joining>>

\* try_acquire_for may time out just as the semaphore is released.
wait_for_timed_out(r) ==
    /\ ConsumerGoes(r, "wf_acquire", "wf_rewind")
    /\ UNCHANGED <<shared, producer, joining, ret>>

\* Mutant: the CAS is a store, so the context is cleared under the producer.
wait_for_rewind_stored(r) ==
    /\ pc_state' = [pc_state EXCEPT ![r] = "idle"]
    /\ ConsumerGoes(r, "wf_rewind", "wf_clear")
    /\ UNCHANGED <<consumer_status, producer_status, sem, deletions, producer, joining, ret>>

\* Mutant: a wait_for that timed out answers idle although the CAS failed.
wait_for_rewind_stale(r) ==
    /\ \/ /\ Cas(r, "consumer_set", "idle")
          /\ ConsumerGoes(r, "wf_rewind", "wf_clear")
          /\ UNCHANGED ret
       \/ /\ pc_state[r] # "consumer_set"
          /\ ConsumerGoes(r, "wf_rewind", "owner")
          /\ Returns(r, "idle")
          /\ UNCHANGED pc_state
    /\ UNCHANGED <<consumer_status, producer_status, sem, deletions, producer, joining>>

wait_for_rewind(r) ==
    /\ \/ /\ Cas(r, "consumer_set", "idle")
          /\ ConsumerGoes(r, "wf_rewind", "wf_clear")
          /\ UNCHANGED ret
       \/ /\ pc_state[r] # "consumer_set"
          /\ ConsumerGoes(r, "wf_rewind", "owner")
          /\ Returns(r, producer_status[r])
          /\ UNCHANGED pc_state
    /\ UNCHANGED <<consumer_status, producer_status, sem, deletions, producer, joining>>

wait_for_clear(r) ==
    /\ ConsumerGoes(r, "wf_clear", "owner")
    /\ consumer_status' = [consumer_status EXCEPT ![r] = "idle"]
    /\ Returns(r, "idle")
    /\ UNCHANGED <<pc_state, producer_status, sem, deletions, producer, joining>>

-----------------------------------------------------------------------------
(* The destructor of a result: complete_consumer.                          *)

drop(r) ==
    /\ ConsumerGoes(r, "owner", "drop")
    /\ UNCHANGED <<shared, producer, joining, ret>>

complete_consumer_load(r) ==
    /\ \/ /\ Done(r)
          /\ ConsumerGoes(r, "drop", "gone")
          /\ delete_self(r)
       \/ /\ ~Done(r)
          /\ ConsumerGoes(r, "drop", "drop_exchange")
          /\ UNCHANGED deletions
    /\ UNCHANGED <<pc_state, consumer_status, producer_status, sem, producer, joining, ret>>

\* Mutant: the consumer leaves the deletion to the producer in every case.
complete_consumer_exchange_leaking(r) ==
    /\ ConsumerGoes(r, "drop_exchange", "gone")
    /\ pc_state' = [pc_state EXCEPT ![r] = "consumer_done"]
    /\ UNCHANGED <<consumer_status, producer_status, sem, deletions, producer, joining, ret>>

complete_consumer_exchange(r) ==
    /\ ConsumerGoes(r, "drop_exchange", "gone")
    /\ pc_state' = [pc_state EXCEPT ![r] = "consumer_done"]
    /\ IF Done(r) THEN delete_self(r) ELSE UNCHANGED deletions
    /\ UNCHANGED <<consumer_status, producer_status, sem, producer, joining, ret>>

-----------------------------------------------------------------------------

TaskEnds(r) == \E s \in {"value", "exception"} : Produce(r, s)

ProducerStep(r) ==
    \/ complete_producer(r) \/ resume_consumer(r) \/ resume_deleted_consumer(r)
    \/ notify_one(r)

\* What the client of the result or the promise chooses to do.
ClientCall(r) ==
    \/ get_result(r) \/ destroy_promise(r) \/ make_ready_result(r) \/ drop(r)
    \/ \E join \in BOOLEAN : wait(r, join) \/ await(r, join)
    \/ wait_for(r) \/ wait_until(r) \/ status(r)

\* The steps of a call in progress.
ConsumerStep(r) ==
    \/ wait_load(r) \/ wait_cas(r) \/ wait_loop(r) \/ joined_get(r)
    \/ await_load(r) \/ set_await_handle(r) \/ await_cas(r) \/ await_resume(r)
    \/ wait_for_load(r) \/ set_wait_for_context(r) \/ wait_for_cas(r)
    \/ wait_for_acquired(r) \/ wait_for_timed_out(r)
    \/ wait_for_rewind(r) \/ wait_for_clear(r)
    \/ complete_consumer_load(r) \/ complete_consumer_exchange(r)

Next == \E r \in Results :
    \/ TaskEnds(r) \/ ProducerStep(r)
    \/ ClientCall(r) \/ ConsumerStep(r) \/ wait_spurious(r)

Spec == Init /\ [][Next]_vars

\* Tasks end, and threads that can go on do: nothing is assumed of what the
\* client calls, of spurious wake-ups, or of when a wait_for times out.
Fairness == \A r \in Results :
    /\ WF_vars(TaskEnds(r))
    /\ WF_vars(ProducerStep(r))
    /\ WF_vars(ConsumerStep(r))

FairSpec == Spec /\ Fairness

-----------------------------------------------------------------------------
(* Properties.                                                             *)

Published(r) == producer[r] \notin {"running", "built"}

\* The assertions of the code hold wherever the code makes them: a context is
\* only set over an idle one (consumer_context.cpp), a failed CAS or exchange
\* means that the producer is done (assert_done), the value that is read has
\* been built, the producer publishes once, and result::status never sees
\* consumer_set.
AssertionsHold == \A r \in Results :
    /\ consumer[r] \in {"await_set", "wf_set"} => consumer_status[r] = "idle"
    /\ consumer[r] \in {"owner", "wait_cas", "await_cas", "wf_cas", "drop_exchange"} =>
          pc_state[r] \in {"idle", "producer_done"}
    /\ consumer[r] = "wf_rewind" => pc_state[r] \in {"consumer_set", "producer_done"}
    /\ consumer[r] \in {"joined", "resumed"} =>
          Done(r) /\ producer_status[r] # "idle"
    /\ consumer[r] = "wf_acquire" /\ sem[r] = 1 => Done(r)
    /\ producer[r] = "running" => producer_status[r] = "idle"
    /\ producer[r] = "built" => ~Done(r) /\ producer_status[r] # "idle"

\* The consumer context is not atomic: while the producer is about to read it
\* in resume_consumer, the consumer is never about to set or to clear it.
ContextRaceFree == \A r \in Results :
    producer[r] = "resume" =>
        consumer[r] \notin {"await_set", "wf_set", "wf_clear"}

\* The state is deleted once, by whichever end finishes last, and it is
\* deleted as soon as both ends have finished: no leak, no double delete.
DeletedExactlyOnce == \A r \in Results :
    deletions[r] = IF consumer[r] = "gone" /\ Published(r) THEN 1 ELSE 0

\* When the producer has nothing left to do, no consumer is left suspended,
\* blocked in the atomic wait, or waiting on a semaphore nobody will release.
NoLostWakeUp == \A r \in Results :
    producer[r] = "done" =>
        /\ consumer[r] \notin {"suspended", "wait_blocked"}
        /\ consumer[r] = "wf_acquire" => sem[r] = 1

\* The labels at which the consumer has not registered itself in m_pc_state.
Unregistered ==
    {"promise", "owner", "wait", "wait_cas", "await", "await_set", "await_cas",
     "wf", "wf_set", "wf_cas", "wf_clear", "drop", "drop_exchange"}

\* The labels at which the consumer may be once it has seen producer_done.
SeesDone == {"owner", "wait", "await", "wf", "drop", "joined", "gone"}

\* How the two ends and the state between them relate: the strengthening of
\* the safety properties that every step of the protocol preserves.
Protocol(r) ==
    /\ producer[r] = "running" <=> ~Published(r) /\ producer_status[r] = "idle"
    \* Who has touched m_pc_state last.
    /\ IF Published(r)
       THEN Done(r) \/ (pc_state[r] = "consumer_done" /\ consumer[r] = "gone")
       ELSE /\ ~Done(r)
            /\ consumer[r] \in Unregistered <=> pc_state[r] = "idle"
            /\ consumer[r] \in {"wait_loop", "wait_blocked"} <=> pc_state[r] = "consumer_waiting"
            /\ consumer[r] \in {"suspended", "wf_acquire", "wf_rewind"} <=>
                  pc_state[r] = "consumer_set"
            /\ consumer[r] = "gone" <=> pc_state[r] = "consumer_done"
    \* What m_consumer holds.
    /\ consumer[r] \in {"promise", "await_set", "wf_set"} => consumer_status[r] = "idle"
    /\ consumer[r] \in Unregistered \ {"await_cas", "wf_cas", "wf_clear"} /\ ~Done(r) =>
          consumer_status[r] = "idle"
    /\ consumer[r] \in {"await_cas", "suspended"} => consumer_status[r] = "await"
    /\ consumer[r] \in {"wf_cas", "wf_acquire", "wf_rewind", "wf_clear"} =>
          consumer_status[r] = "wait_for"
    \* What each kind of publication leaves to be done.
    /\ producer[r] = "resume" =>
          \/ consumer_status[r] = "await" /\ consumer[r] = "suspended"
          \/ consumer_status[r] = "wait_for"
             /\ consumer[r] \in SeesDone \cup {"wf_acquire", "wf_rewind"}
    /\ producer[r] = "notify" => consumer[r] \in SeesDone \cup {"wait_loop", "wait_blocked"}
    /\ producer[r] = "done" => consumer[r] \notin {"suspended", "wait_blocked"}
    /\ producer[r] = "done" /\ consumer[r] = "wf_acquire" => sem[r] = 1
    /\ producer[r] = "undefined" => consumer[r] = "gone"
    /\ sem[r] = 1 => producer[r] = "done" \/ consumer[r] = "gone"
    \* What the consumer knows.
    /\ consumer[r] \in {"joined", "resumed"} => Done(r)
    /\ Published(r) /\ producer_status[r] = "idle" => consumer[r] = "gone"
    /\ deletions[r] = IF consumer[r] = "gone" /\ Published(r) THEN 1 ELSE 0
    /\ consumer[r] \notin {"any", "shared"} /\ consumer_status[r] \notin {"when_any", "shared"}
    /\ producer[r] # "try_resume"

\* The inductive invariant.
Inv == TypeOK /\ \A r \in Results : Protocol(r)

\* Every call on a result comes to an end: get, wait, co_await and resolve
\* once the task has ended, wait_for and the destructor in any case.
CallsReturn == \A r \in Results :
    consumer[r] \notin {"promise", "owner", "gone"} ~> consumer[r] \in {"owner", "gone"}

\* The result as its client sees it.
Outcome == [r \in Results |->
    IF Published(r) /\ producer_status[r] # "idle" THEN producer_status[r] ELSE "pending"]

ClientAt(label) ==
    IF label \in {"promise", "owner", "drop", "drop_exchange"} THEN "holding"
    ELSE IF label = "wf_clear" THEN "timed_out"
    ELSE IF label = "gone" THEN "finished"
    ELSE "calling"

Client == [r \in Results |-> ClientAt(consumer[r])]

Abstract == INSTANCE AsyncResult WITH
    outcome <- Outcome, client <- Client, answer <- ret

\* The protocol implements AsyncResult: the outcome is published once, calls
\* answer with that outcome, and wait_for answers "idle" only if the result
\* was still pending when it gave up.
ImplementsAsyncResult == Abstract!Spec

=============================================================================
