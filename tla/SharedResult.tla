----------------------------- MODULE SharedResult -----------------------------
(***************************************************************************)
(* shared_result: a result whose state is moved into a shared_result_state *)
(* that many threads and coroutines hold.  Its consumer context is a weak  *)
(* pointer to that shared state; whoever finds the result ready first, the *)
(* producer or the constructor, runs on_result_finished, which publishes   *)
(* the status, releases the threads that wait and closes the lock-free     *)
(* list of awaiters to resume them in the order in which they came.        *)
(*                                                                         *)
(* A holder is a thread or a coroutine with a shared_result (or an         *)
(* awaitable) of its own, that is, with a reference to the shared state.   *)
(* m_semaphore is released by half of its range, which no number of        *)
(* waiting threads uses up: it is a Boolean.                               *)
(***************************************************************************)
EXTENDS ResultState, Sequences

CONSTANTS
    Holders,
    Maker,          \* the holder that makes the shared_result from the result
    Shared          \* the result

ASSUME TheyExist == Maker \in Holders /\ Shared \in Results

VARIABLES
    m_status, m_semaphore,
    m_awaiters,     \* the list, newest first
    ready,          \* m_awaiters is result_ready_constant
    holder,         \* where each holder is
    before,         \* awaiter_before of its await
    finisher,       \* who is in on_result_finished, and where
    fin,
    awaiters,       \* the list that it resumes
    finishes,       \* how often on_result_finished has ended
    dtor,           \* where the destructor of the shared state is
    queued,         \* the holders that were put in the list, in this order
    resumed         \* the holders that were resumed, in this order

state == <<m_status, m_semaphore, m_awaiters, ready>>
finish == <<finisher, fin, awaiters, finishes>>
history == <<queued, resumed>>
sharedVars == <<state, holder, before, finish, dtor, history>>
allVars == <<vars, sharedVars>>

HolderLabels ==
    {"none", "result", "share_load", "share_set", "share_cas", "finishing", "owner",
     "await", "await_cas", "suspended", "wait", "blocked", "until", "until_acquire",
     "ready", "gone"}

\* The state of the result, of the shared state on top of it and of the calls.
SharedTypeOK ==
    /\ TypeOK
    /\ m_status \in Statuses /\ m_semaphore \in BOOLEAN /\ ready \in BOOLEAN
    /\ m_awaiters \in Seq(Holders) /\ awaiters \in Seq(Holders)
    /\ holder \in [Holders -> HolderLabels]
    /\ before \in [Holders -> Seq(Holders)]
    /\ finisher \in {"none", "producer", "maker"}
    /\ fin \in {"none", "store", "notify", "release", "exchange", "resume"}
    /\ finishes \in Nat
    /\ dtor \in {"alive", "rewind", "rewind_cas", "rewind_clear", "reset"}
    /\ queued \in Seq(Holders) /\ resumed \in Seq(Holders)

SharedInit ==
    /\ pc_state = [r \in Results |-> "idle"]
    /\ consumer_status = [r \in Results |-> "idle"]
    /\ producer_status = [r \in Results |-> "idle"]
    /\ sem = [r \in Results |-> 0]
    /\ deletions = [r \in Results |-> 0]
    /\ producer = [r \in Results |-> "running"]
    /\ consumer = [r \in Results |-> "owner"]
    /\ joining = [r \in Results |-> FALSE]
    /\ ret = [r \in Results |-> "none"]
    /\ m_status = "idle" /\ m_semaphore = FALSE
    /\ m_awaiters = <<>> /\ ready = FALSE
    /\ holder = [h \in Holders |-> IF h = Maker THEN "result" ELSE "none"]
    /\ before = [h \in Holders |-> <<>>]
    /\ finisher = "none" /\ fin = "none" /\ awaiters = <<>> /\ finishes = 0
    /\ dtor = "alive"
    /\ queued = <<>> /\ resumed = <<>>

HolderGoes(h, from, to) == holder[h] = from /\ holder' = [holder EXCEPT ![h] = to]

\* The references to the shared state, the one of the producer included.
Owners == {h \in Holders : holder[h] \notin {"none", "result", "gone"}}
Expires(owners, locked) == IF owners = {} /\ ~locked THEN "rewind" ELSE dtor

-----------------------------------------------------------------------------
(* The constructor: shared_result(result) and result_state_base::share.    *)

make_shared_result ==
    /\ HolderGoes(Maker, "result", "share_load")
    /\ ConsumerGoes(Shared, "owner", "shared")
    /\ UNCHANGED <<shared, producer, joining, ret, state, before, finish, dtor, history>>

MakerFinishes ==
    /\ holder' = [holder EXCEPT ![Maker] = "finishing"]
    /\ finisher' = "maker" /\ fin' = "store"
    /\ UNCHANGED <<awaiters, finishes>>

share_load ==
    /\ holder[Maker] = "share_load"
    /\ \/ Done(Shared) /\ MakerFinishes
       \/ ~Done(Shared) /\ HolderGoes(Maker, "share_load", "share_set") /\ UNCHANGED finish
    /\ UNCHANGED <<vars, state, before, dtor, history>>

set_shared_context ==
    /\ HolderGoes(Maker, "share_set", "share_cas")
    /\ consumer_status' = [consumer_status EXCEPT ![Shared] = "shared"]
    /\ UNCHANGED <<pc_state, producer_status, sem, deletions, producer, consumer, joining, ret>>
    /\ UNCHANGED <<state, before, finish, dtor, history>>

\* Mutant: on_result_finished is called although the producer will call it.
share_cas_again ==
    /\ holder[Maker] = "share_cas"
    /\ MakerFinishes
    /\ pc_state' = [pc_state EXCEPT ![Shared] = IF @ = "idle" THEN "consumer_set" ELSE @]
    /\ UNCHANGED <<consumer_status, producer_status, sem, deletions, producer, consumer, joining, ret>>
    /\ UNCHANGED <<state, before, dtor, history>>

share_cas ==
    /\ holder[Maker] = "share_cas"
    /\ \/ /\ Cas(Shared, "idle", "consumer_set")
          /\ HolderGoes(Maker, "share_cas", "owner")
          /\ UNCHANGED finish
       \/ /\ pc_state[Shared] # "idle"
          /\ MakerFinishes
          /\ UNCHANGED pc_state
    /\ UNCHANGED <<consumer_status, producer_status, sem, deletions, producer, consumer, joining, ret>>
    /\ UNCHANGED <<state, before, dtor, history>>

-----------------------------------------------------------------------------
(* The producer's side, and on_result_finished.                            *)

\* resume_consumer locks the weak pointer, which fails once the last holder
\* has gone.
resume_shared_consumer ==
    /\ producer[Shared] = "resume" /\ deletions[Shared] = 0
    /\ consumer_status[Shared] = "shared" /\ finisher = "none"
    /\ \/ /\ dtor = "alive"
          /\ finisher' = "producer" /\ fin' = "store"
          /\ UNCHANGED producer
       \/ /\ dtor # "alive"
          /\ ProducerGoes(Shared, "resume", "done")
          /\ UNCHANGED <<finisher, fin>>
    /\ UNCHANGED <<shared, consumer, joining, ret>>
    /\ UNCHANGED <<state, holder, before, awaiters, finishes, dtor, history>>

FinGoes(from, to) == fin = from /\ fin' = to /\ UNCHANGED <<finisher, finishes>>

finish_store ==
    /\ FinGoes("store", "notify")
    /\ m_status' = IF pc_state[Shared] = "idle" THEN "idle" ELSE producer_status[Shared]
    /\ UNCHANGED <<vars, m_semaphore, m_awaiters, ready, holder, before, awaiters, dtor, history>>

\* m_status.notify_all()
finish_notify ==
    /\ FinGoes("notify", "release")
    /\ holder' = [h \in Holders |-> IF holder[h] = "blocked" THEN "wait" ELSE holder[h]]
    /\ UNCHANGED <<vars, state, before, awaiters, dtor, history>>

finish_release ==
    /\ FinGoes("release", "exchange")
    /\ m_semaphore' = TRUE
    /\ UNCHANGED <<vars, m_status, m_awaiters, ready, holder, before, awaiters, dtor, history>>

\* The loop that turns the list, newest first, into the order of arrival.
Reverse(list) == [i \in 1 .. Len(list) |-> list[Len(list) + 1 - i]]

\* Mutant: the list is not reversed.
finish_exchange_unreversed ==
    /\ FinGoes("exchange", "resume")
    /\ awaiters' = m_awaiters
    /\ m_awaiters' = <<>> /\ ready' = TRUE
    /\ UNCHANGED <<vars, m_status, m_semaphore, holder, before, dtor, history>>

finish_exchange ==
    /\ FinGoes("exchange", "resume")
    /\ awaiters' = Reverse(m_awaiters)
    /\ m_awaiters' = <<>> /\ ready' = TRUE
    /\ UNCHANGED <<vars, m_status, m_semaphore, holder, before, dtor, history>>

finish_resume ==
    /\ awaiters # <<>>
    /\ FinGoes("resume", "resume")
    /\ HolderGoes(Head(awaiters), "suspended", "ready")
    /\ resumed' = Append(resumed, Head(awaiters))
    /\ awaiters' = Tail(awaiters)
    /\ UNCHANGED <<vars, state, before, dtor, queued>>

\* The producer lets go of the shared state when it leaves.
finish_end ==
    /\ fin = "resume" /\ awaiters = <<>>
    /\ finisher' = "none" /\ fin' = "none" /\ finishes' = finishes + 1
    /\ \/ /\ finisher = "producer"
          /\ ProducerGoes(Shared, "resume", "done")
          /\ dtor' = Expires(Owners, FALSE)
          /\ UNCHANGED holder
       \/ /\ finisher = "maker"
          /\ HolderGoes(Maker, "finishing", "owner")
          /\ UNCHANGED <<producer, dtor>>
    /\ UNCHANGED <<shared, consumer, joining, ret, state, before, awaiters, history>>

-----------------------------------------------------------------------------
(* What holders do: copy, co_await and resolve, wait and get, wait_until.  *)

\* A holder's step that changes nothing but where it is.
Moves(h, from, to) ==
    /\ HolderGoes(h, from, to)
    /\ UNCHANGED <<vars, state, before, finish, dtor, history>>

copy(h, g) == holder[h] = "owner" /\ Moves(g, "none", "owner")

shared_await(h) == Moves(h, "owner", "await")

shared_await_load(h) ==
    /\ \/ ready /\ HolderGoes(h, "await", "ready") /\ UNCHANGED before
       \/ /\ ~ready
          /\ HolderGoes(h, "await", "await_cas")
          /\ before' = [before EXCEPT ![h] = m_awaiters]
    /\ UNCHANGED <<vars, state, finish, dtor, history>>

\* Mutant: the list is stored over whatever is there.
shared_await_cas_stored(h) ==
    /\ HolderGoes(h, "await_cas", "suspended")
    /\ m_awaiters' = <<h>> \o before[h]
    /\ queued' = Append(queued, h)
    /\ before' = [before EXCEPT ![h] = <<>>]
    /\ UNCHANGED <<vars, m_status, m_semaphore, ready, finish, dtor, resumed>>

shared_await_cas(h) ==
    /\ \/ /\ ~ready /\ m_awaiters = before[h]
          /\ HolderGoes(h, "await_cas", "suspended")
          /\ m_awaiters' = <<h>> \o before[h]
          /\ queued' = Append(queued, h)
       \/ /\ ready \/ m_awaiters # before[h]
          /\ HolderGoes(h, "await_cas", "await")
          /\ UNCHANGED <<m_awaiters, queued>>
    /\ before' = [before EXCEPT ![h] = <<>>]
    /\ UNCHANGED <<vars, m_status, m_semaphore, ready, finish, dtor, resumed>>

\* compare_exchange_weak may fail for no reason.
shared_await_weak(h) ==
    /\ HolderGoes(h, "await_cas", "await")
    /\ before' = [before EXCEPT ![h] = <<>>]
    /\ UNCHANGED <<vars, state, finish, dtor, history>>

\* await_resume, or what follows the wait in get: the value is read.
shared_get(h) == Moves(h, "ready", "owner")

shared_wait(h) == Moves(h, "owner", "wait")

shared_wait_load(h) == Moves(h, "wait", IF m_status = "idle" THEN "blocked" ELSE "ready")

shared_wait_spurious(h) == Moves(h, "blocked", "wait")

shared_wait_until(h) == Moves(h, "owner", "until")

\* The head of the loop: the result is ready, or the time has come, or not.
shared_until_head(h) ==
    \/ m_status = "idle" /\ Moves(h, "until", "until_acquire")
    \/ m_status # "idle" /\ Moves(h, "until", "owner")

shared_until_timed_out(h) ==
    Moves(h, "until", "owner") \/ Moves(h, "until_acquire", "until")

shared_until_acquired(h) == m_semaphore /\ Moves(h, "until_acquire", "until")

-----------------------------------------------------------------------------
(* The last reference goes: ~shared_result_state.                          *)

shared_drop(h) ==
    /\ HolderGoes(h, "owner", "gone")
    /\ dtor' = Expires(Owners \ {h}, finisher = "producer")
    /\ UNCHANGED <<vars, state, before, finish, history>>

\* m_result_state.reset(): the consumer's end is dropped (complete_consumer).
Reset(from) == dtor = from /\ dtor' = "reset" /\ ConsumerGoes(Shared, "shared", "drop")

rewind_load ==
    /\ \/ pc_state[Shared] # "consumer_set" /\ Reset("rewind")
       \/ /\ pc_state[Shared] = "consumer_set"
          /\ dtor = "rewind" /\ dtor' = "rewind_cas"
          /\ UNCHANGED consumer
    /\ UNCHANGED <<shared, producer, joining, ret, state, holder, before, finish, history>>

rewind_cas ==
    /\ \/ pc_state[Shared] # "consumer_set" /\ Reset("rewind_cas") /\ UNCHANGED pc_state
       \/ /\ dtor = "rewind_cas" /\ dtor' = "rewind_clear"
          /\ Cas(Shared, "consumer_set", "idle")
          /\ UNCHANGED consumer
    /\ UNCHANGED <<consumer_status, producer_status, sem, deletions, producer, joining, ret>>
    /\ UNCHANGED <<state, holder, before, finish, history>>

rewind_clear ==
    /\ Reset("rewind_clear")
    /\ consumer_status' = [consumer_status EXCEPT ![Shared] = "idle"]
    /\ UNCHANGED <<pc_state, producer_status, sem, deletions, producer, joining, ret>>
    /\ UNCHANGED <<state, holder, before, finish, history>>

-----------------------------------------------------------------------------

\* The task ends; the producer publishes, and finds the consumer that is there.
Task == TaskEnds(Shared) /\ UNCHANGED sharedVars

Producer ==
    \/ ProducerStep(Shared) /\ UNCHANGED sharedVars
    \/ resume_shared_consumer

Finisher ==
    \/ finish_store \/ finish_notify \/ finish_release \/ finish_exchange
    \/ finish_resume \/ finish_end

Destructor ==
    \/ rewind_load \/ rewind_cas \/ rewind_clear
    \/ (complete_consumer_load(Shared) \/ complete_consumer_exchange(Shared)) /\ UNCHANGED sharedVars

Constructor == share_load \/ set_shared_context \/ share_cas

\* The calls that a holder makes, and the steps of a call.
HolderCall(h) ==
    \/ shared_await(h) \/ shared_wait(h) \/ shared_wait_until(h) \/ shared_drop(h)
    \/ \E g \in Holders : copy(h, g)

HolderStep(h) ==
    \/ shared_await_load(h) \/ shared_get(h) \/ shared_wait_load(h)
    \/ shared_until_head(h) \/ shared_until_acquired(h)

SharedNext ==
    \/ Task \/ Producer \/ Finisher \/ Destructor
    \/ make_shared_result \/ Constructor
    \/ \E h \in Holders :
           \/ HolderCall(h) \/ HolderStep(h) \/ shared_await_cas(h)
           \/ shared_await_weak(h) \/ shared_wait_spurious(h) \/ shared_until_timed_out(h)

SharedSpec == SharedInit /\ [][SharedNext]_allVars

\* Tasks end and threads go on; a weak CAS that is tried again and again
\* succeeds at last; nothing is assumed of the calls that holders make.
SharedFairSpec ==
    /\ SharedSpec
    /\ WF_allVars(Task) /\ WF_allVars(Producer) /\ WF_allVars(Finisher)
    /\ WF_allVars(Destructor) /\ WF_allVars(Constructor)
    /\ \A h \in Holders : WF_allVars(HolderStep(h)) /\ SF_allVars(shared_await_cas(h))

-----------------------------------------------------------------------------
(* Properties.                                                             *)

\* Awaiters are neither lost nor resumed twice, and are resumed in the order
\* in which they came, although they are pushed on a stack by a CAS that races
\* the exchange of on_result_finished.
ResumedInOrder == queued = resumed \o awaiters \o Reverse(m_awaiters)

\* on_result_finished runs once: share and the producer agree on who calls it.
FinishedOnce == finishes + (IF finisher = "none" THEN 0 ELSE 1) <= 1

\* A holder that is let through to the value finds it there.
ReadyWhenRead ==
    \A h \in Holders : holder[h] = "ready" =>
        /\ Done(Shared) /\ deletions[Shared] = 0
        /\ m_status = producer_status[Shared] /\ m_status # "idle"

\* Once the producer and the constructor have done their part, nobody who
\* holds the shared result is suspended or blocked.
NoStrandedHolder ==
    producer[Shared] = "done" /\ finisher = "none"
        /\ holder[Maker] \notin {"result", "share_load", "share_set", "share_cas"} =>
            \A h \in Holders : holder[h] \notin {"suspended", "blocked"}

\* The above together: on_result_finished runs once, whoever it lets through
\* finds the value, it leaves nobody behind, and the result state is deleted once
\* although the last holder and the producer may finish with it at the same time.
SharedInv ==
    SharedTypeOK /\ FinishedOnce /\ ReadyWhenRead /\ NoStrandedHolder /\ DeletedExactlyOnce

\* Every call on a shared result returns once the task has ended.
SharedCallsReturn ==
    \A h \in Holders : holder[h] \notin {"none", "result", "owner", "gone"} ~> holder[h] = "owner"

=============================================================================
