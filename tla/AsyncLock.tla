------------------------------ MODULE AsyncLock ------------------------------
(***************************************************************************)
(* async_lock: coroutines that fail to lock suspend in m_awaiters; unlock  *)
(* resumes the first of them, which tries again against everybody else and *)
(* continues on its resume-executor once it has the lock.                  *)
(*                                                                         *)
(* A step is one critical section of m_awaiter_lock (a coroutine suspends  *)
(* in lock_impl while it still holds that mutex), or a resumption.         *)
(***************************************************************************)
EXTENDS Naturals, Sequences

CONSTANTS
    Coros,          \* the coroutines that use the lock
    MaxLocks        \* how often each of them calls lock or try_lock

ASSUME MaxLocksIsNat == MaxLocks \in Nat

VARIABLES
    m_locked, m_awaiters,
    pc,             \* where each coroutine is
    calls           \* how often it has called lock or try_lock

vars == <<m_locked, m_awaiters, pc, calls>>

\* "out": it neither has nor wants the lock; "retry": unlock has resumed it;
\* "resuming": it has the lock and is posted to its resume-executor;
\* "interrupted": the executor was shut down and destroyed the posted task.
Places == {"out", "waiting", "retry", "resuming", "interrupted", "in"}

\* A node is linked into the intrusive list m_awaiters at most once.
TypeOK ==
    /\ m_locked \in BOOLEAN
    /\ m_awaiters \in Seq(Coros)
    /\ \A i, j \in DOMAIN m_awaiters : m_awaiters[i] = m_awaiters[j] => i = j
    /\ pc \in [Coros -> Places]
    /\ calls \in [Coros -> 0 .. MaxLocks]

Init ==
    /\ m_locked = FALSE
    /\ m_awaiters = <<>>
    /\ pc = [c \in Coros |-> "out"]
    /\ calls = [c \in Coros |-> 0]

Called(c) ==
    /\ calls[c] < MaxLocks
    /\ calls' = [calls EXCEPT ![c] = @ + 1]

\* Mutant: a coroutine that was resumed is taken to have the lock.
TryLock_handed(c, to) ==
    IF m_locked /\ pc[c] # "retry"
    THEN /\ m_awaiters' = Append(m_awaiters, c)
         /\ pc' = [pc EXCEPT ![c] = "waiting"]
         /\ UNCHANGED m_locked
    ELSE /\ m_locked' = TRUE
         /\ pc' = [pc EXCEPT ![c] = to]
         /\ UNCHANGED m_awaiters

\* One round of the loop of lock_impl: the lock is free, and c goes on at `to`,
\* or c suspends.
TryLock(c, to) ==
    IF m_locked
    THEN /\ m_awaiters' = Append(m_awaiters, c)
         /\ pc' = [pc EXCEPT ![c] = "waiting"]
         /\ UNCHANGED m_locked
    ELSE /\ m_locked' = TRUE
         /\ pc' = [pc EXCEPT ![c] = to]
         /\ UNCHANGED m_awaiters

\* m_locked is reset and the first awaiter, if there is one, is resumed.
Unlock(c) ==
    /\ m_locked' = FALSE
    /\ IF m_awaiters = <<>>
       THEN pc' = [pc EXCEPT ![c] = "out"] /\ UNCHANGED m_awaiters
       ELSE /\ pc' = [pc EXCEPT ![c] = "out", ![Head(m_awaiters)] = "retry"]
            /\ m_awaiters' = Tail(m_awaiters)

-----------------------------------------------------------------------------

lock(c) ==
    /\ pc[c] = "out"
    /\ Called(c)
    /\ TryLock(c, "in")

try_lock(c) ==
    /\ pc[c] = "out"
    /\ Called(c)
    /\ \/ ~m_locked /\ m_locked' = TRUE /\ pc' = [pc EXCEPT ![c] = "in"]
       \/ m_locked /\ UNCHANGED <<m_locked, pc>>
    /\ UNCHANGED m_awaiters

\* A coroutine that unlock has resumed; resume_synchronously is false for it.
retry(c) ==
    /\ pc[c] = "retry"
    /\ TryLock(c, "resuming")
    /\ UNCHANGED calls

\* The resume-executor runs the coroutine, or destroys the task that would.
resume_on(c) ==
    /\ pc[c] = "resuming"
    /\ \E place \in {"in", "interrupted"} : pc' = [pc EXCEPT ![c] = place]
    /\ UNCHANGED <<m_locked, m_awaiters, calls>>

\* Mutant: the lock is given back but no awaiter is resumed.
resume_failed_silent(c) ==
    /\ pc[c] = "interrupted"
    /\ m_locked' = FALSE
    /\ pc' = [pc EXCEPT ![c] = "out"]
    /\ UNCHANGED <<m_awaiters, calls>>

\* The catch block of lock_impl.
resume_failed(c) ==
    /\ pc[c] = "interrupted"
    /\ Unlock(c)
    /\ UNCHANGED calls

unlock(c) ==
    /\ pc[c] = "in"
    /\ Unlock(c)
    /\ UNCHANGED calls

Step(c) == retry(c) \/ resume_on(c) \/ resume_failed(c) \/ unlock(c)

Next == \E c \in Coros : lock(c) \/ try_lock(c) \/ Step(c)

Spec == Init /\ [][Next]_vars

-----------------------------------------------------------------------------
(* Properties.                                                             *)

Holders == {c \in Coros : pc[c] \in {"in", "resuming", "interrupted"}}

\* m_locked says exactly whether a coroutine has the lock: one that was told so,
\* or that is on its way through its resume-executor, or that has to give the
\* lock back because the executor is gone.
LockedIffHeld == m_locked <=> Holders # {}

\* At most one coroutine has the lock (the assertions on
\* m_thread_count_in_critical_section).
MutualExclusion == \A c, d \in Holders : c = d

\* Coroutines are in m_awaiters exactly while they are suspended.
AwaitersAreSuspended ==
    \A c \in Coros : pc[c] = "waiting" <=> \E i \in DOMAIN m_awaiters : m_awaiters[i] = c

\* Nobody sleeps beside a free lock: if coroutines are suspended, one of them
\* (or a resumed one) is going to be let in or the lock will be unlocked.
NoStrandedAwaiter ==
    m_awaiters # <<>> => m_locked \/ \E c \in Coros : pc[c] = "retry"

\* The inductive invariant: the flag, the list and the places of the coroutines
\* agree.
Inv ==
    /\ TypeOK
    /\ LockedIffHeld
    /\ MutualExclusion
    /\ AwaitersAreSuspended
    /\ NoStrandedAwaiter

=============================================================================
