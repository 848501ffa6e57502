------------------------ MODULE AsyncConditionVariable ------------------------
(***************************************************************************)
(* async_lock with everything that uses it.  Consumers and producers use   *)
(* async_condition_variable the way its documentation does: consumers      *)
(* lock, await a predicate on shared memory and unlock; producers lock,    *)
(* change the memory, unlock and notify.  Users lock through               *)
(* scoped_async_lock, or call the lock themselves, in any order.           *)
(*                                                                         *)
(* A coroutine that unlock or notify resumes runs on the stack of the one  *)
(* that called it, until it suspends or is posted to its resume-executor;  *)
(* an inline executor runs it on that very stack.                          *)
(***************************************************************************)
EXTENDS AsyncLock, FiniteSets

CONSTANTS
    Consumers, Producers,
    Users, MaxUses,     \* how often each user calls lock or try_lock
    Inline,             \* the coroutines whose resume-executor is an inline executor
    NoCoro

ASSUME MaxUsesIsNat == MaxUses \in Nat
ASSUME Roles ==
    /\ Coros = Consumers \cup Producers \cup Users /\ Inline \subseteq Coros
    /\ Consumers \cap Producers = {} /\ Users \cap (Consumers \cup Producers) = {}
ASSUME CorosAreFinite == IsFiniteSet(Coros) /\ NoCoro \notin Coros

VARIABLES
    cv_lock,            \* the coroutine that has async_condition_variable::m_lock
    cv_awaiters,        \* async_condition_variable::m_awaiters
    items,              \* the shared memory: the predicate is items > 0
    at,                 \* where each coroutine is in its use of the two
    on,                 \* the coroutine on whose stack a resumed one runs
    batch,              \* the awaiters notify_all has still to resume
    guard               \* the scoped_async_lock of a user

cond == <<cv_lock, cv_awaiters, items, batch>>
cv_vars == <<vars, cond, at, on, guard>>

Steps == {"start", "check", "await", "unlocking", "pushing", "suspended", "notified", "relock",
          "leave", "put", "unlock", "notify", "notify_all", "ended", "done", "use", "unlocked"}

\* "none": there is no guard, or it refers to no lock and m_owns is false;
\* "deferred": it refers to the lock and m_owns is false; "owns": m_owns is true;
\* "released": there is none, and it is for the user to unlock the lock.
Guards == {"none", "deferred", "owns", "released"}

\* The state of the condition variable: a node is linked into its intrusive list
\* of awaiters at most once, and no item is taken that is not there.
CvTypeOK ==
    /\ TypeOK
    /\ cv_lock \in Coros \cup {NoCoro}
    /\ cv_awaiters \in Seq(Consumers)
    /\ \A i, j \in DOMAIN cv_awaiters : cv_awaiters[i] = cv_awaiters[j] => i = j
    /\ items \in 0 .. Cardinality(Producers)
    /\ at \in [Coros -> Steps]
    /\ on \in [Coros -> Coros \cup {NoCoro}]
    /\ batch \in [Producers -> Seq(Consumers)]
    /\ guard \in [Users -> Guards]

CvInit ==
    /\ Init
    /\ cv_lock = NoCoro
    /\ cv_awaiters = <<>>
    /\ items = 0
    /\ at = [c \in Coros |-> IF c \in Users THEN "use" ELSE "start"]
    /\ on = [c \in Coros |-> NoCoro]
    /\ batch = [p \in Producers |-> <<>>]
    /\ guard = [c \in Users |-> "none"]

\* c is not below another coroutine on the stack of its thread.
OnTop(c) == \A d \in Coros : on[d] # c

At(c, from, to) ==
    /\ OnTop(c)
    /\ at[c] = from
    /\ at' = [at EXCEPT ![c] = to]

\* The stacks after c has used the lock: an awaiter that c resumed runs on top of
\* c, and c leaves the stack it was on when it suspends or is posted.
Stacks(c) ==
    [d \in Coros |->
        IF pc[d] = "waiting" /\ pc'[d] = "retry" THEN c
        ELSE IF d = c /\ (pc'[c] = "waiting" \/ (pc'[c] = "resuming" /\ c \notin Inline)) THEN NoCoro
        ELSE on[d]]

-----------------------------------------------------------------------------
(* async_lock, as consumers and producers use it.                          *)

start(c) ==
    /\ At(c, "start", IF c \in Consumers THEN "check" ELSE "put")
    /\ lock(c) /\ on' = Stacks(c)
    /\ UNCHANGED <<cond, guard>>

retry_lock(c) ==
    /\ retry(c) /\ on' = Stacks(c)
    /\ UNCHANGED <<cond, at, guard>>

\* The resume-executors of consumers and producers are not shut down.
resumed(c) ==
    /\ c \notin Users
    /\ resume_on(c) /\ pc'[c] = "in"
    /\ UNCHANGED <<cond, at, on, guard>>

-----------------------------------------------------------------------------
(* async_condition_variable::await.                                        *)

\* The predicate, looked at with the lock.
check(c) ==
    /\ pc[c] = "in"
    /\ \/ items > 0 /\ At(c, "check", "leave") /\ items' = items - 1
       \/ items = 0 /\ At(c, "check", "await") /\ UNCHANGED items
    /\ UNCHANGED <<vars, cv_lock, cv_awaiters, on, batch, guard>>

\* Mutant: the lock is unlocked without the mutex of the condition variable.
await_suspend_lock_unlocked(c) ==
    /\ At(c, "await", "unlocking")
    /\ UNCHANGED <<vars, cond, on, guard>>

\* cv_awaiter::await_suspend takes the mutex, ...
await_suspend_lock(c) ==
    /\ At(c, "await", "unlocking")
    /\ cv_lock = NoCoro
    /\ cv_lock' = c
    /\ UNCHANGED <<vars, cv_awaiters, items, on, batch, guard>>

\* ... unlocks the lock, ...
await_suspend_unlock(c) ==
    /\ At(c, "unlocking", "pushing")
    /\ unlock(c) /\ on' = Stacks(c)
    /\ UNCHANGED <<cond, guard>>

\* ... and suspends; the mutex is released.
await_suspend_push(c) ==
    /\ At(c, "pushing", "suspended")
    /\ cv_awaiters' = Append(cv_awaiters, c)
    /\ cv_lock' = NoCoro
    /\ on' = [on EXCEPT ![c] = NoCoro]
    /\ UNCHANGED <<vars, items, batch, guard>>

\* await_impl once it was notified: resume_on, then lock again.
await_resume_on(c) ==
    /\ At(c, "notified", "relock")
    /\ on' = IF c \in Inline THEN on ELSE [on EXCEPT ![c] = NoCoro]
    /\ UNCHANGED <<vars, cond, guard>>

\* Mutant: the lock is not locked again.
relock_skipped(c) ==
    /\ At(c, "relock", "check")
    /\ pc' = [pc EXCEPT ![c] = "in"]
    /\ UNCHANGED <<m_locked, m_awaiters, calls, cond, on, guard>>

relock(c) ==
    /\ At(c, "relock", "check")
    /\ lock(c) /\ on' = Stacks(c)
    /\ UNCHANGED <<cond, guard>>

leave(c) ==
    /\ At(c, "leave", "ended")
    /\ unlock(c) /\ on' = Stacks(c)
    /\ UNCHANGED <<cond, guard>>

-----------------------------------------------------------------------------
(* A producer, notify_one and notify_all.                                  *)

put(c) ==
    /\ pc[c] = "in"
    /\ At(c, "put", "unlock")
    /\ items' = items + 1
    /\ UNCHANGED <<vars, cv_lock, cv_awaiters, on, batch, guard>>

put_unlock(c) ==
    /\ At(c, "unlock", "notify")
    /\ unlock(c) /\ on' = Stacks(c)
    /\ UNCHANGED <<cond, guard>>

notify_one(c) ==
    /\ OnTop(c) /\ at[c] = "notify"
    /\ cv_lock = NoCoro
    /\ IF cv_awaiters = <<>> THEN at' = [at EXCEPT ![c] = "ended"] /\ UNCHANGED <<on, cv_awaiters>>
       ELSE /\ at' = [at EXCEPT ![c] = "ended", ![Head(cv_awaiters)] = "notified"]
            /\ on' = [on EXCEPT ![Head(cv_awaiters)] = c]
            /\ cv_awaiters' = Tail(cv_awaiters)
    /\ UNCHANGED <<vars, cv_lock, items, batch, guard>>

notify_all(c) ==
    /\ At(c, "notify", "notify_all")
    /\ cv_lock = NoCoro
    /\ batch' = [batch EXCEPT ![c] = cv_awaiters]
    /\ cv_awaiters' = <<>>
    /\ UNCHANGED <<vars, cv_lock, items, on, guard>>

notify_all_next(c) ==
    /\ OnTop(c) /\ at[c] = "notify_all"
    /\ IF batch[c] = <<>> THEN at' = [at EXCEPT ![c] = "ended"] /\ UNCHANGED <<on, batch>>
       ELSE /\ at' = [at EXCEPT ![Head(batch[c])] = "notified"]
            /\ on' = [on EXCEPT ![Head(batch[c])] = c]
            /\ batch' = [batch EXCEPT ![c] = Tail(@)]
    /\ UNCHANGED <<vars, cv_lock, cv_awaiters, items, guard>>

\* The coroutine ends and leaves the stack.
end(c) ==
    /\ At(c, "ended", "done")
    /\ on' = [on EXCEPT ![c] = NoCoro]
    /\ UNCHANGED <<vars, cond, guard>>

-----------------------------------------------------------------------------
(* Users: scoped_async_lock, and the functions of async_lock itself.       *)

\* A user that is not in the middle of unlock, with its guard in one of `before`.
Uses(c, before) == c \in Users /\ at[c] = "use" /\ guard[c] \in before /\ OnTop(c)

SetGuard(c, after) == guard' = [guard EXCEPT ![c] = after]

\* m_owns is set once the lock is there, and stays as it is when lock throws.
OwnIfIn(c) == SetGuard(c, IF pc'[c] = "in" THEN "owns" ELSE guard[c])

\* The constructors with defer_lock and with adopt_lock.
make_guard(c) ==
    /\ \/ Uses(c, {"none"}) /\ pc[c] = "out" /\ SetGuard(c, "deferred")
       \/ Uses(c, {"released"}) /\ SetGuard(c, "owns")
    /\ UNCHANGED <<vars, cond, at, on>>

\* async_lock::lock, which returns a guard, or scoped_async_lock::lock.
guard_lock(c) ==
    /\ Uses(c, {"none", "deferred"}) /\ calls[c] < MaxUses
    /\ lock(c) /\ on' = Stacks(c)
    /\ OwnIfIn(c)
    /\ UNCHANGED <<cond, at>>

\* scoped_async_lock::try_lock, or async_lock::try_lock without a guard.
guard_try_lock(c) ==
    /\ calls[c] < MaxUses /\ try_lock(c)
    /\ \/ Uses(c, {"deferred"}) /\ OwnIfIn(c)
       \/ Uses(c, {"none"}) /\ SetGuard(c, IF pc'[c] = "in" THEN "released" ELSE "none")
    /\ UNCHANGED <<cond, at, on>>

\* The task of resume_on runs, or its executor is shut down and destroys it.
guard_resumed(c) ==
    /\ c \in Users
    /\ resume_on(c)
    /\ OwnIfIn(c)
    /\ UNCHANGED <<cond, at, on>>

guard_resume_failed(c) ==
    /\ c \in Users
    /\ resume_failed(c) /\ on' = Stacks(c)
    /\ UNCHANGED <<cond, at, guard>>

guard_release(c) ==
    /\ Uses(c, {"owns", "deferred"})
    /\ pc[c] = (IF guard[c] = "owns" THEN "in" ELSE "out")
    /\ SetGuard(c, IF guard[c] = "owns" THEN "released" ELSE "none")
    /\ UNCHANGED <<vars, cond, at, on>>

\* unlock: m_owns is reset after the awaiter that the lock resumed has left the
\* stack.
guard_unlock(c) ==
    /\ Uses(c, {"owns"})
    /\ unlock(c) /\ on' = Stacks(c)
    /\ at' = [at EXCEPT ![c] = "unlocked"]
    /\ UNCHANGED <<cond, guard>>

guard_unlocked(c) ==
    /\ At(c, "unlocked", "use")
    /\ SetGuard(c, "deferred")
    /\ UNCHANGED <<vars, cond, on>>

\* The destructor of a guard that owns the lock, or unlock without a guard.
guard_destroy(c) ==
    /\ Uses(c, {"owns", "released"})
    /\ unlock(c) /\ on' = Stacks(c)
    /\ SetGuard(c, "none")
    /\ UNCHANGED <<cond, at>>

-----------------------------------------------------------------------------

CvStep(c) ==
    \/ start(c) \/ retry_lock(c) \/ resumed(c) \/ end(c)
    \/ check(c) \/ await_suspend_lock(c) \/ await_suspend_unlock(c) \/ await_suspend_push(c)
    \/ await_resume_on(c) \/ relock(c) \/ leave(c)
    \/ put(c) \/ put_unlock(c) \/ notify_one(c) \/ notify_all(c) \/ notify_all_next(c)

UserStep(c) ==
    \/ guard_resumed(c) \/ guard_resume_failed(c) \/ guard_unlock(c) \/ guard_unlocked(c)
    \/ guard_destroy(c)

CvNext ==
    \E c \in Coros : \/ CvStep(c) \/ UserStep(c)
                     \/ make_guard(c) \/ guard_lock(c) \/ guard_try_lock(c) \/ guard_release(c)

CvSpec == CvInit /\ [][CvNext]_cv_vars

\* Threads run, executors run or destroy what is posted to them, and a user that
\* has the lock unlocks it; nobody has to lock.
CvFairSpec == CvSpec /\ \A c \in Coros : WF_cv_vars(CvStep(c) \/ UserStep(c))

-----------------------------------------------------------------------------
(* Properties.                                                             *)

\* A coroutine is in the list of the condition variable, or of a notify_all,
\* exactly while it is suspended in await.
CvAwaitersAreSuspended ==
    \A c \in Consumers :
        at[c] = "suspended" <=>
            \/ \E i \in DOMAIN cv_awaiters : cv_awaiters[i] = c
            \/ \E p \in Producers : \E i \in DOMAIN batch[p] : batch[p][i] = c

\* Consumers that are going to look at the predicate again.
Awake ==
    {c \in Consumers :
        \/ at[c] \in {"start", "check", "notified", "relock"}
        \/ at[c] = "suspended" /\ \A i \in DOMAIN cv_awaiters : cv_awaiters[i] # c}

Notifying == {p \in Producers : at[p] \in {"unlock", "notify"}}

\* A change of the shared memory is not missed between a consumer's look at the
\* predicate and its suspension: while a consumer is suspended, there are no more
\* items than notifications to come and consumers to look.
NoLostNotification ==
    cv_awaiters # <<>> => items <= Cardinality(Notifying) + Cardinality(Awake)

\* A guard owns the lock exactly while its user has it and nobody released it, so
\* it is unlocked once and never for another's lock; only inside unlock is m_owns
\* still set when the lock may already be another's.
GuardsMatchTheLock ==
    \A c \in Users :
        IF at[c] = "unlocked" THEN guard[c] = "owns" /\ pc[c] = "out"
        ELSE guard[c] \in {"owns", "released"} <=> pc[c] = "in"

\* What the coroutines, the condition variable and the guards may rely on: the
\* lists hold the suspended, no notification is lost, guards tell the truth.
CvInv == CvTypeOK /\ CvAwaitersAreSuspended /\ NoLostNotification /\ GuardsMatchTheLock

\* The condition variable and the guards use the lock through its functions only,
\* so what is proved of async_lock holds here: whoever awaits has locked again
\* before it looks at the predicate.
ImplementsAsyncLock == Spec

\* The coroutines below c on the stack of its thread.
Below[c \in Coros] == IF on[c] = NoCoro THEN {} ELSE {on[c]} \cup Below[on[c]]

\* await_suspend unlocks the lock with the mutex of the condition variable in its
\* hands.  A coroutine that this resumes, and that an inline executor keeps on the
\* stack, locks the mutex of its own thread again when it awaits or notifies.
LocksAgain ==
    \E c \in Inline : at[c] \in {"await", "notify"} /\ OnTop(c) /\ cv_lock \in Below[c]

\* Everyone who calls lock gets the lock or the exception of its executor, however
\* often others barge in between unlock and its retry: once the calls are made,
\* nobody is left waiting for the lock, on the way to it or with it, unless a
\* thread locks the mutex of the condition variable twice.
EveryAwaiterEnds == <>[](LocksAgain \/ \A c \in Coros : pc[c] = "out")

\* If there is an item for every consumer, every consumer gets one, unless a
\* thread locks the mutex of the condition variable twice.
EveryConsumerEnds ==
    Cardinality(Producers) >= Cardinality(Consumers) =>
        <>(LocksAgain \/ \A c \in Consumers : at[c] = "done")

=============================================================================
