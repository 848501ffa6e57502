--------------------------- MODULE ResumptionProofs ---------------------------
(***************************************************************************)
(* Proofs about what resumes a coroutine that waits for no result:         *)
(* async_lock, async_condition_variable, and the timer queue's delays.     *)
(***************************************************************************)
EXTENDS AsyncConditionVariable, TimerQueue, FiniteSetTheorems, TLAPS

-----------------------------------------------------------------------------
(* async_lock, for any set of coroutines: the list of awaiters and the flag *)
(* m_locked agree with what the coroutines do, so at most one of them has  *)
(* the lock, and no one sleeps beside a free lock.  The condition variable *)
(* and the guards keep to the interface of async_lock, so the same holds of *)
(* their use of it; and no notification is lost, for any number of         *)
(* consumers, producers and users.                                         *)

\* Coroutine c is in the intrusive list s, and no node is linked into s twice.
In(s, c) == \E i \in DOMAIN s : s[i] = c
Distinct(s) == \A i, j \in DOMAIN s : s[i] = s[j] => i = j

\* Appending a coroutine that is not in the list keeps it free of repetitions.
LEMMA AppendAwaiter ==
    ASSUME NEW S, NEW s \in Seq(S), NEW c \in S, Distinct(s), ~In(s, c)
    PROVE  /\ Append(s, c) \in Seq(S) /\ Distinct(Append(s, c)) /\ Append(s, c) # <<>>
           /\ \A d : In(Append(s, c), d) <=> d = c \/ In(s, d)
PROOF
<1> DEFINE a == Append(s, c)
<1>1. /\ a \in Seq(S)
      /\ DOMAIN a = 1 .. Len(s) + 1 /\ DOMAIN s = 1 .. Len(s) /\ Len(s) \in Nat
      /\ a[Len(s) + 1] = c /\ a # <<>>
      /\ \A i \in 1 .. Len(s) : a[i] = s[i]
  OBVIOUS
<1> HIDE DEF a
<1>2. ASSUME NEW i \in DOMAIN a, NEW j \in DOMAIN a, a[i] = a[j]
      PROVE  i = j
  BY <1>1, <1>2 DEF In, Distinct
<1>3. ASSUME NEW d
      PROVE  In(a, d) <=> d = c \/ In(s, d)
  BY <1>1 DEF In
<1> QED  BY Zenon, <1>1, <1>2, <1>3 DEF a, Distinct

\* Removing the first awaiter leaves exactly the others.
LEMMA PopAwaiter ==
    ASSUME NEW S, NEW s \in Seq(S), s # <<>>, Distinct(s)
    PROVE  /\ Head(s) \in S /\ In(s, Head(s))
           /\ Tail(s) \in Seq(S) /\ Distinct(Tail(s))
           /\ \A d : In(Tail(s), d) <=> d # Head(s) /\ In(s, d)
PROOF
<1> DEFINE t == Tail(s)
<1>1. /\ Len(s) \in Nat /\ Len(s) # 0
      /\ DOMAIN s = 1 .. Len(s)
      /\ Head(s) = s[1] /\ Head(s) \in S
      /\ t \in Seq(S) /\ DOMAIN t = 1 .. Len(s) - 1
      /\ \A i \in 1 .. Len(s) - 1 : t[i] = s[i + 1]
  <2>1. /\ Len(s) \in Nat /\ Len(s) # 0 /\ DOMAIN s = 1 .. Len(s)
        /\ \A i \in DOMAIN s : s[i] \in S
    OBVIOUS
  <2>2. Head(s) = s[1] /\ 1 \in DOMAIN s
    BY <2>1
  <2>3. t \in Seq(S) /\ Len(t) = Len(s) - 1
    BY <2>1
  <2>4. \A i \in 1 .. Len(s) - 1 : t[i] = s[i + 1]
    BY <2>1
  <2>5. DOMAIN t = 1 .. Len(s) - 1
    BY <2>3
  <2> QED  BY Zenon, <2>1, <2>2, <2>3, <2>4, <2>5
<1> HIDE DEF t
<1>2. ASSUME NEW i \in DOMAIN t, NEW j \in DOMAIN t, t[i] = t[j]
      PROVE  i = j
  <2>1. i \in Nat /\ j \in Nat /\ i + 1 \in DOMAIN s /\ j + 1 \in DOMAIN s
    BY <1>1
  <2>2. s[i + 1] = s[j + 1]
    BY Zenon, <1>1, <1>2
  <2>3. i + 1 = j + 1
    BY Zenon, <2>1, <2>2 DEF Distinct
  <2> QED  BY <2>1, <2>3
<1>3. ASSUME NEW d
      PROVE  In(t, d) <=> d # Head(s) /\ In(s, d)
  <2>1. ASSUME NEW i \in DOMAIN t, t[i] = d
        PROVE  d # Head(s) /\ \E k \in DOMAIN s : s[k] = d
    <3>1. i + 1 \in DOMAIN s /\ 1 \in DOMAIN s /\ s[i + 1] = d /\ i + 1 # 1
      BY <1>1, <2>1
    <3> QED  BY Zenon, <3>1, <1>1 DEF Distinct
  <2>2. ASSUME d # Head(s), NEW i \in DOMAIN s, s[i] = d
        PROVE  \E k \in DOMAIN t : t[k] = d
    <3>1. i - 1 \in DOMAIN t /\ t[i - 1] = d
      BY <1>1, <2>2
    <3> QED  BY Zenon, <3>1
  <2> QED  BY Zenon, <2>1, <2>2 DEF In
<1>4. In(s, Head(s))
  <2>1. 1 \in DOMAIN s  BY <1>1
  <2> QED  BY Zenon, <2>1, <1>1 DEF In
<1> QED  BY Zenon, <1>1, <1>2, <1>3, <1>4 DEF t, Distinct

\* An empty list has nobody in it.
LEMMA NobodyIn == Distinct(<<>>) /\ \A c : ~In(<<>>, c)
BY DEF Distinct, In

\* The lock is free, unused and has no awaiters at first.
LEMMA InitEstablishesInv == Init => Inv
PROOF
<1> SUFFICES ASSUME Init PROVE Inv
  BY Zenon
<1>0. m_awaiters \in Seq(Coros) /\ DOMAIN m_awaiters = {}
  BY DEF Init
<1>1. TypeOK
  <2>1. m_locked \in BOOLEAN
    BY Zenon DEF Init
  <2>2. pc \in [Coros -> Places]
    BY Zenon DEF Init, Places
  <2>3. 0 \in 0 .. MaxLocks
    BY MaxLocksIsNat
  <2>4. calls \in [Coros -> 0 .. MaxLocks]
    BY Zenon, <2>3 DEF Init
  <2> QED  BY Zenon, <1>0, <2>1, <2>2, <2>4 DEF TypeOK
<1>2. Holders = {}
  BY Zenon DEF Init, Holders
<1>3. AwaitersAreSuspended
  <2>1. \A c \in Coros : pc[c] = "out"
    BY Zenon DEF Init
  <2> QED  BY Zenon, <1>0, <2>1 DEF AwaitersAreSuspended
<1> QED
  BY Zenon, <1>1, <1>2, <1>3 DEF Init, Inv, LockedIffHeld, MutualExclusion, NoStrandedAwaiter

\* One round of lock_impl keeps the invariant.
LEMMA TryLockPreservesInv ==
    ASSUME Inv, NEW c \in Coros, pc[c] \in {"out", "retry"}, NEW to \in {"in", "resuming"},
           TryLock(c, to), calls' \in [Coros -> 0 .. MaxLocks]
    PROVE  Inv'
PROOF
<1> USE DEF Inv, TypeOK, Places
<1>1. CASE m_locked
  <2>1. /\ m_awaiters' = Append(m_awaiters, c) /\ pc' = [pc EXCEPT ![c] = "waiting"]
        /\ m_locked' = m_locked
    BY Zenon, <1>1 DEF TryLock
  <2>2. m_awaiters \in Seq(Coros) /\ Distinct(m_awaiters) /\ ~In(m_awaiters, c)
    BY Zenon DEF AwaitersAreSuspended, Distinct, In
  <2>3. TypeOK'
    <3>1. /\ m_awaiters' \in Seq(Coros)
          /\ \A i, j \in DOMAIN m_awaiters' : m_awaiters'[i] = m_awaiters'[j] => i = j
      BY <2>1, <2>2, AppendAwaiter DEF Distinct
    <3>2. pc' \in [Coros -> Places] /\ m_locked' \in BOOLEAN
      BY Zenon, <2>1
    <3> QED  BY Zenon, <3>1, <3>2
  <2>4. AwaitersAreSuspended'
    <3>1. \A d \in Coros : (\E i \in DOMAIN m_awaiters' : m_awaiters'[i] = d)
                   <=> d = c \/ \E i \in DOMAIN m_awaiters : m_awaiters[i] = d
      <4>1. \A d : In(m_awaiters', d) <=> d = c \/ In(m_awaiters, d)
        BY Zenon, <2>1, <2>2, AppendAwaiter
      <4> QED  BY Zenon, <4>1 DEF In
    <3>2. \A d \in Coros : pc'[d] = "waiting" <=> d = c \/ pc[d] = "waiting"
      BY Zenon, <2>1
    <3> QED  BY Zenon, <3>1, <3>2 DEF AwaitersAreSuspended
  <2>5. Holders' = Holders
    BY Zenon, <2>1 DEF Holders
  <2> QED
    BY Zenon, <1>1, <2>1, <2>3, <2>4, <2>5
       DEF LockedIffHeld, MutualExclusion, NoStrandedAwaiter
<1>2. CASE ~m_locked
  <2>1. /\ m_awaiters' = m_awaiters /\ pc' = [pc EXCEPT ![c] = to] /\ m_locked' = TRUE
    BY Zenon, <1>2 DEF TryLock
  <2>2. Holders' = {c}
    BY Zenon, <1>2, <2>1 DEF Holders, LockedIffHeld
  <2>3. AwaitersAreSuspended'
    BY Zenon, <2>1 DEF AwaitersAreSuspended
  <2> QED
    BY Zenon, <2>1, <2>2, <2>3 DEF LockedIffHeld, MutualExclusion, NoStrandedAwaiter
<1> QED  BY Zenon, <1>1, <1>2

\* Unlocking, by unlock or after a failed resumption, keeps the invariant.
LEMMA UnlockPreservesInv ==
    ASSUME Inv, NEW c \in Coros, pc[c] \in {"in", "interrupted"}, Unlock(c), UNCHANGED calls
    PROVE  Inv'
PROOF
<1> USE DEF Inv, TypeOK, Places
<1>1. c \in Holders /\ \A d \in Holders : d = c
  BY Zenon DEF Holders, MutualExclusion
<1>2. CASE m_awaiters = <<>>
  <2>1. pc' = [pc EXCEPT ![c] = "out"] /\ m_awaiters' = m_awaiters /\ m_locked' = FALSE
    BY Zenon, <1>2 DEF Unlock
  <2>2. Holders' = {}
    BY Zenon, <1>1, <2>1 DEF Holders
  <2>3. AwaitersAreSuspended'
    BY Zenon, <2>1 DEF AwaitersAreSuspended
  <2> QED
    BY Zenon, <1>2, <2>1, <2>2, <2>3 DEF LockedIffHeld, MutualExclusion, NoStrandedAwaiter
<1>3. CASE m_awaiters # <<>>
  <2> DEFINE h == Head(m_awaiters)
  <2>0. m_awaiters \in Seq(Coros) /\ Distinct(m_awaiters)
    BY Zenon DEF Distinct
  <2>1. /\ h \in Coros /\ pc[h] = "waiting" /\ h # c
        /\ pc' = [pc EXCEPT ![c] = "out", ![h] = "retry"]
        /\ m_awaiters' = Tail(m_awaiters) /\ m_locked' = FALSE
    <3>1. h \in Coros /\ In(m_awaiters, h)
      BY Zenon, <1>3, <2>0, PopAwaiter
    <3> QED
      BY Zenon, <1>3, <3>1 DEF Unlock, AwaitersAreSuspended, In
  <2>2. TypeOK'
    <3>1. /\ m_awaiters' \in Seq(Coros)
          /\ \A i, j \in DOMAIN m_awaiters' : m_awaiters'[i] = m_awaiters'[j] => i = j
      BY Zenon, <1>3, <2>0, <2>1, PopAwaiter DEF Distinct
    <3>2. pc' \in [Coros -> Places] /\ m_locked' \in BOOLEAN
      BY Zenon, <2>1
    <3> QED  BY Zenon, <3>1, <3>2
  <2>3. AwaitersAreSuspended'
    <3>1. \A d \in Coros : (\E i \in DOMAIN m_awaiters' : m_awaiters'[i] = d)
                   <=> d # h /\ \E i \in DOMAIN m_awaiters : m_awaiters[i] = d
      BY Zenon, <1>3, <2>0, <2>1, PopAwaiter DEF In
    <3>2. \A d \in Coros : pc'[d] = "waiting" <=> d # h /\ pc[d] = "waiting"
      BY Zenon, <2>1
    <3> QED  BY Zenon, <3>1, <3>2 DEF AwaitersAreSuspended
  <2>4. Holders' = {}
    BY Zenon, <1>1, <2>1 DEF Holders
  <2>5. pc'[h] = "retry"
    BY Zenon, <2>1
  <2> QED
    BY Zenon, <2>1, <2>2, <2>3, <2>4, <2>5 DEF LockedIffHeld, MutualExclusion, NoStrandedAwaiter
<1> QED  BY Zenon, <1>2, <1>3

\* Every step keeps the invariant.
LEMMA NextPreservesInv == Inv /\ [Next]_vars => Inv'
PROOF
<1> SUFFICES ASSUME Inv, [Next]_vars PROVE Inv'
  BY Zenon
<1>1. ASSUME NEW c \in Coros, lock(c) PROVE Inv'
  <2>1. calls' \in [Coros -> 0 .. MaxLocks]
    BY <1>1, MaxLocksIsNat DEF lock, Called, Inv, TypeOK
  <2> QED  BY Zenon, <1>1, <2>1, TryLockPreservesInv DEF lock
<1>2. ASSUME NEW c \in Coros, retry(c) PROVE Inv'
  BY Zenon, <1>2, TryLockPreservesInv DEF retry, Inv, TypeOK
<1>3. ASSUME NEW c \in Coros, unlock(c) \/ resume_failed(c) PROVE Inv'
  BY Zenon, <1>3, UnlockPreservesInv DEF unlock, resume_failed
<1>4. ASSUME NEW c \in Coros, try_lock(c) PROVE Inv'
  <2>1. calls' \in [Coros -> 0 .. MaxLocks]
    BY <1>4, MaxLocksIsNat DEF try_lock, Called, Inv, TypeOK
  <2>2. CASE m_locked
    BY Zenon, <1>4, <2>1, <2>2
       DEF try_lock, Inv, TypeOK, LockedIffHeld, MutualExclusion, AwaitersAreSuspended,
           NoStrandedAwaiter, Holders
  <2>3. CASE ~m_locked
    <3>1. TryLock(c, "in")
      BY Zenon, <1>4, <2>3 DEF try_lock, TryLock
    <3> QED  BY Zenon, <1>4, <2>1, <3>1, TryLockPreservesInv DEF try_lock
  <2> QED  BY Zenon, <2>2, <2>3
<1>5. ASSUME NEW c \in Coros, resume_on(c) PROVE Inv'
  <2>1. PICK place \in {"in", "interrupted"} :
            pc[c] = "resuming" /\ pc' = [pc EXCEPT ![c] = place]
            /\ UNCHANGED <<m_locked, m_awaiters, calls>>
    BY Zenon, <1>5 DEF resume_on
  <2>2. TypeOK'
    BY Zenon, <2>1 DEF Inv, TypeOK, Places
  <2>3. Holders' = Holders
    BY Zenon, <2>1 DEF Inv, TypeOK, Holders
  <2>4. AwaitersAreSuspended'
    BY Zenon, <2>1 DEF Inv, TypeOK, AwaitersAreSuspended
  <2>5. NoStrandedAwaiter'
    BY Zenon, <2>1 DEF Inv, TypeOK, NoStrandedAwaiter
  <2> QED
    BY Zenon, <2>1, <2>2, <2>3, <2>4, <2>5 DEF Inv, LockedIffHeld, MutualExclusion
<1>6. CASE UNCHANGED vars
  BY Zenon, <1>6
     DEF vars, Inv, TypeOK, LockedIffHeld, MutualExclusion, AwaitersAreSuspended,
         NoStrandedAwaiter, Holders
<1> QED  BY Zenon, <1>1, <1>2, <1>3, <1>4, <1>5, <1>6 DEF Next, Step

\* The invariant holds throughout every execution, for any set of coroutines.
THEOREM InvariantHolds == Spec => []Inv
BY InitEstablishesInv, NextPreservesInv, PTL DEF Spec

\* At most one coroutine has the lock: the assertions on
\* m_thread_count_in_critical_section in lock_impl, try_lock and unlock hold.
THEOREM LockExcludes == Spec => []MutualExclusion
<1>1. Inv => MutualExclusion  BY Zenon DEF Inv
<1> QED  BY <1>1, InvariantHolds, PTL

\* async_lock::unlock never leaves a coroutine suspended beside a free lock.
THEOREM AwaitersAreNotStranded == Spec => []NoStrandedAwaiter
<1>1. Inv => NoStrandedAwaiter  BY Zenon DEF Inv
<1> QED  BY <1>1, InvariantHolds, PTL

\* m_locked, the list of awaiters and the coroutines agree.
THEOREM LockStateIsConsistent == Spec => [](TypeOK /\ LockedIffHeld /\ AwaitersAreSuspended)
<1>1. Inv => TypeOK /\ LockedIffHeld /\ AwaitersAreSuspended  BY Zenon DEF Inv
<1> QED  BY <1>1, InvariantHolds, PTL

-----------------------------------------------------------------------------
(* The condition variable and the guards use the lock by its functions.    *)

\* What a coroutine does with the lock is one of the lock's own actions, or
\* leaves it alone.
LEMMA StepUsesTheLock ==
    ASSUME NEW c \in Coros, CvStep(c) \/ UserStep(c)
    PROVE  Next \/ UNCHANGED vars
<1>1. CASE start(c)
  BY Zenon, <1>1 DEF start, Next
<1>2. CASE retry_lock(c)
  BY Zenon, <1>2 DEF retry_lock, Next, Step
<1>3. CASE resumed(c)
  BY Zenon, <1>3 DEF resumed, Next, Step
<1>4. CASE await_suspend_unlock(c) \/ leave(c) \/ put_unlock(c)
  BY Zenon, <1>4 DEF await_suspend_unlock, leave, put_unlock, Next, Step
<1>5. CASE relock(c)
  BY Zenon, <1>5 DEF relock, Next
<1>6. CASE \/ end(c) \/ check(c) \/ await_suspend_lock(c) \/ await_suspend_push(c)
           \/ await_resume_on(c) \/ put(c) \/ notify_one(c) \/ notify_all(c)
           \/ notify_all_next(c) \/ guard_unlocked(c)
  BY Zenon, <1>6 DEF end, check, await_suspend_lock, await_suspend_push, await_resume_on, put,
              notify_one, notify_all, notify_all_next, guard_unlocked
<1>7. CASE guard_resumed(c) \/ guard_resume_failed(c)
  BY Zenon, <1>7 DEF guard_resumed, guard_resume_failed, Next, Step
<1>8. CASE guard_unlock(c) \/ guard_destroy(c)
  BY Zenon, <1>8 DEF guard_unlock, guard_destroy, Next, Step
<1> QED
  BY Zenon, <1>1, <1>2, <1>3, <1>4, <1>5, <1>6, <1>7, <1>8 DEF CvStep, UserStep

\* The same of the calls that a user may or may not make.
LEMMA CallUsesTheLock ==
    ASSUME NEW c \in Coros,
           make_guard(c) \/ guard_lock(c) \/ guard_try_lock(c) \/ guard_release(c)
    PROVE  Next \/ UNCHANGED vars
<1>1. CASE guard_lock(c)
  BY Zenon, <1>1 DEF guard_lock, Next
<1>2. CASE guard_try_lock(c)
  BY Zenon, <1>2 DEF guard_try_lock, Next
<1>3. CASE make_guard(c) \/ guard_release(c)
  BY Zenon, <1>3 DEF make_guard, guard_release
<1> QED
  BY Zenon, <1>1, <1>2, <1>3

\* Every behaviour of the condition variable, its notifiers and the guards is, on
\* m_locked, m_awaiters and the places of the coroutines, a behaviour of
\* async_lock.
THEOREM CvImplementsAsyncLock == CvSpec => ImplementsAsyncLock
<1>1. CvInit => Init
  BY Zenon DEF CvInit
<1>2. [CvNext]_cv_vars => [Next]_vars
  <2>1. ASSUME CvNext PROVE [Next]_vars
    BY Zenon, <2>1, StepUsesTheLock, CallUsesTheLock DEF CvNext
  <2>2. ASSUME UNCHANGED cv_vars PROVE UNCHANGED vars
    BY Zenon, <2>2 DEF cv_vars
  <2> QED
    BY Zenon, <2>1, <2>2
<1> QED
  BY <1>1, <1>2, PTL DEF CvSpec, ImplementsAsyncLock, Spec

\* So the lock's invariant holds however the condition variable and the guards
\* use it: await_impl looks at the predicate, and a guard says that it owns, with
\* the lock in the hands of one coroutine, and no awaiter is stranded.
THEOREM CvKeepsTheLock == CvSpec => []Inv
  BY CvImplementsAsyncLock, InvariantHolds, PTL DEF ImplementsAsyncLock

-----------------------------------------------------------------------------
(* No notification is lost.                                                *)

ConsumerSteps ==
    {"start", "check", "await", "unlocking", "pushing", "suspended", "notified", "relock",
     "leave", "ended", "done"}
ProducerSteps == {"start", "put", "unlock", "notify", "notify_all", "ended", "done"}

\* The steps of consumers and producers that have the lock, and those at which
\* they are on their way to it.
WithLock == {"await", "unlocking", "leave", "unlock"}
GettingLock == {"check", "put"}

\* The types, but for the bound on the items.
CvShape ==
    /\ cv_lock \in Coros \cup {NoCoro}
    /\ cv_awaiters \in Seq(Consumers) /\ Distinct(cv_awaiters)
    /\ items \in Nat
    /\ at \in [Coros -> Steps]
    /\ on \in [Coros -> Coros \cup {NoCoro}]
    /\ batch \in [Producers -> Seq(Consumers)]
    /\ guard \in [Users -> Guards]

StepsOfRoles ==
    /\ \A c \in Consumers : at[c] \in ConsumerSteps
    /\ \A c \in Producers : at[c] \in ProducerSteps
    /\ \A c \in Users : at[c] \in {"use", "unlocked"}

\* Where a consumer or a producer is, and what it has of the lock.
StepMatches(step, place) ==
    /\ place # "interrupted"
    /\ step \in WithLock => place = "in"
    /\ place = "out" <=> step \notin WithLock \cup GettingLock

StepsMatchTheLock == \A c \in Consumers \cup Producers : StepMatches(at[c], pc[c])

\* await_suspend has the mutex of the condition variable from before it unlocks
\* until it is in the list, and there is no item as long as it has the lock.
MutexMatches ==
    \A c \in Consumers :
        /\ at[c] \in {"unlocking", "pushing"} => cv_lock = c
        /\ at[c] \in {"await", "unlocking"} => items = 0

\* A consumer is in one list at most.
ListsAreApart ==
    \A p \in Producers :
        /\ Distinct(batch[p])
        /\ at[p] # "notify_all" => batch[p] = <<>>
        /\ \A c \in Consumers : In(batch[p], c) => ~In(cv_awaiters, c)
        /\ \A q \in Producers \ {p}, c \in Consumers : In(batch[p], c) => ~In(batch[q], c)

Produced == {p \in Producers : at[p] \notin {"start", "put"}}

Pushing == {c \in Consumers : at[c] = "pushing"}

\* Items come from producers; and NoLostNotification holds from the moment at
\* which await_suspend has unlocked the lock.
ItemsAreCounted ==
    /\ items <= Cardinality(Produced)
    /\ cv_awaiters # <<>> \/ Pushing # {} => items <= Cardinality(Notifying) + Cardinality(Awake)

\* The inductive invariant, beside that of the lock.
CvProtocol ==
    /\ CvShape /\ StepsOfRoles /\ StepsMatchTheLock /\ MutexMatches
    /\ CvAwaitersAreSuspended /\ ListsAreApart /\ ItemsAreCounted /\ GuardsMatchTheLock

\* What a step of c does to the places of the others in the lock, and to their
\* steps.
Elsewhere(c) ==
    \A d \in Coros \ {c} : pc'[d] = pc[d] \/ (pc[d] = "waiting" /\ pc'[d] = "retry")
OthersStay(c) == \A d \in Coros \ {c} : at'[d] = at[d]

\* The functions of the lock move their caller, and resume one who waits.
LEMMA LockMoves ==
    ASSUME Inv, NEW c \in Coros
    PROVE  /\ lock(c) => pc[c] = "out" /\ pc'[c] \in {"in", "waiting"} /\ Elsewhere(c)
           /\ try_lock(c) => pc[c] = "out" /\ pc'[c] \in {"in", "out"} /\ Elsewhere(c)
           /\ retry(c) => pc[c] = "retry" /\ pc'[c] \in {"resuming", "waiting"} /\ Elsewhere(c)
           /\ resume_on(c) => pc[c] = "resuming" /\ pc'[c] \in {"in", "interrupted"} /\ Elsewhere(c)
           /\ unlock(c) => pc[c] = "in" /\ pc'[c] = "out" /\ Elsewhere(c)
           /\ resume_failed(c) => pc[c] = "interrupted" /\ pc'[c] = "out" /\ Elsewhere(c)
           /\ UNCHANGED vars => pc'[c] = pc[c] /\ Elsewhere(c)
<1>0. pc \in [Coros -> Places] /\ m_awaiters \in Seq(Coros) /\ Distinct(m_awaiters)
  BY Zenon DEF Inv, TypeOK, Distinct
<1>1. ASSUME Unlock(c), pc[c] # "waiting" PROVE pc'[c] = "out" /\ Elsewhere(c)
  <2>1. CASE m_awaiters = <<>>
    BY Zenon, <1>0, <1>1, <2>1 DEF Unlock, Elsewhere
  <2>2. CASE m_awaiters # <<>>
    <3>1. Head(m_awaiters) \in Coros /\ pc[Head(m_awaiters)] = "waiting"
      BY Zenon, <1>0, <2>2, PopAwaiter DEF Inv, AwaitersAreSuspended, In
    <3>2. pc' = [pc EXCEPT ![c] = "out", ![Head(m_awaiters)] = "retry"]
      BY Zenon, <1>1, <2>2 DEF Unlock
    <3> QED
      BY Zenon, <1>0, <1>1, <3>1, <3>2 DEF Elsewhere
  <2> QED
    BY Zenon, <2>1, <2>2
<1>2. lock(c) => pc[c] = "out" /\ pc'[c] \in {"in", "waiting"} /\ Elsewhere(c)
  BY Zenon, <1>0 DEF lock, TryLock, Elsewhere
<1>3. try_lock(c) => pc[c] = "out" /\ pc'[c] \in {"in", "out"} /\ Elsewhere(c)
  BY Zenon, <1>0 DEF try_lock, Elsewhere
<1>4. retry(c) => pc[c] = "retry" /\ pc'[c] \in {"resuming", "waiting"} /\ Elsewhere(c)
  BY Zenon, <1>0 DEF retry, TryLock, Elsewhere
<1>5. resume_on(c) => pc[c] = "resuming" /\ pc'[c] \in {"in", "interrupted"} /\ Elsewhere(c)
  BY Zenon, <1>0 DEF resume_on, Elsewhere
<1>6. UNCHANGED vars => pc'[c] = pc[c] /\ Elsewhere(c)
  BY Zenon DEF vars, Elsewhere
<1> QED
  BY Zenon, <1>1, <1>2, <1>3, <1>4, <1>5, <1>6 DEF unlock, resume_failed

\* A step keeps everyone's step and place in the lock together, if it does so for
\* the one that takes it.
LEMMA StepsKeep ==
    ASSUME CvProtocol, NEW c \in Coros, Elsewhere(c), OthersStay(c),
           c \in Consumers => at'[c] \in ConsumerSteps,
           c \in Producers => at'[c] \in ProducerSteps,
           c \in Users => at'[c] \in {"use", "unlocked"},
           c \notin Users => StepMatches(at'[c], pc'[c])
    PROVE  StepsOfRoles' /\ StepsMatchTheLock'
<1>1. StepsOfRoles'
  BY Zenon, Roles DEF CvProtocol, StepsOfRoles, OthersStay
<1>2. ASSUME NEW d \in Consumers \cup Producers PROVE StepMatches(at'[d], pc'[d])
  <2>1. d \in Coros /\ d \notin Users
    BY Zenon, Roles
  <2>2. CASE d = c
    BY Zenon, <2>1, <2>2
  <2>3. CASE d # c
    <3>1. at'[d] = at[d] /\ StepMatches(at[d], pc[d])
          /\ (pc'[d] = pc[d] \/ (pc[d] = "waiting" /\ pc'[d] = "retry"))
      BY Zenon, <2>1, <2>3 DEF OthersStay, Elsewhere, CvProtocol, StepsMatchTheLock
    <3> QED
      BY Zenon, <3>1 DEF StepMatches
  <2> QED
    BY Zenon, <2>2, <2>3
<1> QED
  BY Zenon, <1>1, <1>2 DEF StepsMatchTheLock

\* What a user has of the lock, by its guard and its step.
GuardMatches(step, g, place) ==
    IF step = "unlocked" THEN g = "owns" /\ place = "out"
    ELSE g \in {"owns", "released"} <=> place = "in"

\* A step that is no user's, or leaves its guard right, leaves all guards right.
LEMMA GuardsKeep ==
    ASSUME CvProtocol, NEW c \in Coros, Elsewhere(c), OthersStay(c),
           \A u \in Users \ {c} : guard'[u] = guard[u],
           c \in Users => GuardMatches(at'[c], guard'[c], pc'[c])
    PROVE  GuardsMatchTheLock'
<1> SUFFICES ASSUME NEW u \in Users PROVE GuardMatches(at'[u], guard'[u], pc'[u])
  BY Zenon DEF GuardsMatchTheLock, GuardMatches
<1>1. u \in Coros /\ GuardMatches(at[u], guard[u], pc[u])
  BY Zenon, Roles DEF CvProtocol, GuardsMatchTheLock, GuardMatches
<1>2. CASE u # c
  <2>1. at'[u] = at[u] /\ guard'[u] = guard[u]
        /\ (pc'[u] = pc[u] \/ (pc[u] = "waiting" /\ pc'[u] = "retry"))
    BY Zenon, <1>1, <1>2 DEF OthersStay, Elsewhere
  <2> QED
    BY Zenon, <1>1, <2>1 DEF GuardMatches
<1> QED
  BY Zenon, <1>2

\* A step that leaves the lists alone, and suspends nobody.
LEMMA ListsKeep ==
    ASSUME CvProtocol, cv_awaiters' = cv_awaiters, batch' = batch,
           \A c \in Consumers : at'[c] = "suspended" <=> at[c] = "suspended",
           \A p \in Producers : at[p] = "notify_all" => at'[p] = "notify_all" \/ batch[p] = <<>>
    PROVE  CvAwaitersAreSuspended' /\ ListsAreApart'
<1>1. CvAwaitersAreSuspended'
  BY Zenon DEF CvProtocol, CvAwaitersAreSuspended
<1>2. ListsAreApart'
  BY Zenon DEF CvProtocol, ListsAreApart
<1> QED
  BY Zenon, <1>1, <1>2

\* The sets that are counted are finite.
LEMMA CountsAreFinite ==
    /\ IsFiniteSet(Produced) /\ IsFiniteSet(Notifying) /\ IsFiniteSet(Awake)
    /\ Cardinality(Produced) \in Nat /\ Cardinality(Notifying) \in Nat /\ Cardinality(Awake) \in Nat
    /\ Cardinality(Produced) <= Cardinality(Producers) /\ Cardinality(Producers) \in Nat
<1>1. IsFiniteSet(Producers) /\ IsFiniteSet(Consumers)
  <2>1. Producers \subseteq Coros /\ Consumers \subseteq Coros
    BY Zenon, Roles
  <2> QED
    BY Zenon, <2>1, CorosAreFinite, FS_Subset
<1>2. Produced \subseteq Producers /\ Notifying \subseteq Producers /\ Awake \subseteq Consumers
  BY Zenon DEF Produced, Notifying, Awake
<1> QED
  BY Zenon, <1>1, <1>2, FS_Subset, FS_CardinalityType

\* The primed sets are finite as well.
LEMMA CountsAreFiniteAfter ==
    /\ IsFiniteSet(Produced') /\ IsFiniteSet(Notifying') /\ IsFiniteSet(Awake')
    /\ Cardinality(Produced') \in Nat /\ Cardinality(Notifying') \in Nat /\ Cardinality(Awake') \in Nat
    /\ Cardinality(Produced') <= Cardinality(Producers) /\ Cardinality(Producers) \in Nat
<1>1. IsFiniteSet(Producers) /\ IsFiniteSet(Consumers)
  <2>1. Producers \subseteq Coros /\ Consumers \subseteq Coros
    BY Zenon, Roles
  <2> QED
    BY Zenon, <2>1, CorosAreFinite, FS_Subset
<1>2. Produced' \subseteq Producers /\ Notifying' \subseteq Producers /\ Awake' \subseteq Consumers
  BY Zenon DEF Produced, Notifying, Awake
<1> QED
  BY Zenon, <1>1, <1>2, FS_Subset, FS_CardinalityType

\* The counts after a step that takes nobody from those who are going to look at
\* the predicate or to notify.
LEMMA CountsKeep ==
    ASSUME CvProtocol, items' = items,
           Produced \subseteq Produced', Notifying \subseteq Notifying', Awake \subseteq Awake',
           (cv_awaiters # <<>> \/ Pushing # {})' => cv_awaiters # <<>> \/ Pushing # {} \/ items = 0
    PROVE  ItemsAreCounted'
<1>1. /\ Cardinality(Produced) <= Cardinality(Produced')
      /\ Cardinality(Notifying) <= Cardinality(Notifying')
      /\ Cardinality(Awake) <= Cardinality(Awake')
  BY Zenon, CountsAreFiniteAfter, FS_Subset
<1>2. items \in Nat /\ ItemsAreCounted
  BY Zenon DEF CvProtocol, CvShape
<1> HIDE DEF Produced, Notifying, Awake, Pushing
<1>3. items' <= Cardinality(Produced')
  BY <1>1, <1>2, CountsAreFinite, CountsAreFiniteAfter DEF ItemsAreCounted
<1>4. ASSUME (cv_awaiters # <<>> \/ Pushing # {})'
      PROVE  items' <= Cardinality(Notifying') + Cardinality(Awake')
  <2>1. CASE items = 0
    BY <2>1, CountsAreFiniteAfter
  <2>2. CASE cv_awaiters # <<>> \/ Pushing # {}
    BY <1>1, <1>2, <2>2, CountsAreFinite, CountsAreFiniteAfter DEF ItemsAreCounted
  <2> QED
    BY Zenon, <1>4, <2>1, <2>2
<1> QED
  BY Zenon, <1>3, <1>4 DEF ItemsAreCounted

\* A step of c that leaves the condition variable alone: what c goes to agrees
\* with what it has of the locks, and c does not stop caring about an item.
QuietMove(c) ==
    /\ Elsewhere(c) /\ OthersStay(c)
    /\ cv_lock' = cv_lock /\ cv_awaiters' = cv_awaiters /\ items' = items /\ batch' = batch
    /\ \A u \in Users \ {c} : guard'[u] = guard[u]
    /\ c \in Users => at'[c] \in {"use", "unlocked"} /\ GuardMatches(at'[c], guard'[c], pc'[c])
    /\ c \notin Users => StepMatches(at'[c], pc'[c])
    /\ c \in Consumers =>
        /\ at'[c] \in ConsumerSteps
        /\ at'[c] = "suspended" <=> at[c] = "suspended"
        /\ at[c] \in {"start", "check", "notified", "relock"}
              => at'[c] \in {"start", "check", "notified", "relock"}
        /\ at'[c] \in {"unlocking", "pushing"} => cv_lock = c
        /\ at'[c] \in {"await", "unlocking", "pushing"} => items = 0 \/ at[c] = at'[c]
    /\ c \in Producers =>
        /\ at'[c] \in ProducerSteps
        /\ at[c] \in {"unlock", "notify"} => at'[c] \in {"unlock", "notify"}
        /\ at'[c] \in {"start", "put"} => at[c] \in {"start", "put"}
        /\ at[c] = "notify_all" => at'[c] = "notify_all" \/ batch[c] = <<>>

\* A step that touches no list, no item and no mutex keeps the protocol.
LEMMA QuietMovesKeep ==
    ASSUME CvProtocol, CvShape', NEW c \in Coros, QuietMove(c)
    PROVE  CvProtocol'
<1>1. StepsOfRoles' /\ StepsMatchTheLock'
  BY Zenon, StepsKeep DEF QuietMove
<1>2. GuardsMatchTheLock'
  BY Zenon, GuardsKeep DEF QuietMove
<1>0. \A d \in Coros : d # c => at'[d] = at[d]
  BY Zenon DEF QuietMove, OthersStay
<1>3. CvAwaitersAreSuspended' /\ ListsAreApart'
  <2>1. cv_awaiters' = cv_awaiters /\ batch' = batch
    BY Zenon DEF QuietMove
  <2>2. \A d \in Consumers : at'[d] = "suspended" <=> at[d] = "suspended"
    BY Zenon, <1>0, Roles DEF QuietMove
  <2>3. \A p \in Producers : at[p] = "notify_all" => at'[p] = "notify_all" \/ batch[p] = <<>>
    BY Zenon, <1>0, Roles DEF QuietMove
  <2> QED
    BY Zenon, <2>1, <2>2, <2>3, ListsKeep
<1>4. MutexMatches'
  BY Zenon, <1>0, Roles DEF QuietMove, MutexMatches, CvProtocol
<1>5. ItemsAreCounted'
  <2>1. Produced \subseteq Produced'
    BY Zenon, <1>0, Roles DEF QuietMove, Produced
  <2>2. Notifying \subseteq Notifying'
    BY Zenon, <1>0, Roles DEF QuietMove, Notifying
  <2>3. Awake \subseteq Awake'
    <3>1. \A d \in Consumers : at'[d] = "suspended" <=> at[d] = "suspended"
      BY Zenon, <1>0, Roles DEF QuietMove
    <3>2. \A d \in Consumers : at[d] \in {"start", "check", "notified", "relock"}
                                  => at'[d] \in {"start", "check", "notified", "relock"}
      BY Zenon, <1>0, Roles DEF QuietMove
    <3> QED
      BY Zenon, <3>1, <3>2 DEF QuietMove, Awake
  <2>4. Pushing' # {} => Pushing # {} \/ items = 0
    BY Zenon, <1>0, Roles DEF QuietMove, Pushing
  <2> QED
    BY Zenon, <2>1, <2>2, <2>3, <2>4, CountsKeep DEF QuietMove
<1> QED
  BY Zenon, <1>1, <1>2, <1>3, <1>4, <1>5 DEF CvProtocol

\* Who resumes whom, by type.
LEMMA StacksType ==
    ASSUME CvShape, NEW c \in Coros
    PROVE  Stacks(c) \in [Coros -> Coros \cup {NoCoro}]
  BY Zenon DEF CvShape, Stacks

\* Who takes a step, by the step it takes.
LEMMA WhoIsAt ==
    ASSUME CvProtocol, NEW c \in Coros
    PROVE  /\ c \in Consumers \/ c \in Producers \/ c \in Users
           /\ c \in Consumers => c \notin Producers /\ c \notin Users /\ at[c] \in ConsumerSteps
           /\ c \in Producers => c \notin Consumers /\ c \notin Users /\ at[c] \in ProducerSteps
           /\ c \in Users => c \notin Consumers /\ c \notin Producers /\ at[c] \in {"use", "unlocked"}
           /\ c \notin Users => StepMatches(at[c], pc[c])
           /\ c \in Users => GuardMatches(at[c], guard[c], pc[c])
  BY Zenon, Roles DEF CvProtocol, StepsOfRoles, StepsMatchTheLock, GuardsMatchTheLock, GuardMatches

\* The steps that only use the lock, or nothing.
LEMMA QuietSteps ==
    ASSUME Inv, CvProtocol, NEW c \in Coros,
           \/ start(c) \/ retry_lock(c) \/ resumed(c) \/ await_suspend_unlock(c)
           \/ await_resume_on(c) \/ relock(c) \/ leave(c) \/ put_unlock(c) \/ end(c)
    PROVE  CvProtocol'
<1>0. CvShape
  BY Zenon DEF CvProtocol
<1>s. ASSUME UNCHANGED <<cond, guard>>, on' \in [Coros -> Coros \cup {NoCoro}],
             at' = at \/ \E to \in Steps : at' = [at EXCEPT ![c] = to]
      PROVE  CvShape' /\ OthersStay(c)
  BY Zenon, <1>0, <1>s DEF CvShape, cond, OthersStay
<1>t. on \in [Coros -> Coros \cup {NoCoro}] /\ at \in [Coros -> Steps]
      /\ [on EXCEPT ![c] = NoCoro] \in [Coros -> Coros \cup {NoCoro}]
      /\ Stacks(c) \in [Coros -> Coros \cup {NoCoro}]
  BY Zenon, <1>0, StacksType DEF CvShape
<1>1. CASE start(c)
  <2>1. CvShape' /\ OthersStay(c)
    BY Zenon, <1>1, <1>s, <1>t DEF start, At, Steps
  <2>2. at[c] = "start" /\ c \notin Users /\ Elsewhere(c) /\ pc'[c] \in {"in", "waiting"}
        /\ at'[c] = IF c \in Consumers THEN "check" ELSE "put"
    BY Zenon, <1>1, <1>t, LockMoves, WhoIsAt DEF start, At
  <2>3. StepMatches(at'[c], pc'[c])
    BY Zenon, <2>2 DEF StepMatches, WithLock, GettingLock
  <2>4. QuietMove(c)
    BY Zenon, <1>1, <2>1, <2>2, <2>3, WhoIsAt DEF QuietMove, start, cond, ConsumerSteps, ProducerSteps
  <2> QED
    BY Zenon, <2>1, <2>4, QuietMovesKeep
<1>2. CASE retry_lock(c)
  <2>1. CvShape' /\ OthersStay(c)
    BY Zenon, <1>2, <1>s, <1>t DEF retry_lock
  <2>2. Elsewhere(c) /\ pc[c] = "retry" /\ pc'[c] \in {"resuming", "waiting"} /\ at' = at
    BY Zenon, <1>2, LockMoves DEF retry_lock
  <2>3. c \notin Users => StepMatches(at'[c], pc'[c])
    BY Zenon, <2>2, WhoIsAt DEF StepMatches
  <2>4. c \in Users => GuardMatches(at[c], guard[c], pc'[c])
    BY Zenon, <2>2, WhoIsAt DEF GuardMatches
  <2>5. \A d \in Consumers : at[d] \in {"unlocking", "pushing"} => cv_lock = d
    BY Zenon DEF CvProtocol, MutexMatches
  <2>6. QuietMove(c)
    BY Zenon, <1>2, <2>1, <2>2, <2>3, <2>4, <2>5, WhoIsAt DEF QuietMove, retry_lock, cond
  <2> QED
    BY Zenon, <2>1, <2>6, QuietMovesKeep
<1>3. CASE resumed(c)
  <2>1. CvShape' /\ OthersStay(c)
    BY Zenon, <1>3, <1>s, <1>t DEF resumed
  <2>2. Elsewhere(c) /\ pc[c] = "resuming" /\ pc'[c] = "in" /\ at' = at /\ c \notin Users
    BY Zenon, <1>3, LockMoves DEF resumed
  <2>3. StepMatches(at'[c], pc'[c])
    BY Zenon, <2>2, WhoIsAt DEF StepMatches
  <2>5. \A d \in Consumers : at[d] \in {"unlocking", "pushing"} => cv_lock = d
    BY Zenon DEF CvProtocol, MutexMatches
  <2>6. QuietMove(c)
    BY Zenon, <1>3, <2>1, <2>2, <2>3, <2>5, WhoIsAt DEF QuietMove, resumed, cond
  <2> QED
    BY Zenon, <2>1, <2>6, QuietMovesKeep
<1>4. CASE await_suspend_unlock(c)
  <2>1. CvShape' /\ OthersStay(c)
    BY Zenon, <1>4, <1>s, <1>t DEF await_suspend_unlock, At, Steps
  <2>2. Elsewhere(c) /\ pc'[c] = "out" /\ at[c] = "unlocking" /\ at'[c] = "pushing"
    BY Zenon, <1>4, <1>t, LockMoves DEF await_suspend_unlock, At
  <2>3. c \in Consumers /\ StepMatches(at'[c], pc'[c])
    BY Zenon, <2>2, WhoIsAt DEF StepMatches, WithLock, GettingLock, ProducerSteps
  <2>4. cv_lock = c /\ items = 0
    BY Zenon, <2>2, <2>3 DEF CvProtocol, MutexMatches
  <2>5. QuietMove(c)
    BY Zenon, <1>4, <2>1, <2>2, <2>3, <2>4, WhoIsAt
    DEF QuietMove, await_suspend_unlock, cond, ConsumerSteps
  <2> QED
    BY Zenon, <2>1, <2>5, QuietMovesKeep
<1>5. CASE await_resume_on(c)
  <2>1. CvShape' /\ OthersStay(c)
    BY Zenon, <1>5, <1>s, <1>t DEF await_resume_on, At, Steps
  <2>2. Elsewhere(c) /\ pc'[c] = pc[c] /\ at[c] = "notified" /\ at'[c] = "relock"
    BY Zenon, <1>5, <1>t, LockMoves DEF await_resume_on, At
  <2>3. c \in Consumers /\ StepMatches(at'[c], pc'[c])
    BY Zenon, <2>2, WhoIsAt DEF StepMatches, WithLock, GettingLock, ProducerSteps
  <2>4. QuietMove(c)
    BY Zenon, <1>5, <2>1, <2>2, <2>3, WhoIsAt DEF QuietMove, await_resume_on, cond, ConsumerSteps
  <2> QED
    BY Zenon, <2>1, <2>4, QuietMovesKeep
<1>6. CASE relock(c)
  <2>1. CvShape' /\ OthersStay(c)
    BY Zenon, <1>6, <1>s, <1>t DEF relock, At, Steps
  <2>2. Elsewhere(c) /\ pc'[c] \in {"in", "waiting"} /\ at[c] = "relock" /\ at'[c] = "check"
    BY Zenon, <1>6, <1>t, LockMoves DEF relock, At
  <2>3. c \in Consumers /\ StepMatches(at'[c], pc'[c])
    BY Zenon, <2>2, WhoIsAt DEF StepMatches, WithLock, GettingLock, ProducerSteps
  <2>4. QuietMove(c)
    BY Zenon, <1>6, <2>1, <2>2, <2>3, WhoIsAt DEF QuietMove, relock, cond, ConsumerSteps
  <2> QED
    BY Zenon, <2>1, <2>4, QuietMovesKeep
<1>7. CASE leave(c)
  <2>1. CvShape' /\ OthersStay(c)
    BY Zenon, <1>7, <1>s, <1>t DEF leave, At, Steps
  <2>2. Elsewhere(c) /\ pc'[c] = "out" /\ at[c] = "leave" /\ at'[c] = "ended"
    BY Zenon, <1>7, <1>t, LockMoves DEF leave, At
  <2>3. c \in Consumers /\ StepMatches(at'[c], pc'[c])
    BY Zenon, <2>2, WhoIsAt DEF StepMatches, WithLock, GettingLock, ProducerSteps
  <2>4. QuietMove(c)
    BY Zenon, <1>7, <2>1, <2>2, <2>3, WhoIsAt DEF QuietMove, leave, cond, ConsumerSteps
  <2> QED
    BY Zenon, <2>1, <2>4, QuietMovesKeep
<1>8. CASE put_unlock(c)
  <2>1. CvShape' /\ OthersStay(c)
    BY Zenon, <1>8, <1>s, <1>t DEF put_unlock, At, Steps
  <2>2. Elsewhere(c) /\ pc'[c] = "out" /\ at[c] = "unlock" /\ at'[c] = "notify"
    BY Zenon, <1>8, <1>t, LockMoves DEF put_unlock, At
  <2>3. c \in Producers /\ StepMatches(at'[c], pc'[c])
    BY Zenon, <2>2, WhoIsAt DEF StepMatches, WithLock, GettingLock, ConsumerSteps
  <2>4. QuietMove(c)
    BY Zenon, <1>8, <2>1, <2>2, <2>3, WhoIsAt DEF QuietMove, put_unlock, cond, ProducerSteps
  <2> QED
    BY Zenon, <2>1, <2>4, QuietMovesKeep
<1>9. CASE end(c)
  <2>1. CvShape' /\ OthersStay(c)
    BY Zenon, <1>9, <1>s, <1>t DEF end, At, Steps
  <2>2. Elsewhere(c) /\ pc'[c] = pc[c] /\ at[c] = "ended" /\ at'[c] = "done"
    BY Zenon, <1>9, <1>t, LockMoves DEF end, At
  <2>3. c \notin Users /\ StepMatches(at'[c], pc'[c])
    BY Zenon, <2>2, WhoIsAt DEF StepMatches, WithLock, GettingLock
  <2>4. QuietMove(c)
    BY Zenon, <1>9, <2>1, <2>2, <2>3, WhoIsAt DEF QuietMove, end, cond, ConsumerSteps, ProducerSteps
  <2> QED
    BY Zenon, <2>1, <2>4, QuietMovesKeep
<1> QED
  BY Zenon, <1>1, <1>2, <1>3, <1>4, <1>5, <1>6, <1>7, <1>8, <1>9

\* The users' steps: guards and the lock change together.
LEMMA UserSteps ==
    ASSUME Inv, CvProtocol, NEW c \in Coros,
           \/ UserStep(c)
           \/ make_guard(c) \/ guard_lock(c) \/ guard_try_lock(c) \/ guard_release(c)
    PROVE  CvProtocol'
<1>0. /\ CvShape /\ at \in [Coros -> Steps] /\ guard \in [Users -> Guards]
      /\ on \in [Coros -> Coros \cup {NoCoro}] /\ Stacks(c) \in [Coros -> Coros \cup {NoCoro}]
  BY Zenon, StacksType DEF CvProtocol, CvShape
<1>1. c \in Users /\ c \notin Consumers /\ c \notin Producers
  BY Zenon, WhoIsAt
  DEF UserStep, make_guard, guard_lock, guard_try_lock, guard_release, guard_resumed,
      guard_resume_failed, guard_unlock, guard_unlocked, guard_destroy, Uses, At, ConsumerSteps,
      ProducerSteps
<1>2. GuardMatches(at[c], guard[c], pc[c]) /\ at[c] \in {"use", "unlocked"}
  BY Zenon, <1>1, WhoIsAt
<1> DEFINE Safe(to, g) ==
        /\ UNCHANGED cond
        /\ on' = on \/ on' = Stacks(c)
        /\ at' = at \/ at' = [at EXCEPT ![c] = to]
        /\ guard' = guard \/ guard' = [guard EXCEPT ![c] = g]
<1>3. ASSUME NEW to \in {"use", "unlocked"}, NEW g \in Guards, Safe(to, g), Elsewhere(c),
             GuardMatches(at'[c], guard'[c], pc'[c])
      PROVE  CvProtocol'
  <2>0. to \in Steps /\ guard' \in [Users -> Guards] /\ on' \in [Coros -> Coros \cup {NoCoro}]
    BY Zenon, <1>0, <1>3 DEF Steps
  <2>a. at' \in [Coros -> Steps] /\ OthersStay(c) /\ at'[c] \in {"use", "unlocked"}
    BY Zenon, <1>0, <1>2, <1>3, <2>0 DEF OthersStay
  <2>1. CvShape' /\ OthersStay(c) /\ at'[c] \in {"use", "unlocked"}
    BY Zenon, <1>0, <1>3, <2>0, <2>a DEF CvShape, cond
  <2>2. \A u \in Users \ {c} : guard'[u] = guard[u]
    BY Zenon, <1>0, <1>3
  <2>3. QuietMove(c)
    BY Zenon, <1>1, <1>3, <2>1, <2>2 DEF QuietMove, cond
  <2> QED
    BY Zenon, <2>1, <2>3, QuietMovesKeep
<1>a. /\ "use" \in {"use", "unlocked"} /\ "unlocked" \in {"use", "unlocked"}
      /\ "none" \in Guards /\ "deferred" \in Guards /\ "owns" \in Guards /\ "released" \in Guards
  BY Zenon DEF Guards
<1>4. CASE make_guard(c)
  <2>1. Elsewhere(c) /\ pc'[c] = pc[c]
    BY Zenon, <1>4, LockMoves DEF make_guard
  <2>2. CASE Uses(c, {"none"}) /\ pc[c] = "out" /\ SetGuard(c, "deferred")
    <3>1. Safe("use", "deferred") /\ GuardMatches(at'[c], guard'[c], pc'[c])
      BY Zenon, <1>0, <1>1, <1>4, <2>1, <2>2 DEF make_guard, Uses, SetGuard, GuardMatches, cond
    <3> QED  BY Zenon, <1>3, <1>a, <2>1, <3>1
  <2>3. CASE Uses(c, {"released"}) /\ SetGuard(c, "owns")
    <3>1. Safe("use", "owns") /\ GuardMatches(at'[c], guard'[c], pc'[c])
      BY Zenon, <1>0, <1>1, <1>2, <1>4, <2>1, <2>3 DEF make_guard, Uses, SetGuard, GuardMatches, cond
    <3> QED  BY Zenon, <1>3, <1>a, <2>1, <3>1
  <2> QED
    BY Zenon, <1>4, <2>2, <2>3 DEF make_guard
<1>5. CASE guard_lock(c)
  <2>1. Elsewhere(c) /\ pc[c] = "out"
    BY Zenon, <1>5, LockMoves DEF guard_lock
  <2>2. GuardMatches(at'[c], guard'[c], pc'[c])
    BY Zenon, <1>0, <1>1, <1>5 DEF guard_lock, Uses, OwnIfIn, SetGuard, GuardMatches
  <2>3. Safe("use", IF pc'[c] = "in" THEN "owns" ELSE guard[c])
    BY Zenon, <1>5 DEF guard_lock, OwnIfIn, SetGuard
  <2> QED  BY Zenon, <1>0, <1>1, <1>3, <1>a, <2>1, <2>2, <2>3
<1>6. CASE guard_try_lock(c)
  <2>1. Elsewhere(c) /\ pc[c] = "out"
    BY Zenon, <1>6, LockMoves DEF guard_try_lock
  <2>2. CASE Uses(c, {"deferred"}) /\ OwnIfIn(c)
    <3>1. GuardMatches(at'[c], guard'[c], pc'[c])
      BY Zenon, <1>0, <1>1, <1>6, <2>2 DEF guard_try_lock, Uses, OwnIfIn, SetGuard, GuardMatches
    <3>2. Safe("use", IF pc'[c] = "in" THEN "owns" ELSE guard[c])
      BY Zenon, <1>6, <2>2 DEF guard_try_lock, OwnIfIn, SetGuard
    <3> QED  BY Zenon, <1>0, <1>1, <1>3, <1>a, <2>1, <3>1, <3>2
  <2>3. CASE Uses(c, {"none"}) /\ SetGuard(c, IF pc'[c] = "in" THEN "released" ELSE "none")
    <3>1. GuardMatches(at'[c], guard'[c], pc'[c])
      BY Zenon, <1>0, <1>1, <1>6, <2>3 DEF guard_try_lock, Uses, SetGuard, GuardMatches
    <3>2. Safe("use", IF pc'[c] = "in" THEN "released" ELSE "none")
      BY Zenon, <1>6, <2>3 DEF guard_try_lock, SetGuard
    <3> QED  BY Zenon, <1>3, <1>a, <2>1, <3>1, <3>2
  <2> QED
    BY Zenon, <1>6, <2>2, <2>3 DEF guard_try_lock
<1>7. CASE guard_release(c)
  <2>1. Elsewhere(c) /\ pc'[c] = pc[c]
    BY Zenon, <1>7, LockMoves DEF guard_release
  <2>2. GuardMatches(at'[c], guard'[c], pc'[c])
    BY Zenon, <1>0, <1>1, <1>2, <1>7, <2>1 DEF guard_release, Uses, SetGuard, GuardMatches
  <2>3. Safe("use", IF guard[c] = "owns" THEN "released" ELSE "none")
    BY Zenon, <1>7 DEF guard_release, SetGuard
  <2> QED  BY Zenon, <1>3, <1>a, <2>1, <2>2, <2>3
<1>8. CASE guard_resumed(c)
  <2>1. Elsewhere(c) /\ pc[c] = "resuming"
    BY Zenon, <1>8, LockMoves DEF guard_resumed
  <2>2. GuardMatches(at'[c], guard'[c], pc'[c])
    BY Zenon, <1>0, <1>1, <1>2, <1>8, <2>1 DEF guard_resumed, OwnIfIn, SetGuard, GuardMatches
  <2>3. Safe("use", IF pc'[c] = "in" THEN "owns" ELSE guard[c])
    BY Zenon, <1>8 DEF guard_resumed, OwnIfIn, SetGuard
  <2> QED  BY Zenon, <1>0, <1>1, <1>3, <1>a, <2>1, <2>2, <2>3
<1>9. CASE guard_resume_failed(c)
  <2>1. Elsewhere(c) /\ pc[c] = "interrupted" /\ pc'[c] = "out"
    BY Zenon, <1>9, LockMoves DEF guard_resume_failed
  <2>2. GuardMatches(at'[c], guard'[c], pc'[c])
    BY Zenon, <1>2, <1>9, <2>1 DEF guard_resume_failed, GuardMatches
  <2>3. Safe("use", "none")
    BY Zenon, <1>9 DEF guard_resume_failed
  <2> QED  BY Zenon, <1>3, <1>a, <2>1, <2>2, <2>3
<1>10. CASE guard_unlock(c)
  <2>1. Elsewhere(c) /\ pc'[c] = "out"
    BY Zenon, <1>10, LockMoves DEF guard_unlock
  <2>2. GuardMatches(at'[c], guard'[c], pc'[c])
    BY Zenon, <1>0, <1>10, <2>1 DEF guard_unlock, Uses, GuardMatches
  <2>3. Safe("unlocked", "none")
    BY Zenon, <1>10 DEF guard_unlock
  <2> QED  BY Zenon, <1>3, <1>a, <2>1, <2>2, <2>3
<1>11. CASE guard_unlocked(c)
  <2>1. Elsewhere(c) /\ pc'[c] = pc[c]
    BY Zenon, <1>11, LockMoves DEF guard_unlocked
  <2>2. GuardMatches(at'[c], guard'[c], pc'[c])
    BY Zenon, <1>0, <1>1, <1>2, <1>11, <2>1 DEF guard_unlocked, At, SetGuard, GuardMatches
  <2>3. Safe("use", "deferred")
    BY Zenon, <1>11 DEF guard_unlocked, At, SetGuard
  <2> QED  BY Zenon, <1>3, <1>a, <2>1, <2>2, <2>3
<1>12. CASE guard_destroy(c)
  <2>1. Elsewhere(c) /\ pc'[c] = "out"
    BY Zenon, <1>12, LockMoves DEF guard_destroy
  <2>2. GuardMatches(at'[c], guard'[c], pc'[c])
    BY Zenon, <1>0, <1>1, <1>12, <2>1 DEF guard_destroy, Uses, SetGuard, GuardMatches
  <2>3. Safe("use", "none")
    BY Zenon, <1>12 DEF guard_destroy, SetGuard
  <2> QED  BY Zenon, <1>3, <1>a, <2>1, <2>2, <2>3
<1> QED
  BY Zenon, <1>4, <1>5, <1>6, <1>7, <1>8, <1>9, <1>10, <1>11, <1>12 DEF UserStep

\* One who has the lock is alone in it, so nobody else has seen that there is no
\* item and is still to suspend.
LEMMA AloneInTheLock ==
    ASSUME Inv, CvProtocol, NEW c \in Coros, pc[c] = "in"
    PROVE  \A d \in Consumers : d # c => at[d] \notin {"await", "unlocking"}
<1> SUFFICES ASSUME NEW d \in Consumers, d # c, at[d] \in {"await", "unlocking"}
             PROVE  FALSE
  BY Zenon
<1>1. d \in Coros /\ pc[d] = "in"
  BY Zenon, Roles DEF CvProtocol, StepsMatchTheLock, StepMatches, WithLock
<1> QED
  BY Zenon, <1>1 DEF Inv, MutualExclusion, Holders

\* While nobody has the mutex of the condition variable, nobody is between its
\* unlock and the list.
LEMMA NobodyPushes ==
    ASSUME CvProtocol, cv_lock = NoCoro
    PROVE  Pushing = {} /\ \A d \in Consumers : at[d] \notin {"unlocking", "pushing"}
  BY Zenon, Roles, CorosAreFinite DEF CvProtocol, MutexMatches, Pushing

\* A consumer checks its predicate under the lock, and takes an item or awaits.
LEMMA CheckKeeps ==
    ASSUME Inv, CvProtocol, NEW c \in Coros, check(c)
    PROVE  CvProtocol'
<1>0. CvShape /\ at \in [Coros -> Steps] /\ items \in Nat
  BY Zenon DEF CvProtocol, CvShape
<1>1. /\ at[c] = "check" /\ pc[c] = "in" /\ c \in Consumers /\ c \notin Producers /\ c \notin Users
      /\ Elsewhere(c) /\ pc'[c] = pc[c]
  BY Zenon, LockMoves, WhoIsAt DEF check, At, ProducerSteps
<1>2. CASE items = 0
  <2>1. at' = [at EXCEPT ![c] = "await"] /\ items' = items
    BY <1>0, <1>2 DEF check, At
  <2>2. CvShape' /\ OthersStay(c) /\ at'[c] = "await"
    BY Zenon, <1>0, <2>1 DEF check, CvShape, OthersStay, Steps
  <2>3. StepsOfRoles' /\ StepsMatchTheLock'
    BY Zenon, <1>1, <2>2, StepsKeep DEF StepMatches, WithLock, GettingLock, ConsumerSteps
  <2>4. GuardsMatchTheLock'
    BY Zenon, <1>1, <2>2, GuardsKeep DEF check
  <2>5. CvAwaitersAreSuspended' /\ ListsAreApart'
    BY Zenon, <1>0, <1>1, <2>1, Roles, ListsKeep DEF check
  <2>6. MutexMatches'
    BY Zenon, <1>0, <1>1, <1>2, <2>1, Roles DEF check, MutexMatches, CvProtocol
  <2>7. ItemsAreCounted'
    BY <1>2, <2>1, CountsAreFiniteAfter DEF ItemsAreCounted
  <2> QED
    BY Zenon, <2>2, <2>3, <2>4, <2>5, <2>6, <2>7 DEF CvProtocol
<1>3. CASE items # 0
  <2>1. at' = [at EXCEPT ![c] = "leave"] /\ items' = items - 1 /\ items' \in Nat
    BY <1>0, <1>3 DEF check, At
  <2>2. CvShape' /\ OthersStay(c) /\ at'[c] = "leave"
    BY Zenon, <1>0, <2>1 DEF check, CvShape, OthersStay, Steps
  <2>3. StepsOfRoles' /\ StepsMatchTheLock'
    BY Zenon, <1>1, <2>2, StepsKeep DEF StepMatches, WithLock, GettingLock, ConsumerSteps
  <2>4. GuardsMatchTheLock'
    BY Zenon, <1>1, <2>2, GuardsKeep DEF check
  <2>5. CvAwaitersAreSuspended' /\ ListsAreApart'
    BY Zenon, <1>0, <1>1, <2>1, Roles, ListsKeep DEF check
  <2>6. MutexMatches'
    BY Zenon, <1>0, <1>1, <2>1, Roles, AloneInTheLock DEF check, MutexMatches, CvProtocol
  <2>7. ItemsAreCounted'
    <3>1. Produced' = Produced /\ Notifying' = Notifying
      BY Zenon, <1>0, <1>1, <2>1, Roles DEF Produced, Notifying
    <3>2. c \in Awake /\ Awake' = Awake \ {c}
      BY Zenon, <1>0, <1>1, <2>1, Roles DEF Awake, check
    <3>3. Cardinality(Awake') = Cardinality(Awake) - 1
      BY Zenon, <3>2, CountsAreFinite, FS_RemoveElement
    <3>4. Pushing' = Pushing /\ cv_awaiters' = cv_awaiters
      BY Zenon, <1>0, <1>1, <2>1, Roles DEF Pushing, check
    <3>5. ItemsAreCounted
      BY Zenon DEF CvProtocol
    <3> HIDE DEF Produced, Notifying, Awake, Pushing
    <3> QED
      BY <1>0, <2>1, <3>1, <3>3, <3>4, <3>5, CountsAreFinite DEF ItemsAreCounted
  <2> QED
    BY Zenon, <2>2, <2>3, <2>4, <2>5, <2>6, <2>7 DEF CvProtocol
<1> QED
  BY Zenon, <1>2, <1>3

\* A producer puts an item, and owes a notification.
LEMMA PutKeeps ==
    ASSUME Inv, CvProtocol, NEW c \in Coros, put(c)
    PROVE  CvProtocol'
<1>0. CvShape /\ at \in [Coros -> Steps] /\ items \in Nat
  BY Zenon DEF CvProtocol, CvShape
<1>1. /\ at[c] = "put" /\ pc[c] = "in" /\ c \in Producers /\ c \notin Consumers /\ c \notin Users
      /\ Elsewhere(c) /\ pc'[c] = pc[c]
  BY Zenon, LockMoves, WhoIsAt DEF put, At, ConsumerSteps
<1>2. at' = [at EXCEPT ![c] = "unlock"] /\ items' = items + 1 /\ items' \in Nat
  BY <1>0 DEF put, At
<1>3. CvShape' /\ OthersStay(c) /\ at'[c] = "unlock"
  BY Zenon, <1>0, <1>2 DEF put, CvShape, OthersStay, Steps
<1>4. StepsOfRoles' /\ StepsMatchTheLock'
  BY Zenon, <1>1, <1>3, StepsKeep DEF StepMatches, WithLock, GettingLock, ProducerSteps
<1>5. GuardsMatchTheLock'
  BY Zenon, <1>1, <1>3, GuardsKeep DEF put
<1>6. CvAwaitersAreSuspended' /\ ListsAreApart'
  BY Zenon, <1>0, <1>1, <1>2, Roles, ListsKeep DEF put
<1>7. MutexMatches'
  BY Zenon, <1>0, <1>1, <1>2, Roles, AloneInTheLock DEF put, MutexMatches, CvProtocol
<1>8. ItemsAreCounted'
  <2>1. c \notin Produced /\ Produced' = Produced \cup {c}
    BY Zenon, <1>0, <1>1, <1>2, Roles DEF Produced
  <2>2. c \notin Notifying /\ Notifying' = Notifying \cup {c}
    BY Zenon, <1>0, <1>1, <1>2, Roles DEF Notifying
  <2>3. Awake' = Awake
    BY Zenon, <1>0, <1>1, <1>2, Roles DEF Awake, put
  <2>4. /\ Cardinality(Produced') = Cardinality(Produced) + 1
        /\ Cardinality(Notifying') = Cardinality(Notifying) + 1
    BY Zenon, <2>1, <2>2, CountsAreFinite, FS_AddElement
  <2>5. Pushing' = Pushing /\ cv_awaiters' = cv_awaiters
    BY Zenon, <1>0, <1>1, <1>2, Roles DEF Pushing, put
  <2>6. ItemsAreCounted
    BY Zenon DEF CvProtocol
  <2> HIDE DEF Produced, Notifying, Awake, Pushing
  <2> QED
    BY <1>0, <1>2, <2>3, <2>4, <2>5, <2>6, CountsAreFinite DEF ItemsAreCounted
<1> QED
  BY Zenon, <1>3, <1>4, <1>5, <1>6, <1>7, <1>8 DEF CvProtocol

\* await_suspend takes the mutex of the condition variable.
LEMMA AwaitLockKeeps ==
    ASSUME Inv, CvProtocol, NEW c \in Coros, await_suspend_lock(c)
    PROVE  CvProtocol'
<1>0. CvShape /\ at \in [Coros -> Steps] /\ items \in Nat
  BY Zenon DEF CvProtocol, CvShape
<1>1. /\ at[c] = "await" /\ c \in Consumers /\ c \notin Producers /\ c \notin Users
      /\ Elsewhere(c) /\ pc'[c] = pc[c] /\ pc[c] = "in"
  BY Zenon, LockMoves, WhoIsAt DEF await_suspend_lock, At, ProducerSteps, StepMatches, WithLock
<1>2. at' = [at EXCEPT ![c] = "unlocking"] /\ items' = items
  BY Zenon DEF await_suspend_lock, At
<1>3. CvShape' /\ OthersStay(c) /\ at'[c] = "unlocking"
  BY Zenon, <1>0, <1>2 DEF await_suspend_lock, CvShape, OthersStay, Steps
<1>4. StepsOfRoles' /\ StepsMatchTheLock'
  BY Zenon, <1>1, <1>3, StepsKeep DEF StepMatches, WithLock, GettingLock, ConsumerSteps
<1>5. GuardsMatchTheLock'
  BY Zenon, <1>1, <1>3, GuardsKeep DEF await_suspend_lock
<1>6. CvAwaitersAreSuspended' /\ ListsAreApart'
  BY Zenon, <1>0, <1>1, <1>2, Roles, ListsKeep DEF await_suspend_lock
<1>7. MutexMatches'
  BY Zenon, <1>0, <1>1, <1>2, Roles, NobodyPushes DEF await_suspend_lock, MutexMatches, CvProtocol
<1>8. ItemsAreCounted'
  <2>1. items = 0
    BY Zenon, <1>1 DEF CvProtocol, MutexMatches
  <2> QED
    BY <1>2, <2>1, CountsAreFiniteAfter DEF ItemsAreCounted
<1> QED
  BY Zenon, <1>3, <1>4, <1>5, <1>6, <1>7, <1>8 DEF CvProtocol

\* A step that leaves the lock alone and moves coroutines that have nothing of it.
LEMMA OutsideTheLock ==
    ASSUME CvProtocol, pc' = pc, guard' = guard,
           \A d \in Coros :
               \/ at'[d] = at[d]
               \/ /\ d \notin Users
                  /\ d \in Consumers => at'[d] \in ConsumerSteps
                  /\ d \in Producers => at'[d] \in ProducerSteps
                  /\ at[d] \notin WithLock \cup GettingLock
                  /\ at'[d] \notin WithLock \cup GettingLock
    PROVE  StepsOfRoles' /\ StepsMatchTheLock' /\ GuardsMatchTheLock'
<1>1. StepsOfRoles'
  BY Zenon, Roles DEF CvProtocol, StepsOfRoles
<1>2. ASSUME NEW d \in Consumers \cup Producers PROVE StepMatches(at'[d], pc'[d])
  <2>1. d \in Coros /\ d \notin Users /\ StepMatches(at[d], pc[d])
    BY Zenon, Roles DEF CvProtocol, StepsMatchTheLock
  <2> QED
    BY Zenon, <2>1 DEF StepMatches
<1>3. GuardsMatchTheLock'
  BY Zenon, Roles DEF CvProtocol, GuardsMatchTheLock
<1> QED
  BY Zenon, <1>1, <1>2, <1>3 DEF StepsMatchTheLock

\* CvAwaitersAreSuspended and Awake, by membership.
InAList(c) == In(cv_awaiters, c) \/ \E p \in Producers : In(batch[p], c)

\* Who is suspended is in the list, or in the batch of a notify_all ...
LEMMA SuspendedInAList == CvAwaitersAreSuspended <=> \A c \in Consumers : at[c] = "suspended" <=> InAList(c)
  BY Zenon DEF CvAwaitersAreSuspended, InAList, In

\* ... and after the step.
LEMMA SuspendedInAListAfter ==
    CvAwaitersAreSuspended' <=> \A c \in Consumers : at'[c] = "suspended" <=> InAList(c)'
  BY Zenon DEF CvAwaitersAreSuspended, InAList, In

\* Who is on the way to look at the items, before and after the step.
LEMMA AwakeAre ==
    /\ Awake = {c \in Consumers : \/ at[c] \in {"start", "check", "notified", "relock"}
                                  \/ at[c] = "suspended" /\ ~In(cv_awaiters, c)}
    /\ Awake' = {c \in Consumers : \/ at'[c] \in {"start", "check", "notified", "relock"}
                                   \/ at'[c] = "suspended" /\ ~In(cv_awaiters', c)}
  BY Zenon DEF Awake, In

\* await_suspend pushes the awaiter before it gives the lock back.
LEMMA PushKeeps ==
    ASSUME Inv, CvProtocol, NEW c \in Coros, await_suspend_push(c)
    PROVE  CvProtocol'
<1>0. /\ CvShape /\ at \in [Coros -> Steps] /\ items \in Nat
      /\ cv_awaiters \in Seq(Consumers) /\ Distinct(cv_awaiters)
  BY Zenon DEF CvProtocol, CvShape
<1>1. at[c] = "pushing" /\ c \in Consumers /\ c \notin Producers /\ c \notin Users
  BY Zenon, WhoIsAt DEF await_suspend_push, At, ProducerSteps
<1>2. /\ at' = [at EXCEPT ![c] = "suspended"] /\ items' = items /\ cv_lock' = NoCoro
      /\ batch' = batch /\ cv_awaiters' = Append(cv_awaiters, c) /\ cv_lock = c
  BY Zenon, <1>1 DEF await_suspend_push, At, CvProtocol, MutexMatches
<1>3. ~InAList(c) /\ \A d \in Consumers : at[d] = "suspended" <=> InAList(d)
  BY Zenon, <1>1, SuspendedInAList DEF CvProtocol
<1>4. /\ cv_awaiters' \in Seq(Consumers) /\ Distinct(cv_awaiters')
      /\ \A d : In(cv_awaiters', d) <=> d = c \/ In(cv_awaiters, d)
  BY Zenon, <1>0, <1>1, <1>2, <1>3, AppendAwaiter DEF InAList
<1>5. CvShape'
  BY Zenon, <1>0, <1>2, <1>4 DEF await_suspend_push, CvShape, Steps
<1>6. StepsOfRoles' /\ StepsMatchTheLock' /\ GuardsMatchTheLock'
  BY Zenon, <1>0, <1>1, <1>2, OutsideTheLock
  DEF await_suspend_push, vars, WithLock, GettingLock, ConsumerSteps
<1>7. CvAwaitersAreSuspended'
  <2>1. \A d \in Consumers : InAList(d)' <=> d = c \/ InAList(d)
    BY Zenon, <1>2, <1>4 DEF InAList
  <2>2. \A d \in Consumers : at'[d] = "suspended" <=> d = c \/ at[d] = "suspended"
    BY Zenon, <1>0, <1>2, Roles
  <2> QED
    BY Zenon, <1>3, <2>1, <2>2, SuspendedInAListAfter
<1>8. ListsAreApart'
  <2>1. \A p \in Producers : at'[p] = at[p] /\ ~In(batch[p], c)
    BY Zenon, <1>0, <1>1, <1>2, <1>3, Roles DEF InAList
  <2> QED
    BY Zenon, <1>2, <1>4, <2>1 DEF ListsAreApart, CvProtocol
<1>9. MutexMatches'
  BY Zenon, <1>0, <1>1, <1>2, Roles DEF MutexMatches, CvProtocol
<1>10. ItemsAreCounted'
  <2>1. Produced \subseteq Produced' /\ Notifying \subseteq Notifying'
    BY Zenon, <1>0, <1>1, <1>2, Roles DEF Produced, Notifying
  <2>2. Awake \subseteq Awake'
    BY Zenon, <1>0, <1>1, <1>2, <1>4, Roles, AwakeAre
  <2>3. Pushing # {}
    BY Zenon, <1>1 DEF Pushing
  <2> QED
    BY Zenon, <1>2, <2>1, <2>2, <2>3, CountsKeep
<1> QED
  BY Zenon, <1>5, <1>6, <1>7, <1>8, <1>9, <1>10 DEF CvProtocol

\* notify_one: the producer notifies no more, and who it resumed is awake.
LEMMA NotifyOneKeeps ==
    ASSUME Inv, CvProtocol, NEW c \in Coros, notify_one(c)
    PROVE  CvProtocol'
<1>0. /\ CvShape /\ at \in [Coros -> Steps] /\ items \in Nat /\ on \in [Coros -> Coros \cup {NoCoro}]
      /\ cv_awaiters \in Seq(Consumers) /\ Distinct(cv_awaiters)
  BY Zenon DEF CvProtocol, CvShape
<1>1. at[c] = "notify" /\ c \in Producers /\ c \notin Consumers /\ c \notin Users
  BY Zenon, WhoIsAt DEF notify_one, ConsumerSteps
<1>2. /\ items' = items /\ batch' = batch /\ cv_lock = NoCoro /\ cv_lock' = cv_lock
      /\ pc' = pc /\ guard' = guard
  BY Zenon DEF notify_one, vars
<1>3. Pushing = {} /\ \A d \in Consumers : at[d] \notin {"unlocking", "pushing"}
  BY Zenon, <1>2, NobodyPushes
<1>4. CASE cv_awaiters = <<>>
  <2>1. at' = [at EXCEPT ![c] = "ended"] /\ cv_awaiters' = cv_awaiters /\ on' = on
    BY Zenon, <1>4 DEF notify_one
  <2>2. CvShape'
    BY Zenon, <1>0, <1>2, <2>1 DEF CvShape, Steps
  <2>3. StepsOfRoles' /\ StepsMatchTheLock' /\ GuardsMatchTheLock'
    BY Zenon, <1>0, <1>1, <1>2, <2>1, OutsideTheLock DEF WithLock, GettingLock, ProducerSteps
  <2>4. CvAwaitersAreSuspended' /\ ListsAreApart'
    BY Zenon, <1>0, <1>1, <1>2, <2>1, Roles, ListsKeep
  <2>5. MutexMatches'
    BY Zenon, <1>0, <1>1, <1>2, <2>1, Roles DEF MutexMatches, CvProtocol
  <2>6. ItemsAreCounted'
    <3>1. Produced' = Produced /\ Pushing' = {}
      BY Zenon, <1>0, <1>1, <1>3, <2>1, Roles DEF Produced, Pushing
    <3> QED
      BY Zenon, <1>2, <1>4, <2>1, <3>1 DEF ItemsAreCounted, CvProtocol
  <2> QED
    BY Zenon, <2>2, <2>3, <2>4, <2>5, <2>6 DEF CvProtocol
<1>5. CASE cv_awaiters # <<>>
  <2> DEFINE h == Head(cv_awaiters)
  <2>0. /\ h \in Consumers /\ In(cv_awaiters, h)
        /\ Tail(cv_awaiters) \in Seq(Consumers) /\ Distinct(Tail(cv_awaiters))
        /\ \A d : In(Tail(cv_awaiters), d) <=> d # h /\ In(cv_awaiters, d)
    BY Zenon, <1>0, <1>5, PopAwaiter
  <2>1. /\ at' = [at EXCEPT ![c] = "ended", ![h] = "notified"]
        /\ cv_awaiters' = Tail(cv_awaiters) /\ on' = [on EXCEPT ![h] = c]
    BY Zenon, <1>5 DEF notify_one
  <2> HIDE DEF h
  <2>a. h \in Coros /\ h # c /\ h \notin Producers /\ h \notin Users
    BY Zenon, <1>1, <2>0, Roles
  <2>b. /\ at'[c] = "ended" /\ at'[h] = "notified"
        /\ \A d \in Coros : d # c /\ d # h => at'[d] = at[d]
    BY Zenon, <1>0, <2>1, <2>a
  <2>c. at[h] = "suspended" /\ \A d \in Consumers : at[d] = "suspended" <=> InAList(d)
    BY Zenon, <2>0, SuspendedInAList DEF CvProtocol, InAList
  <2>d. \A p \in Producers : ~In(batch[p], h)
    BY Zenon, <2>0 DEF CvProtocol, ListsAreApart
  <2>2. CvShape'
    BY Zenon, <1>0, <1>2, <2>0, <2>1 DEF CvShape, Steps
  <2>3. StepsOfRoles' /\ StepsMatchTheLock' /\ GuardsMatchTheLock'
    BY Zenon, <1>1, <1>2, <2>a, <2>b, <2>c, OutsideTheLock
    DEF WithLock, GettingLock, ProducerSteps, ConsumerSteps
  <2>4. CvAwaitersAreSuspended'
    <3>1. \A d \in Consumers : InAList(d)' <=> d # h /\ InAList(d)
      BY Zenon, <1>2, <2>0, <2>1, <2>d DEF InAList
    <3>2. \A d \in Consumers : at'[d] = "suspended" <=> d # h /\ at[d] = "suspended"
      BY Zenon, <1>1, <2>b, Roles
    <3> QED
      BY Zenon, <2>c, <3>1, <3>2, SuspendedInAListAfter
  <2>5. ListsAreApart'
    <3>1. \A p \in Producers : at'[p] # "notify_all" => at[p] # "notify_all"
      BY Zenon, <1>1, <2>a, <2>b, Roles
    <3>2. \A d : In(cv_awaiters', d) => In(cv_awaiters, d)
      BY Zenon, <2>0, <2>1
    <3> QED
      BY Zenon, <1>2, <3>1, <3>2 DEF ListsAreApart, CvProtocol
  <2>6. MutexMatches'
    BY Zenon, <1>1, <1>2, <2>b, Roles DEF MutexMatches, CvProtocol
  <2>7. ItemsAreCounted'
    <3>1. Produced' = Produced /\ Pushing' = {}
      BY Zenon, <1>1, <1>3, <2>a, <2>b, Roles DEF Produced, Pushing
    <3>2. c \in Notifying /\ Notifying' = Notifying \ {c}
      BY Zenon, <1>1, <2>a, <2>b, Roles DEF Notifying
    <3>3. h \notin Awake /\ Awake' = Awake \cup {h}
      BY Zenon, <1>1, <2>0, <2>1, <2>a, <2>b, <2>c, Roles, AwakeAre
    <3>4. /\ Cardinality(Notifying') = Cardinality(Notifying) - 1
          /\ Cardinality(Awake') = Cardinality(Awake) + 1
      BY Zenon, <3>2, <3>3, CountsAreFinite, FS_RemoveElement, FS_AddElement
    <3>5. ItemsAreCounted
      BY Zenon DEF CvProtocol
    <3> HIDE DEF Produced, Notifying, Awake, Pushing
    <3> QED
      BY <1>0, <1>2, <1>5, <3>1, <3>4, <3>5, CountsAreFinite DEF ItemsAreCounted
  <2> QED
    BY Zenon, <2>2, <2>3, <2>4, <2>5, <2>6, <2>7 DEF CvProtocol
<1> QED
  BY Zenon, <1>4, <1>5

\* notify_all: the list moves to the producer, and nobody is left in it.
LEMMA NotifyAllKeeps ==
    ASSUME Inv, CvProtocol, NEW c \in Coros, notify_all(c)
    PROVE  CvProtocol'
<1>0. /\ CvShape /\ at \in [Coros -> Steps] /\ items \in Nat /\ batch \in [Producers -> Seq(Consumers)]
      /\ cv_awaiters \in Seq(Consumers) /\ Distinct(cv_awaiters)
  BY Zenon DEF CvProtocol, CvShape
<1>1. at[c] = "notify" /\ c \in Producers /\ c \notin Consumers /\ c \notin Users
  BY Zenon, WhoIsAt DEF notify_all, At, ConsumerSteps
<1>2. /\ items' = items /\ batch' = [batch EXCEPT ![c] = cv_awaiters] /\ cv_awaiters' = <<>>
      /\ at' = [at EXCEPT ![c] = "notify_all"] /\ cv_lock = NoCoro /\ cv_lock' = cv_lock
      /\ pc' = pc /\ guard' = guard /\ on' = on
  BY Zenon DEF notify_all, At, vars
<1>3. Pushing = {} /\ \A d \in Consumers : at[d] \notin {"unlocking", "pushing"}
  BY Zenon, <1>2, NobodyPushes
<1>4. batch[c] = <<>> /\ \A d : ~In(batch[c], d) /\ ~In(cv_awaiters', d)
  BY Zenon, <1>1, <1>2, NobodyIn DEF CvProtocol, ListsAreApart
<1>5. batch'[c] = cv_awaiters /\ \A p \in Producers : p # c => batch'[p] = batch[p]
  BY Zenon, <1>0, <1>1, <1>2
<1>6. CvShape'
  BY <1>0, <1>1, <1>2, NobodyIn DEF CvShape, Steps
<1>7. StepsOfRoles' /\ StepsMatchTheLock' /\ GuardsMatchTheLock'
  BY Zenon, <1>0, <1>1, <1>2, OutsideTheLock DEF WithLock, GettingLock, ProducerSteps
<1>8. CvAwaitersAreSuspended'
  <2>1. \A d \in Consumers : InAList(d)' <=> InAList(d)
    BY Zenon, <1>1, <1>4, <1>5 DEF InAList
  <2>2. \A d \in Consumers : at'[d] = at[d]
    BY Zenon, <1>0, <1>1, <1>2, Roles
  <2> QED
    BY Zenon, <2>1, <2>2, SuspendedInAList, SuspendedInAListAfter DEF CvProtocol
<1>9. ListsAreApart'
  <2>1. at'[c] = "notify_all" /\ \A p \in Producers : p # c => at'[p] = at[p]
    BY Zenon, <1>0, <1>1, <1>2, Roles
  <2>2. \A p \in Producers : Distinct(batch'[p])
    BY Zenon, <1>0, <1>5 DEF CvProtocol, ListsAreApart
  <2>3. \A p \in Producers, q \in Producers, d \in Consumers :
            p # q /\ In(batch'[p], d) => ~In(batch'[q], d)
    BY Zenon, <1>5 DEF CvProtocol, ListsAreApart
  <2>4. \A p \in Producers : at'[p] # "notify_all" => batch'[p] = <<>>
    BY Zenon, <1>5, <2>1 DEF CvProtocol, ListsAreApart
  <2> QED
    BY Zenon, <1>4, <2>2, <2>3, <2>4 DEF ListsAreApart
<1>10. MutexMatches'
  BY Zenon, <1>0, <1>1, <1>2, Roles DEF MutexMatches, CvProtocol
<1>11. ItemsAreCounted'
  <2>1. Produced' = Produced /\ Pushing' = {}
    BY Zenon, <1>0, <1>1, <1>2, <1>3, Roles DEF Produced, Pushing
  <2> QED
    BY Zenon, <1>2, <2>1 DEF ItemsAreCounted, CvProtocol
<1> QED
  BY Zenon, <1>6, <1>7, <1>8, <1>9, <1>10, <1>11 DEF CvProtocol

\* ... whom notify_all resumes one after the other.
LEMMA NotifyNextKeeps ==
    ASSUME Inv, CvProtocol, NEW c \in Coros, notify_all_next(c)
    PROVE  CvProtocol'
<1>0. /\ CvShape /\ at \in [Coros -> Steps] /\ items \in Nat /\ batch \in [Producers -> Seq(Consumers)]
      /\ on \in [Coros -> Coros \cup {NoCoro}]
  BY Zenon DEF CvProtocol, CvShape
<1>1. at[c] = "notify_all" /\ c \in Producers /\ c \notin Consumers /\ c \notin Users
  BY Zenon, WhoIsAt DEF notify_all_next, ConsumerSteps
<1>2. /\ items' = items /\ cv_awaiters' = cv_awaiters /\ cv_lock' = cv_lock
      /\ pc' = pc /\ guard' = guard
  BY Zenon DEF notify_all_next, vars
<1>3. CASE batch[c] = <<>>
  <2>1. at' = [at EXCEPT ![c] = "ended"] /\ on' = on /\ batch' = batch
    BY Zenon, <1>3 DEF notify_all_next
  <2>2. CvShape' /\ OthersStay(c) /\ at'[c] = "ended" /\ Elsewhere(c)
    BY Zenon, <1>0, <1>2, <2>1 DEF CvShape, Steps, OthersStay, Elsewhere
  <2>3. StepMatches(at'[c], pc'[c])
    BY Zenon, <1>1, <1>2, <2>2, WhoIsAt DEF StepMatches, WithLock, GettingLock
  <2>4. QuietMove(c)
    BY Zenon, <1>1, <1>2, <1>3, <2>1, <2>2, <2>3 DEF QuietMove, ProducerSteps
  <2> QED
    BY Zenon, <2>2, <2>4, QuietMovesKeep
<1>4. CASE batch[c] # <<>>
  <2> DEFINE h == Head(batch[c])
  <2>0. /\ h \in Consumers /\ In(batch[c], h)
        /\ Tail(batch[c]) \in Seq(Consumers) /\ Distinct(Tail(batch[c]))
        /\ \A d : In(Tail(batch[c]), d) <=> d # h /\ In(batch[c], d)
    <3>1. batch[c] \in Seq(Consumers) /\ Distinct(batch[c])
      BY Zenon, <1>0, <1>1 DEF CvProtocol, ListsAreApart
    <3> QED
      BY Zenon, <1>4, <3>1, PopAwaiter
  <2>1. /\ at' = [at EXCEPT ![h] = "notified"] /\ on' = [on EXCEPT ![h] = c]
        /\ batch' = [batch EXCEPT ![c] = Tail(batch[c])]
    BY Zenon, <1>4 DEF notify_all_next
  <2> HIDE DEF h
  <2>a. h \in Coros /\ h # c /\ h \notin Producers /\ h \notin Users
    BY Zenon, <1>1, <2>0, Roles
  <2>b. at'[h] = "notified" /\ \A d \in Coros : d # h => at'[d] = at[d]
    BY Zenon, <1>0, <2>1, <2>a
  <2>c. at[h] = "suspended" /\ \A d \in Consumers : at[d] = "suspended" <=> InAList(d)
    BY Zenon, <1>1, <2>0, SuspendedInAList DEF CvProtocol, InAList
  <2>d. ~In(cv_awaiters, h) /\ \A p \in Producers : p # c => ~In(batch[p], h)
    BY Zenon, <1>1, <2>0 DEF CvProtocol, ListsAreApart
  <2>e. batch'[c] = Tail(batch[c]) /\ \A p \in Producers : p # c => batch'[p] = batch[p]
    BY Zenon, <1>0, <1>1, <2>1
  <2>2. CvShape'
    BY Zenon, <1>0, <1>1, <1>2, <2>0, <2>1 DEF CvShape, Steps
  <2>3. StepsOfRoles' /\ StepsMatchTheLock' /\ GuardsMatchTheLock'
    BY Zenon, <1>2, <2>a, <2>b, <2>c, OutsideTheLock DEF WithLock, GettingLock, ConsumerSteps
  <2>4. CvAwaitersAreSuspended'
    <3>1. \A d \in Consumers : InAList(d)' <=> d # h /\ InAList(d)
      BY Zenon, <1>1, <1>2, <2>0, <2>d, <2>e DEF InAList
    <3>2. \A d \in Consumers : at'[d] = "suspended" <=> d # h /\ at[d] = "suspended"
      BY Zenon, <2>b, Roles
    <3> QED
      BY Zenon, <2>c, <3>1, <3>2, SuspendedInAListAfter
  <2>5. ListsAreApart'
    <3>1. \A p \in Producers : at'[p] = at[p]
      BY Zenon, <2>a, <2>b, Roles
    <3>2. \A p \in Producers : Distinct(batch'[p]) /\ \A d : In(batch'[p], d) => In(batch[p], d)
      BY Zenon, <2>0, <2>e DEF CvProtocol, ListsAreApart
    <3>3. \A p \in Producers : at'[p] # "notify_all" => batch'[p] = <<>>
      BY Zenon, <1>1, <2>e, <3>1 DEF CvProtocol, ListsAreApart
    <3> QED
      BY Zenon, <1>2, <3>2, <3>3 DEF ListsAreApart, CvProtocol
  <2>6. MutexMatches'
    BY Zenon, <1>2, <2>b, Roles DEF MutexMatches, CvProtocol
  <2>7. ItemsAreCounted'
    <3>1. Produced \subseteq Produced' /\ Notifying \subseteq Notifying' /\ Pushing' \subseteq Pushing
      BY Zenon, <2>a, <2>b, Roles DEF Produced, Notifying, Pushing
    <3>2. Awake \subseteq Awake'
      BY Zenon, <1>2, <2>b, <2>d, Roles, AwakeAre
    <3> QED
      BY Zenon, <1>2, <3>1, <3>2, CountsKeep
  <2> QED
    BY Zenon, <2>2, <2>3, <2>4, <2>5, <2>6, <2>7 DEF CvProtocol
<1> QED
  BY Zenon, <1>3, <1>4

\* CvInit establishes the protocol, every step keeps it, and it implies CvInv.
LEMMA CvInitEstablishesProtocol == CvInit => CvProtocol
<1> SUFFICES ASSUME CvInit PROVE CvProtocol
  BY Zenon
<1> USE DEF CvInit, Init
<1>1. CvShape
  BY NobodyIn DEF CvShape, Steps, Guards
<1>2. StepsOfRoles /\ StepsMatchTheLock
  BY Zenon, Roles DEF StepsOfRoles, StepsMatchTheLock, StepMatches, WithLock, GettingLock, ConsumerSteps,
               ProducerSteps
<1>3. MutexMatches /\ GuardsMatchTheLock
  BY Zenon, Roles DEF MutexMatches, GuardsMatchTheLock
<1>4. ListsAreApart
  BY Zenon, NobodyIn DEF ListsAreApart
<1>5. CvAwaitersAreSuspended
  <2>1. \A c \in Consumers : at[c] # "suspended" /\ ~InAList(c)
    BY Zenon, Roles, NobodyIn DEF InAList
  <2> QED
    BY Zenon, <2>1, SuspendedInAList
<1>6. ItemsAreCounted
  <2>1. items = 0
    BY Zenon
  <2> QED
    BY <2>1, CountsAreFinite DEF ItemsAreCounted
<1> QED
  BY Zenon, <1>1, <1>2, <1>3, <1>4, <1>5, <1>6 DEF CvProtocol

\* Every step keeps the protocol of the condition variable.
LEMMA CvNextPreservesProtocol == Inv /\ CvProtocol /\ [CvNext]_cv_vars => CvProtocol'
<1> SUFFICES ASSUME Inv, CvProtocol, [CvNext]_cv_vars PROVE CvProtocol'
  BY Zenon
<1>1. ASSUME NEW c \in Coros,
             \/ CvStep(c) \/ UserStep(c)
             \/ make_guard(c) \/ guard_lock(c) \/ guard_try_lock(c) \/ guard_release(c)
      PROVE  CvProtocol'
  BY Zenon, <1>1, QuietSteps, UserSteps, CheckKeeps, PutKeeps, AwaitLockKeeps, PushKeeps, NotifyOneKeeps,
     NotifyAllKeeps, NotifyNextKeeps DEF CvStep
<1>2. CASE UNCHANGED cv_vars
  <2>1. /\ pc' = pc /\ at' = at /\ cv_lock' = cv_lock /\ cv_awaiters' = cv_awaiters /\ items' = items
        /\ on' = on /\ batch' = batch /\ guard' = guard
    BY Zenon, <1>2 DEF cv_vars, vars, cond
  <2>2. CvShape' /\ StepsOfRoles' /\ StepsMatchTheLock' /\ GuardsMatchTheLock'
    BY Zenon, <2>1 DEF CvProtocol, CvShape, StepsOfRoles, StepsMatchTheLock, GuardsMatchTheLock
  <2>3. MutexMatches' /\ CvAwaitersAreSuspended' /\ ListsAreApart'
    BY Zenon, <2>1 DEF CvProtocol, MutexMatches, CvAwaitersAreSuspended, ListsAreApart
  <2>4. ItemsAreCounted'
    BY Zenon, <2>1, CountsKeep DEF Produced, Notifying, Awake, Pushing
  <2> QED
    BY Zenon, <2>2, <2>3, <2>4 DEF CvProtocol
<1> QED
  BY Zenon, <1>1, <1>2 DEF CvNext

\* What CvInv says follows from the protocol.
LEMMA ProtocolImpliesCvInv == Inv /\ CvProtocol => CvInv
<1> SUFFICES ASSUME Inv, CvProtocol PROVE CvInv
  BY Zenon
<1>1. items <= Cardinality(Produced) /\ NoLostNotification /\ items \in Nat
  BY Zenon DEF CvProtocol, CvShape, ItemsAreCounted, NoLostNotification
<1>2. items \in 0 .. Cardinality(Producers)
  BY <1>1, CountsAreFinite
<1>3. CvTypeOK
  BY Zenon, <1>2 DEF CvTypeOK, CvProtocol, CvShape, Distinct, Inv
<1> QED
  BY Zenon, <1>1, <1>3 DEF CvInv, CvProtocol

\* await, notify_one, notify_all and the guards of scoped_async_lock, for any
\* number of consumers, producers and users: a consumer is in the list exactly
\* while it is suspended in await, no notification is lost between its look at
\* the predicate and its suspension, and a guard owns the lock exactly while its
\* user has it.
THEOREM NotificationsAreNotLost == CvSpec => []CvInv
<1>1. CvInit => CvProtocol
  BY Zenon, CvInitEstablishesProtocol
<1>2. Inv /\ CvProtocol /\ [CvNext]_cv_vars => CvProtocol'
  BY Zenon, CvNextPreservesProtocol
<1>3. Inv /\ CvProtocol => CvInv
  BY Zenon, ProtocolImpliesCvInv
<1> QED
  BY <1>1, <1>2, <1>3, CvKeepsTheLock, PTL DEF CvSpec

-----------------------------------------------------------------------------
(* timer_queue: it posts a one-shot timer once and resumes the coroutine of a *)
(* delay once, leaves no timer to a worker that has gone, and never posts to *)
(* an executor that was shut down after it, for any number of timers, due  *)
(* times and frequencies and however long the clock runs.                  *)

\* The empty sequence, which the provers know of only by its length.
LEMMA EmptySequence ==
    ASSUME NEW S
    PROVE  <<>> \in Seq(S) /\ \A s \in Seq(S) : s = <<>> <=> Len(s) = 0
  OBVIOUS

\* A request: a timer, and what to do with it.
Requests == Timers \X {"add", "remove"}

\* The timers of the requests to add one, of those to remove one, and of both.
Added(s) == {s[i][1] : i \in Adds(s)}
Removed(s) == {s[i][1] : i \in DOMAIN s \ Adds(s)}
Named(s) == {s[i][1] : i \in DOMAIN s}

\* The timers that were made at all, and those that the queue has accepted.
MadeOnes == {t \in Timers : handle[t] # "none"}
Accepted == {t \in Timers : handle[t] \notin {"none", "refused"}}

\* Shutdown sets m_abort; when it has returned there is no worker, and only then
\* the executor goes.
Shutting ==
    /\ m_abort <=> shut \notin {"no", "lock"}
    /\ shut = "done" => Active = {}
    /\ executor = "closed" => shut = "done"
    /\ ~Lockable => LocksTwice

\* Threads are started one after the other, each for a timer that was made, and
\* only the last one is at work and can have a timer in its hands.
Threads ==
    /\ OneWorker /\ NeverTerminates
    /\ m_worker <= Cardinality(MadeOnes)
    /\ \A w \in Workers : w > m_worker => worker[w] = "none"
    /\ firing # {} => \E w \in Workers : worker[w] = "fire"

\* A timer is in one of the lists at most, and in none before it is made or, for
\* good, once it has fired and is a one-shot timer.
OneList ==
    /\ m_timers = m_iterator_mapper \ firing /\ firing \subseteq m_iterator_mapper
    /\ Added(m_request_queue) \cap (Added(requests) \cup m_iterator_mapper \cup posted) = {}
    /\ Added(requests) \cap (m_iterator_mapper \cup posted) = {}
    /\ m_iterator_mapper \cap OneShot \cap posted = {} /\ again \cap OneShot = {}
    /\ Added(m_request_queue) \cup Added(requests) \cup m_iterator_mapper \cup posted \subseteq Accepted

\* What is removed was cancelled, by a client that keeps its timer, and a timer
\* that was posted after that is not going to be posted again.
Removals ==
    /\ \A t \in Removed(m_request_queue) \cup Removed(requests) : t \in Held /\ cancelled[t]
    /\ \A t \in Held : handle[t] \in {"remove", "remove_notify", "gone"} => cancelled[t]
    /\ \A t \in Delay : handle[t] \notin {"live", "remove", "remove_notify"}
    /\ \A t \in Timers : late[t] > 0 => cancelled[t] /\ t \notin firing
    /\ OnceAfterCancel

\* The lists that keep a delay alive until it is called.
Lists == Added(m_request_queue) \cup Added(requests) \cup m_iterator_mapper \cup tasks

\* A delay that is kept alive by a list has not been resumed, and one that nobody
\* refers to has.
Delays ==
    /\ Delay \subseteq OneShot
    /\ \A t \in Delay : t \in Lists \/ handle[t] = "none" => resumes[t] = 0
    /\ \A t \in Delay : handle[t] # "none" /\ resumes[t] = 0 => t \in Referred

\* The inductive invariant.
IInv == TimerTypeOK /\ Shutting /\ Threads /\ NoLostRequest /\ OneList /\ Removals /\ Delays

-----------------------------------------------------------------------------
(* Requests, threads and coroutines.                                       *)

\* The requests of a list, by what they ask for.
LEMMA RequestSets ==
    ASSUME NEW s \in Seq(Requests)
    PROVE  /\ Named(s) = Added(s) \cup Removed(s) /\ Named(s) \subseteq Timers
           /\ Adds(s) # {} <=> Added(s) # {}
           /\ s = <<>> => Named(s) = {} /\ Adds(s) = {}
<1>1. \A i \in DOMAIN s : s[i] \in Requests
  OBVIOUS
<1>2. \A i \in DOMAIN s : s[i][1] \in Timers
  BY Zenon, <1>1 DEF Requests
<1>3. Adds(s) \subseteq DOMAIN s
  BY Zenon DEF Adds
<1>4. Named(s) = Added(s) \cup Removed(s)
  BY <1>3, Zenon DEF Named, Added, Removed
<1>5. Named(s) \subseteq Timers
  BY <1>2, Zenon DEF Named
<1>6. Adds(s) # {} <=> Added(s) # {}
  BY Zenon DEF Added
<1>7. ASSUME s = <<>> PROVE DOMAIN s = {}
  BY <1>7
<1>8. s = <<>> => Named(s) = {} /\ Adds(s) = {}
  BY <1>7, Zenon DEF Named, Adds
<1> QED
  BY Zenon, <1>4, <1>5, <1>6, <1>8

\* A request is added at the end.
LEMMA RequestAppended ==
    ASSUME NEW s \in Seq(Requests), NEW t \in Timers, NEW what \in {"add", "remove"}
    PROVE  /\ Append(s, <<t, what>>) \in Seq(Requests) /\ Append(s, <<t, what>>) # <<>>
           /\ Added(Append(s, <<t, what>>)) = Added(s) \cup IF what = "add" THEN {t} ELSE {}
           /\ Removed(Append(s, <<t, what>>)) = Removed(s) \cup IF what = "add" THEN {} ELSE {t}
<1> DEFINE r == <<t, what>>
           a == Append(s, r)
           n == Len(s) + 1
<1>1. r \in Requests /\ r[1] = t /\ r[2] = what
  BY Zenon DEF Requests
<1> HIDE DEF r
<1>2. /\ a \in Seq(Requests) /\ Len(a) = Len(s) + 1 /\ a[n] = r /\ a # <<>>
      /\ \A i \in 1 .. Len(s) : a[i] = s[i]
  BY <1>1
<1>3. Len(s) \in Nat /\ DOMAIN s = 1 .. Len(s) /\ DOMAIN a = 1 .. Len(a)
  BY <1>2
<1>4. DOMAIN a = DOMAIN s \cup {n} /\ n \notin DOMAIN s /\ \A i \in DOMAIN s : a[i] = s[i]
  BY <1>2, <1>3
<1> HIDE DEF a, n
<1>5. \A i \in DOMAIN a : i \in Adds(a) <=> (i \in Adds(s) \/ (i = n /\ what = "add"))
  BY <1>1, <1>2, <1>4, Zenon DEF Adds
<1>6. Adds(s) \subseteq DOMAIN s /\ Adds(a) \subseteq DOMAIN a
  BY Zenon DEF Adds
<1>7. Added(a) = Added(s) \cup IF what = "add" THEN {t} ELSE {}
  <2>1. \A x : x \in Added(a) <=> \E i \in Adds(a) : x = a[i][1]
    BY Zenon DEF Added
  <2>2. \A x : x \in Added(s) <=> \E i \in Adds(s) : x = s[i][1]
    BY Zenon DEF Added
  <2>3. ASSUME NEW x \in Added(a) PROVE x \in Added(s) \/ (what = "add" /\ x = t)
    <3>1. PICK i \in Adds(a) : x = a[i][1]
      BY Zenon, <2>1
    <3>2. i \in Adds(s) => x = s[i][1]
      BY Zenon, <1>4, <1>6, <3>1
    <3>3. i = n => x = t
      BY Zenon, <1>1, <1>2, <3>1
    <3> QED
      BY Zenon, <1>5, <1>6, <2>2, <3>2, <3>3
  <2>4. ASSUME NEW x \in Added(s) PROVE x \in Added(a)
    <3>1. PICK i \in Adds(s) : x = s[i][1]
      BY Zenon, <2>2
    <3>2. x = a[i][1] /\ i \in Adds(a)
      BY Zenon, <1>4, <1>5, <1>6, <3>1
    <3> QED
      BY Zenon, <2>1, <3>2
  <2>5. what = "add" => t \in Added(a)
    BY <1>1, <1>2, <1>4, <1>5, <2>1, Zenon
  <2> QED
    BY Zenon, <2>3, <2>4, <2>5
<1>8. Removed(a) = Removed(s) \cup IF what = "add" THEN {} ELSE {t}
  <2>1. \A x : x \in Removed(a) <=> \E i \in DOMAIN a \ Adds(a) : x = a[i][1]
    BY Zenon DEF Removed
  <2>2. \A x : x \in Removed(s) <=> \E i \in DOMAIN s \ Adds(s) : x = s[i][1]
    BY Zenon DEF Removed
  <2>3. ASSUME NEW x \in Removed(a) PROVE x \in Removed(s) \/ (what # "add" /\ x = t)
    <3>1. PICK i \in DOMAIN a \ Adds(a) : x = a[i][1]
      BY Zenon, <2>1
    <3>2. i \in DOMAIN s => x = s[i][1] /\ i \notin Adds(s)
      BY Zenon, <1>4, <1>5, <3>1
    <3>3. i = n => x = t /\ what # "add"
      BY Zenon, <1>1, <1>2, <1>5, <3>1
    <3> QED
      BY Zenon, <1>4, <2>2, <3>1, <3>2, <3>3
  <2>4. ASSUME NEW x \in Removed(s) PROVE x \in Removed(a)
    <3>1. PICK i \in DOMAIN s \ Adds(s) : x = s[i][1]
      BY Zenon, <2>2
    <3>2. x = a[i][1] /\ i \in DOMAIN a \ Adds(a)
      BY Zenon, <1>4, <1>5, <3>1
    <3> QED
      BY Zenon, <2>1, <3>2
  <2>5. what # "add" => t \in Removed(a)
    BY <1>1, <1>2, <1>4, <1>5, <1>6, <2>1, Zenon
  <2> QED
    BY Zenon, <2>3, <2>4, <2>5
<1> QED
  BY Zenon, <1>2, <1>7, <1>8 DEF a, r

\* No timer comes into the set or the map but by a request to add it.
LEMMA AppliedRequests ==
    ASSUME NEW S \in SUBSET Timers, requests \in Seq(Requests)
    PROVE  Applied(S) \subseteq Timers /\ Applied(S) \subseteq S \cup Added(requests)
<1> SUFFICES ASSUME NEW t \in Applied(S) PROVE t \in Timers /\ t \in S \cup Added(requests)
  BY Zenon
<1>1. CASE t \in S
  BY Zenon, <1>1
<1>2. CASE t \in Timers /\ \E i \in RequestsFor(t) : requests[i][2] = "add"
  <2>1. PICK i \in DOMAIN requests : requests[i][1] = t /\ requests[i][2] = "add"
    BY <1>2, Zenon DEF RequestsFor
  <2>2. i \in Adds(requests)
    BY <2>1, Zenon DEF Adds
  <2> QED
    BY <1>2, <2>1, <2>2, Zenon DEF Added
<1> QED
  BY <1>1, <1>2, Zenon DEF Applied

\* What somebody refers to.
LEMMA ReferredIs ==
    Referred = Named(m_request_queue) \cup Named(requests) \cup m_iterator_mapper \cup firing
                 \cup {t \in Timers : handle[t] \in {"notify", "join", "live", "remove"}} \cup tasks
  BY Zenon DEF Referred, Named

\* A thread goes on.
LEMMA WorkerMoves ==
    ASSUME TimerTypeOK, NEW w \in Workers, NEW to \in WorkerLabels, worker' = [worker EXCEPT ![w] = to]
    PROVE  /\ worker' \in [Workers -> WorkerLabels] /\ worker'[w] = to
           /\ \A x \in Workers \ {w} : worker'[x] = worker[x]
           /\ Active' = IF to \in {"none", "leaving", "ended"} THEN Active \ {w} ELSE Active \cup {w}
<1>1. /\ worker' \in [Workers -> WorkerLabels] /\ worker'[w] = to
      /\ \A x \in Workers \ {w} : worker'[x] = worker[x]
  BY Zenon DEF TimerTypeOK
<1>2. Active' = IF to \in {"none", "leaving", "ended"} THEN Active \ {w} ELSE Active \cup {w}
  BY Zenon, <1>1 DEF Active
<1> QED
  BY Zenon, <1>1, <1>2

\* Whoever waits at m_condition is woken up.
LEMMA NotifiedWorkers ==
    ASSUME TimerTypeOK, worker' = Notified
    PROVE  /\ worker' \in [Workers -> WorkerLabels] /\ Active' = Active
           /\ \A w \in Workers : /\ worker'[w] # "sleep"
                                 /\ worker[w] # "sleep" => worker'[w] = worker[w]
                                 /\ worker[w] = "sleep" => worker'[w] = "lock"
<1>1. /\ worker' \in [Workers -> WorkerLabels]
      /\ \A w \in Workers : worker'[w] = IF worker[w] = "sleep" THEN "lock" ELSE worker[w]
  BY Zenon DEF TimerTypeOK, Notified, WorkerLabels
<1>2. Active' = Active
  BY Zenon, <1>1 DEF Active
<1> QED
  BY Zenon, <1>1, <1>2

\* The thread that is at work is the one of m_worker, and if it does not fire a
\* timer none is in its hands.
LEMMA AtWork ==
    ASSUME IInv, NEW w \in Workers, worker[w] \notin {"none", "leaving", "ended"}
    PROVE  w = m_worker /\ Active = {w} /\ (worker[w] # "fire" => firing = {})
<1>1. w \in Active
  BY Zenon DEF Active
<1>2. w = m_worker /\ Active = {w}
  BY Zenon, <1>1 DEF IInv, Threads, OneWorker
<1>3. ASSUME NEW x \in Workers, worker[x] = "fire" PROVE x = w
  <2>1. x \in Active
    BY Zenon, <1>3 DEF Active
  <2> QED
    BY Zenon, <1>2, <2>1
<1> QED
  BY Zenon, <1>2, <1>3 DEF IInv, Threads

\* Which coroutines a step that destroys timers resumes.
LEMMA BreakResumes ==
    ASSUME TimerTypeOK, NEW X, Break(X)
    PROVE  /\ resumes' \in [Delay -> {0, 1}] /\ broken \subseteq broken' /\ broken' \subseteq Delay
           /\ \A t \in Delay : t \in Referred' => resumes'[t] = resumes[t]
           /\ \A t \in Delay : handle[t] = "none" /\ t \notin X => resumes'[t] = resumes[t]
           /\ \A t \in Delay : (handle[t] # "none" \/ t \in X) /\ resumes'[t] = 0 => t \in Referred'
           /\ broken' # broken => \E t \in Delay : /\ handle[t] # "none" \/ t \in X
                                                   /\ resumes[t] = 0 /\ t \notin Referred'
<1> DEFINE gone == {t \in Delay : /\ handle[t] # "none" \/ t \in X
                                  /\ resumes[t] = 0
                                  /\ t \notin Referred'}
<1>1. /\ broken' = broken \cup gone
      /\ resumes' = [t \in Delay |-> IF t \in gone THEN resumes[t] + 1 ELSE resumes[t]]
  BY Zenon DEF Break
<1>2. \A t \in gone : /\ t \in Delay /\ resumes[t] = 0 /\ t \notin Referred'
                      /\ handle[t] # "none" \/ t \in X
  BY Zenon
<1>3. \A t \in Delay : t \notin gone /\ (handle[t] # "none" \/ t \in X) /\ resumes[t] = 0 => t \in Referred'
  BY Zenon
<1> HIDE DEF gone
<1>4. \A t \in Delay : resumes'[t] = IF t \in gone THEN 1 ELSE resumes[t]
  BY <1>1, <1>2
<1>5. resumes' \in [Delay -> {0, 1}]
  BY Zenon, <1>1, <1>4 DEF TimerTypeOK
<1>6. broken \subseteq broken' /\ broken' \subseteq Delay
  BY Zenon, <1>1, <1>2 DEF TimerTypeOK
<1>7. \A t \in Delay : t \in Referred' => resumes'[t] = resumes[t]
  BY <1>2, <1>4, Zenon
<1>8. \A t \in Delay : handle[t] = "none" /\ t \notin X => resumes'[t] = resumes[t]
  BY <1>2, <1>4, Zenon
<1>9. \A t \in Delay : (handle[t] # "none" \/ t \in X) /\ resumes'[t] = 0 => t \in Referred'
  BY <1>3, <1>4
<1>10. broken' # broken => \E t \in Delay : /\ handle[t] # "none" \/ t \in X
                                            /\ resumes[t] = 0 /\ t \notin Referred'
  BY <1>1, <1>2, Zenon
<1> QED
  BY Zenon, <1>5, <1>6, <1>7, <1>8, <1>9, <1>10

\* A step that may destroy timers, and puts no delay in a list that was in none,
\* but for one that is made.
LEMMA BreakKeepsDelays ==
    ASSUME IInv, NEW X, Break(X), TimerTypeOK',
           \A t \in Delay : handle'[t] = "none" <=> (handle[t] = "none" /\ t \notin X),
           \A t \in Delay : t \in Lists' => t \in Lists \/ handle[t] = "none",
           \A t \in Delay : m_is_oneshot'[t]
    PROVE  Delays'
<1> USE DEF IInv
<1>1. Lists' \subseteq Referred'
  <2>1. Added(m_request_queue') \subseteq Named(m_request_queue') /\ Added(requests') \subseteq Named(requests')
    BY Zenon DEF Added, Named, Adds
  <2>2. /\ Named(m_request_queue') \cup Named(requests') \subseteq Referred'
        /\ m_iterator_mapper' \cup tasks' \subseteq Referred'
    BY Zenon DEF Referred, Named
  <2> QED
    BY Zenon, <2>1, <2>2 DEF Lists
<1>2. Delay \subseteq OneShot'
  BY Zenon DEF OneShot, Timers
<1>3. ASSUME NEW t \in Delay, t \in Lists' PROVE resumes'[t] = 0
  BY Zenon, <1>1, <1>3, BreakResumes DEF Delays
<1>4. ASSUME NEW t \in Delay, handle'[t] = "none" PROVE resumes'[t] = 0
  BY Zenon, <1>4, BreakResumes DEF Delays
<1>5. ASSUME NEW t \in Delay, handle'[t] # "none", resumes'[t] = 0 PROVE t \in Referred'
  BY Zenon, <1>5, BreakResumes
<1> QED
  BY Zenon, <1>2, <1>3, <1>4, <1>5 DEF Delays

-----------------------------------------------------------------------------
(* The steps.                                                              *)

\* The threads are where they were, or some have gone on within what they do.
LEMMA SameThreads ==
    ASSUME IInv, UNCHANGED <<m_worker, m_idle, m_abort, firing>>, MadeOnes' = MadeOnes, Active' = Active,
           \A w \in Workers : /\ worker'[w] = "terminated" => worker[w] = "terminated"
                              /\ worker[w] = "none" => worker'[w] = "none"
                              /\ worker[w] = "fire" => worker'[w] = "fire"
    PROVE  Threads'
  BY Zenon DEF IInv, Threads, OneWorker, NeverTerminates

\* Shutdown is where it was.
LEMMA SameShutdown ==
    ASSUME IInv, UNCHANGED <<m_abort, shut, executor, m_worker>>, Active' = Active \/ Active' = {},
           broken \subseteq broken'
    PROVE  Shutting'
<1>1. UNCHANGED Lockable /\ (LocksTwice => LocksTwice')
  BY Zenon DEF Lockable, LocksTwice
<1> QED
  BY Zenon, <1>1 DEF IInv, Shutting

\* The timers are in the lists where they were.
LEMMA SameLists ==
    ASSUME IInv,
           UNCHANGED <<m_request_queue, requests, m_iterator_mapper, m_timers, firing, posted, again, m_is_oneshot>>,
           Accepted \subseteq Accepted'
    PROVE  OneList'
<1>1. OneShot' = OneShot
  BY Zenon DEF OneShot
<1> QED
  BY Zenon, <1>1 DEF IInv, OneList

\* Timers are cancelled as they were.
LEMMA SameRemovals ==
    ASSUME IInv, UNCHANGED <<m_request_queue, requests, cancelled, late>>, firing' \subseteq firing,
           \A t \in Held : handle'[t] = handle[t] \/ handle'[t] \notin {"remove", "remove_notify", "gone"},
           \A t \in Delay : handle'[t] = handle[t] \/ handle'[t] \notin {"live", "remove", "remove_notify"}
    PROVE  Removals'
  BY Zenon DEF IInv, Removals, OnceAfterCancel

\* No coroutine is resumed: what referred to a delay still does.
LEMMA SameDelays ==
    ASSUME IInv, UNCHANGED <<m_is_oneshot, resumes>>, Lists' \cap Delay \subseteq Lists,
           Referred \cap Delay \subseteq Referred', \A t \in Delay : handle'[t] = "none" <=> handle[t] = "none"
    PROVE  Delays'
<1>1. OneShot' = OneShot
  BY Zenon DEF OneShot
<1> QED
  BY Zenon, <1>1 DEF IInv, Delays

\* Nothing happens to the timers.
LEMMA NothingHappens ==
    ASSUME IInv, UNCHANGED <<m_request_queue, local, m_is_oneshot, cancelled, handle, post, coro, late>>
    PROVE  OneList' /\ Removals' /\ Delays' /\ MadeOnes' = MadeOnes
<1>1. UNCHANGED <<requests, m_timers, m_iterator_mapper, firing, posted, again, tasks, resumes, broken>>
  BY Zenon DEF local, post, coro
<1>2. UNCHANGED <<MadeOnes, Accepted>>
  BY Zenon DEF MadeOnes, Accepted
<1>3. UNCHANGED <<Lists, Referred>>
  BY Zenon, <1>1 DEF Lists, Referred
<1> QED
  BY Zenon, <1>1, <1>2, <1>3, SameLists, SameRemovals, SameDelays

\* A new timer_queue satisfies the invariant.
LEMMA InitIInv == TimerInit => IInv
<1> SUFFICES ASSUME TimerInit PROVE IInv
  BY Zenon
<1>1. <<>> \in Seq(Requests) /\ Named(<<>>) = {} /\ Adds(<<>>) = {}
  BY Zenon, EmptySequence, RequestSets
<1>2. Added(<<>>) = {} /\ Removed(<<>>) = {}
  BY Zenon, <1>1, EmptySequence, RequestSets
<1>3. TimerTypeOK
  <2>1. Cardinality({}) = 0 /\ 0 \in 0 .. MaxTime
    BY FS_EmptySet, TicksAreNat
  <2>2. NoWorker \in Workers \cup {NoWorker} /\ "none" \in WorkerLabels /\ "none" \in HandleLabels
    BY Zenon DEF WorkerLabels, HandleLabels
  <2>3. /\ worker \in [Workers -> WorkerLabels] /\ deadline \in [Timers -> Nat]
        /\ cancelled \in [Timers -> BOOLEAN] /\ m_is_oneshot \in [Timers -> BOOLEAN]
        /\ handle \in [Timers -> HandleLabels] /\ old \in [Timers -> Workers \cup {NoWorker}]
        /\ resumes \in [Delay -> {0, 1}] /\ late \in [Timers -> Nat]
    BY <2>2 DEF TimerInit
  <2>4. Cardinality(firing) <= 1 /\ now \in 0 .. MaxTime /\ time \in 0 .. MaxTime
    BY <2>1 DEF TimerInit
  <2>5. /\ m_request_queue \in Seq(Timers \X {"add", "remove"}) /\ requests \in Seq(Timers \X {"add", "remove"})
        /\ m_worker \in Workers \cup {NoWorker} /\ \A b \in {m_idle, m_abort, m_atomic_abort} : b \in BOOLEAN
    BY Zenon, <1>1, <2>2 DEF TimerInit, Requests
  <2> QED
    BY <2>3, <2>4, <2>5, Zenon DEF TimerInit, TimerTypeOK
<1>4. Active = {} /\ MadeOnes = {}
  BY Zenon DEF TimerInit, Active, MadeOnes
<1>5. Shutting
  BY Zenon, <1>4 DEF TimerInit, Shutting, Lockable
<1>6. Threads
  <2>1. Cardinality(MadeOnes) = 0
    BY Zenon, <1>4, FS_EmptySet
  <2>2. m_worker <= Cardinality(MadeOnes)
    BY <2>1 DEF TimerInit, NoWorker
  <2>3. OneWorker /\ NeverTerminates
    BY Zenon, <1>4 DEF TimerInit, OneWorker, NeverTerminates
  <2> QED
    BY Zenon, <2>2, <2>3 DEF TimerInit, Threads
<1>7. NoLostRequest
  BY Zenon, <1>1, <1>4 DEF TimerInit, NoLostRequest
<1>8. OneList
  BY Zenon, <1>2 DEF TimerInit, OneList
<1>9. Removals
  BY <1>2 DEF TimerInit, Removals, OnceAfterCancel, Timers
<1>10. Delays
  BY Zenon DEF TimerInit, Delays, OneShot, Timers
<1> QED
  BY Zenon, <1>3, <1>5, <1>6, <1>7, <1>8, <1>9, <1>10 DEF IInv

\* The number of the thread that is started for a timer.
LEMMA NextWorker ==
    ASSUME IInv, NEW t \in Timers, handle[t] = "none", MadeOnes' = MadeOnes \cup {t}
    PROVE  /\ m_worker \in Nat /\ m_worker + 1 \in Workers
           /\ Cardinality(MadeOnes') \in Nat /\ Cardinality(MadeOnes) \in Nat
           /\ Cardinality(MadeOnes') = Cardinality(MadeOnes) + 1
<1>1. IsFiniteSet(Timers) /\ MadeOnes \subseteq Timers /\ t \notin MadeOnes
  BY Zenon, KindsDiffer DEF MadeOnes
<1>2. IsFiniteSet(MadeOnes)
  BY Zenon, <1>1, FS_Subset
<1>3. /\ Cardinality(MadeOnes') = Cardinality(MadeOnes) + 1
      /\ Cardinality(MadeOnes) \in Nat /\ Cardinality(Timers) \in Nat
  BY Zenon, <1>1, <1>2, FS_AddElement, FS_CardinalityType
<1>4. Cardinality(MadeOnes') <= Cardinality(Timers)
  BY Zenon, <1>1, FS_Subset
<1>5. m_worker \in Nat /\ m_worker <= Cardinality(MadeOnes)
  BY <1>3 DEF IInv, TimerTypeOK, Workers, NoWorker, Threads
<1> QED
  BY <1>3, <1>4, <1>5 DEF Workers

\* add_timer queues a request, and starts or wakes the worker, or refuses.
LEMMA AddTimerKeeps ==
    ASSUME IInv, NEW t \in Timers, NEW due \in DueTimes, NEW once \in BOOLEAN, add_timer(t, due, once)
    PROVE  IInv'
<1> USE DEF IInv
<1>1. /\ Lockable /\ handle[t] = "none" /\ (t \in Delay => once)
      /\ m_is_oneshot' = [m_is_oneshot EXCEPT ![t] = once]
      /\ deadline' = [deadline EXCEPT ![t] = now + due]
      /\ UNCHANGED <<m_abort, m_atomic_abort, now, requests, m_timers, m_iterator_mapper, time, firing>>
      /\ UNCHANGED <<cancelled, posted, again, tasks, late, executor, shut>>
      /\ Break({t})
  BY Zenon DEF add_timer, HandleGoes, local, post
<1>2. \/ /\ m_abort /\ handle' = [handle EXCEPT ![t] = "refused"]
         /\ UNCHANGED <<m_request_queue, m_worker, worker, old, m_idle>>
      \/ /\ ~m_abort /\ handle' = [handle EXCEPT ![t] = "notify"]
         /\ ensure_worker_thread(t)
         /\ m_request_queue' = Append(m_request_queue, <<t, "add">>)
  BY Zenon DEF add_timer, HandleGoes
<1>3. /\ handle' \in [Timers -> HandleLabels] /\ handle'[t] \in {"refused", "notify"}
      /\ \A u \in Timers \ {t} : handle'[u] = handle[u]
  BY Zenon, <1>2 DEF TimerTypeOK, HandleLabels
<1>4. /\ m_request_queue' \in Seq(Requests) /\ Removed(m_request_queue') = Removed(m_request_queue)
      /\ Added(m_request_queue') \subseteq Added(m_request_queue) \cup {t}
      /\ handle'[t] = "refused" => m_request_queue' = m_request_queue
  <2>1. m_request_queue \in Seq(Requests)
    BY Zenon DEF TimerTypeOK, Requests
  <2>2. /\ Append(m_request_queue, <<t, "add">>) \in Seq(Requests)
        /\ Added(Append(m_request_queue, <<t, "add">>)) = Added(m_request_queue) \cup {t}
        /\ Removed(Append(m_request_queue, <<t, "add">>)) = Removed(m_request_queue) \cup {}
    BY Zenon, <2>1, RequestAppended
  <2>3. handle' = [handle EXCEPT ![t] = "notify"] => handle'[t] # "refused"
    BY Zenon DEF TimerTypeOK
  <2> QED
    BY Zenon, <1>2, <2>1, <2>2, <2>3
<1>5. MadeOnes' = MadeOnes \cup {t}
  BY Zenon, <1>1, <1>3 DEF MadeOnes
<1>6. /\ m_worker \in Nat /\ m_worker + 1 \in Workers /\ Cardinality(MadeOnes') = Cardinality(MadeOnes) + 1
      /\ Cardinality(MadeOnes) \in Nat
  BY Zenon, <1>1, <1>5, NextWorker
<1>7. /\ worker' \in [Workers -> WorkerLabels] /\ old' \in [Timers -> Workers \cup {NoWorker}]
      /\ m_worker' \in Workers \cup {NoWorker} /\ m_idle' \in BOOLEAN
  <2>1. CASE UNCHANGED <<m_worker, worker, old>> /\ m_idle' \in BOOLEAN
    BY Zenon, <2>1 DEF TimerTypeOK
  <2>2. CASE /\ m_worker' = m_worker + 1 /\ worker' = [worker EXCEPT ![m_worker + 1] = "lock"]
             /\ old' = [old EXCEPT ![t] = m_worker] /\ m_idle' = FALSE
    BY Zenon, <1>6, <2>2 DEF TimerTypeOK, WorkerLabels
  <2>3. m_idle \in BOOLEAN
    BY Zenon DEF TimerTypeOK
  <2> QED
    BY Zenon, <1>2, <2>1, <2>2, <2>3 DEF ensure_worker_thread
<1>8. /\ m_is_oneshot' \in [Timers -> BOOLEAN] /\ m_is_oneshot'[t] = once
      /\ \A u \in Timers \ {t} : m_is_oneshot'[u] = m_is_oneshot[u]
  BY Zenon, <1>1 DEF TimerTypeOK
<1>9. deadline' \in [Timers -> Nat]
  <2>1. now + due \in Nat
    BY TicksAreNat DEF TimerTypeOK
  <2> QED
    BY Zenon, <1>1, <2>1 DEF TimerTypeOK
<1>10. TimerTypeOK'
  <2>1. resumes' \in [Delay -> {0, 1}] /\ broken' \subseteq Delay
    BY Zenon, <1>1, BreakResumes
  <2> QED
    BY Zenon, <1>1, <1>3, <1>4, <1>7, <1>8, <1>9, <2>1 DEF TimerTypeOK, Requests
<1>11. Threads' /\ (m_abort => UNCHANGED <<Active, m_worker>>) /\ (~m_abort => Active' # {})
  <2>1. CASE UNCHANGED <<m_worker, worker, m_idle>>
    <3>1. Active' = Active
      BY Zenon, <2>1 DEF Active
    <3>2. m_worker <= Cardinality(MadeOnes')
      BY <1>6 DEF Threads
    <3>3. ~m_abort => Active # {}
      BY Zenon, <1>2, <2>1 DEF ensure_worker_thread, Threads, OneWorker
    <3> QED
      BY Zenon, <1>1, <2>1, <3>1, <3>2, <3>3 DEF Threads, OneWorker, NeverTerminates
  <2>2. CASE ~m_abort /\ ~m_idle /\ ensure_worker_thread(t)
    <3>1. UNCHANGED <<m_worker, worker, m_idle>>
      BY Zenon, <2>2 DEF ensure_worker_thread, TimerTypeOK
    <3> QED
      BY Zenon, <2>1, <3>1
  <2>3. CASE ~m_abort /\ m_idle /\ ensure_worker_thread(t)
    <3>1. /\ m_worker' = m_worker + 1 /\ worker' = [worker EXCEPT ![m_worker + 1] = "lock"] /\ m_idle' = FALSE
      BY Zenon, <2>3 DEF ensure_worker_thread
    <3>2. Active = {}
      BY Zenon, <2>3 DEF Threads, OneWorker
    <3>3. /\ worker'[m_worker + 1] = "lock" /\ Active' = Active \cup {m_worker + 1}
          /\ \A x \in Workers \ {m_worker + 1} : worker'[x] = worker[x]
      BY Zenon, <1>6, <3>1, WorkerMoves DEF WorkerLabels
    <3>4. m_worker' <= Cardinality(MadeOnes')
      BY <1>6, <3>1 DEF Threads
    <3>5. \A w \in Workers : w > m_worker' => worker'[w] = "none"
      BY <1>6, <3>1, <3>3 DEF Threads, Workers
    <3>6. \A w \in Workers : worker'[w] # "terminated"
      BY Zenon, <3>3 DEF Threads, NeverTerminates
    <3>7. firing = {}
      BY Zenon, <3>2 DEF Threads, Active
    <3> QED
      BY Zenon, <1>1, <2>3, <3>1, <3>2, <3>3, <3>4, <3>5, <3>6, <3>7 DEF Threads, OneWorker, NeverTerminates
  <2> QED
    BY Zenon, <1>2, <2>1, <2>2, <2>3
<1>12. Shutting'
  <2>1. m_abort => UNCHANGED <<Active, m_worker>>
    BY Zenon, <1>11
  <2>2. Lockable' /\ shut' = shut /\ m_abort' = m_abort /\ executor' = executor
    BY Zenon, <1>1 DEF Lockable
  <2> QED
    BY Zenon, <2>1, <2>2 DEF Shutting
<1>13. NoLostRequest'
  <2>1. CASE m_abort /\ UNCHANGED <<m_request_queue, worker>>
    <3>1. /\ Active' = Active /\ UNCHANGED <<Wanted, m_abort, shut>>
          /\ \A u \in Timers : handle[u] \in {"notify", "remove_notify"} => handle'[u] = handle[u]
      BY Zenon, <1>1, <1>3, <2>1 DEF Active, Wanted
    <3> QED
      BY Zenon, <2>1, <3>1 DEF NoLostRequest
  <2>2. CASE ~m_abort /\ handle'[t] = "notify"
    <3>1. Active' # {}
      BY Zenon, <1>11, <2>2
    <3> QED
      BY Zenon, <2>2, <3>1 DEF NoLostRequest
  <2> QED
    BY Zenon, <1>2, <2>1, <2>2 DEF TimerTypeOK
<1>14. t \notin Added(m_request_queue) \cup Added(requests) \cup m_iterator_mapper \cup posted
  BY Zenon, <1>1 DEF OneList, Accepted
<1>15. OneList'
  <2>1. Accepted \subseteq Accepted' /\ (handle'[t] = "notify" => t \in Accepted')
    BY Zenon, <1>1, <1>3 DEF Accepted
  <2>2. m_iterator_mapper \cap OneShot' \cap posted = {} /\ again \cap OneShot' = {}
    <3>1. \A u \in OneShot' : u = t \/ u \in OneShot
      BY Zenon, <1>8 DEF OneShot
    <3>2. t \notin again
      BY Zenon, <1>14 DEF TimerTypeOK
    <3> QED
      BY Zenon, <1>14, <3>1, <3>2 DEF OneList
  <2>3. Added(m_request_queue') \subseteq Accepted'
    BY Zenon, <1>3, <1>4, <2>1 DEF OneList
  <2> QED
    BY Zenon, <1>1, <1>4, <1>14, <2>1, <2>2, <2>3 DEF OneList
<1>16. Removals'
  BY Zenon, <1>1, <1>3, <1>4 DEF Removals, OnceAfterCancel, Timers
<1>17. Delays'
  <2>1. \A u \in Delay : handle'[u] = "none" <=> (handle[u] = "none" /\ u \notin {t})
    BY Zenon, <1>1, <1>3 DEF Timers
  <2>2. Lists' \subseteq Lists \cup {t}
    BY Zenon, <1>1, <1>4 DEF Lists
  <2>3. \A u \in Delay : m_is_oneshot'[u]
    BY Zenon, <1>1, <1>8 DEF Delays, OneShot, Timers
  <2> QED
    BY Zenon, <1>1, <1>10, <2>1, <2>2, <2>3, BreakKeepsDelays
<1> QED
  BY Zenon, <1>10, <1>11, <1>12, <1>13, <1>15, <1>16, <1>17

\* What a notification by a client or by shutdown does to the threads.
LEMMA NotifyKeepsThreads ==
    ASSUME IInv, worker' = Notified, MadeOnes' = MadeOnes,
           UNCHANGED <<m_request_queue, m_worker, m_idle, m_abort, firing>>
    PROVE  Threads' /\ NoLostRequest' /\ Active' = Active
<1>1. /\ worker' \in [Workers -> WorkerLabels] /\ Active' = Active
      /\ \A w \in Workers : /\ worker'[w] # "sleep"
                            /\ worker[w] # "sleep" => worker'[w] = worker[w]
                            /\ worker[w] = "sleep" => worker'[w] = "lock"
  BY Zenon, NotifiedWorkers DEF IInv
<1>2. Threads'
  BY Zenon, <1>1, SameThreads
<1>3. NoLostRequest'
  BY Zenon, <1>1 DEF IInv, NoLostRequest, Active
<1> QED
  BY Zenon, <1>1, <1>2, <1>3

\* A call that makes a timer notifies, joins the worker before, and returns.
LEMMA AddReturnsKeeps ==
    ASSUME IInv, NEW t \in Timers, add_notify(t) \/ add_join(t)
    PROVE  IInv'
<1> USE DEF IInv
<1>1. /\ handle[t] \in {"notify", "join"} /\ handle' = [handle EXCEPT ![t] = handle'[t]]
      /\ handle'[t] \in {"join", "live", "gone"} /\ (handle'[t] = "gone" => t \in Delay)
      /\ handle'[t] = "live" => t \notin Delay
      /\ UNCHANGED <<m_request_queue, m_idle, m_abort, m_atomic_abort, m_worker, now>>
      /\ UNCHANGED <<requests, m_timers, m_iterator_mapper, time, firing, deadline, cancelled, m_is_oneshot>>
      /\ UNCHANGED <<posted, again, tasks, late, executor, shut>>
      /\ Break({})
  BY Zenon DEF add_notify, add_join, HandleGoes, Made, TimerTypeOK, queue, local, timer, post
<1>2. handle' \in [Timers -> HandleLabels] /\ \A u \in Timers \ {t} : handle'[u] = handle[u]
  BY Zenon, <1>1 DEF TimerTypeOK, HandleLabels
<1>3. /\ resumes' \in [Delay -> {0, 1}] /\ broken \subseteq broken' /\ broken' \subseteq Delay
  BY Zenon, <1>1, BreakResumes
<1>4. MadeOnes' = MadeOnes /\ Accepted' = Accepted
  BY Zenon, <1>1, <1>2 DEF MadeOnes, Accepted
<1>5. /\ worker' \in [Workers -> WorkerLabels] /\ old' \in [Timers -> Workers \cup {NoWorker}]
      /\ Threads' /\ NoLostRequest' /\ Active' = Active
  <2>1. CASE add_notify(t)
    <3>1. worker' = Notified /\ old' = old
      BY Zenon, <2>1 DEF add_notify
    <3> QED
      BY Zenon, <1>1, <1>4, <3>1, NotifiedWorkers, NotifyKeepsThreads DEF TimerTypeOK
  <2>2. CASE add_join(t)
    <3>1. worker' = worker /\ old' = [old EXCEPT ![t] = NoWorker] /\ handle[t] = "join"
      BY Zenon, <2>2 DEF add_join, HandleGoes
    <3>2. Active' = Active
      BY Zenon, <3>1 DEF Active
    <3>3. Threads'
      BY Zenon, <1>1, <1>4, <3>1, <3>2, SameThreads
    <3>4. NoLostRequest'
      BY Zenon, <1>1, <1>2, <3>1, <3>2 DEF NoLostRequest, Wanted
    <3> QED
      BY Zenon, <3>1, <3>2, <3>3, <3>4 DEF TimerTypeOK
  <2> QED
    BY Zenon, <2>1, <2>2
<1>6. TimerTypeOK'
  BY Zenon, <1>1, <1>2, <1>3, <1>5 DEF TimerTypeOK
<1>7. Shutting'
  BY Zenon, <1>1, <1>3, <1>5, SameShutdown
<1>8. OneList'
  BY Zenon, <1>1, <1>4, SameLists
<1>9. Removals'
  <2>1. \A u \in Held : handle'[u] = handle[u] \/ handle'[u] \notin {"remove", "remove_notify", "gone"}
    BY Zenon, <1>1, <1>2, KindsDiffer DEF Timers
  <2>2. \A u \in Delay : handle'[u] = handle[u] \/ handle'[u] \notin {"live", "remove", "remove_notify"}
    BY Zenon, <1>1, <1>2 DEF Timers
  <2> QED
    BY Zenon, <1>1, <2>1, <2>2, SameRemovals
<1>10. Delays'
  <2>1. Lists' = Lists
    BY Zenon, <1>1 DEF Lists
  <2>2. \A u \in Delay : handle'[u] = "none" <=> handle[u] = "none" /\ u \notin {}
    BY Zenon, <1>1, <1>2 DEF Timers
  <2>3. \A u \in Delay : m_is_oneshot'[u]
    BY Zenon, <1>1 DEF Delays, OneShot
  <2> QED
    BY Zenon, <1>1, <1>6, <2>1, <2>2, <2>3, BreakKeepsDelays
<1> QED
  BY Zenon, <1>5, <1>6, <1>7, <1>8, <1>9, <1>10

\* A timer is cancelled, and its removal is requested.
LEMMA CancelKeeps ==
    ASSUME IInv, NEW t \in Timers, cancel(t) \/ remove_internal_timer(t) \/ remove_notify(t)
    PROVE  IInv'
<1> USE DEF IInv
<1>1. /\ handle[t] \in {"live", "remove", "remove_notify"} /\ handle' = [handle EXCEPT ![t] = handle'[t]]
      /\ handle'[t] \in {"remove", "remove_notify", "gone"}
      /\ UNCHANGED <<m_idle, m_abort, m_atomic_abort, m_worker, now, requests, m_timers, m_iterator_mapper>>
      /\ UNCHANGED <<time, firing, deadline, m_is_oneshot, old, posted, again, tasks, resumes, broken>>
      /\ UNCHANGED <<late, executor, shut>>
  BY Zenon DEF cancel, remove_internal_timer, remove_notify, HandleGoes, TimerTypeOK, queue, local, timer, post, coro
<1>2. handle' \in [Timers -> HandleLabels] /\ \A u \in Timers \ {t} : handle'[u] = handle[u]
  BY Zenon, <1>1 DEF TimerTypeOK, HandleLabels
<1>3. MadeOnes' = MadeOnes /\ Accepted' = Accepted
  BY Zenon, <1>1, <1>2 DEF MadeOnes, Accepted
<1>4. CASE cancel(t)
  <2>1. /\ t \in Held /\ handle[t] = "live" /\ handle'[t] = "remove" /\ cancelled' = [cancelled EXCEPT ![t] = TRUE]
        /\ UNCHANGED <<m_request_queue, worker>>
    BY Zenon, <1>4 DEF cancel, HandleGoes, queue, TimerTypeOK
  <2>2. /\ cancelled' \in [Timers -> BOOLEAN] /\ cancelled'[t]
        /\ \A u \in Timers \ {t} : cancelled'[u] = cancelled[u]
    BY Zenon, <2>1 DEF TimerTypeOK
  <2>3. Active' = Active
    BY Zenon, <2>1 DEF Active
  <2>4. TimerTypeOK'
    BY Zenon, <1>1, <1>2, <2>1, <2>2 DEF TimerTypeOK
  <2>5. Shutting' /\ Threads'
    BY Zenon, <1>1, <1>3, <2>1, <2>3, SameShutdown, SameThreads
  <2>6. NoLostRequest'
    BY Zenon, <1>1, <1>2, <2>1, <2>3 DEF NoLostRequest, Wanted
  <2>7. OneList'
    BY Zenon, <1>1, <1>3, <2>1, SameLists
  <2>8. Removals'
    <3>1. \A u \in Timers : cancelled[u] => cancelled'[u]
      BY Zenon, <2>2
    <3> QED
      BY Zenon, <1>1, <1>2, <2>1, <2>2, <3>1, KindsDiffer DEF Removals, OnceAfterCancel, Timers
  <2>9. Delays'
    <3>1. Lists' = Lists /\ \A u \in Delay : u # t /\ handle'[u] = handle[u]
      BY Zenon, <1>1, <1>2, <2>1, KindsDiffer DEF Lists, Timers
    <3>2. Referred' = Referred
      BY <1>1, <1>2, <2>1 DEF Referred
    <3> QED
      BY Zenon, <1>1, <3>1, <3>2, SameDelays
  <2> QED
    BY Zenon, <2>4, <2>5, <2>6, <2>7, <2>8, <2>9
<1>5. CASE remove_internal_timer(t)
  <2>1. /\ handle[t] = "remove" /\ handle'[t] = "remove_notify" /\ cancelled' = cancelled /\ worker' = worker
        /\ m_request_queue' = Append(m_request_queue, <<t, "remove">>)
    BY Zenon, <1>5 DEF remove_internal_timer, HandleGoes, timer, TimerTypeOK
  <2>2. t \in Held /\ cancelled[t]
    BY Zenon, <2>1 DEF Removals, Timers
  <2>3. /\ m_request_queue' \in Seq(Requests) /\ Added(m_request_queue') = Added(m_request_queue)
        /\ Removed(m_request_queue') = Removed(m_request_queue) \cup {t}
    <3>1. m_request_queue \in Seq(Requests)
      BY Zenon DEF TimerTypeOK, Requests
    <3>2. /\ Append(m_request_queue, <<t, "remove">>) \in Seq(Requests)
          /\ Added(Append(m_request_queue, <<t, "remove">>)) = Added(m_request_queue) \cup {}
          /\ Removed(Append(m_request_queue, <<t, "remove">>)) = Removed(m_request_queue) \cup {t}
      BY Zenon, <3>1, RequestAppended
    <3> QED
      BY Zenon, <2>1, <3>2
  <2>4. Active' = Active
    BY Zenon, <2>1 DEF Active
  <2>5. TimerTypeOK'
    BY Zenon, <1>1, <1>2, <2>1, <2>3 DEF TimerTypeOK, Requests
  <2>6. Shutting' /\ Threads'
    BY Zenon, <1>1, <1>3, <2>1, <2>4, SameShutdown, SameThreads
  <2>7. NoLostRequest'
    <3>1. Adds(m_request_queue') # {} => Adds(m_request_queue) # {}
      BY Zenon, <2>3, RequestSets DEF TimerTypeOK, Requests
    <3> QED
      BY Zenon, <1>1, <2>1, <2>4, <3>1 DEF NoLostRequest
  <2>8. OneList'
    <3>1. OneShot' = OneShot
      BY Zenon, <1>1 DEF OneShot
    <3> QED
      BY Zenon, <1>1, <1>3, <2>3, <3>1 DEF OneList
  <2>9. Removals'
    BY Zenon, <1>1, <1>2, <2>1, <2>2, <2>3, KindsDiffer DEF Removals, OnceAfterCancel, Timers
  <2>10. Delays'
    <3>1. Lists' = Lists /\ \A u \in Delay : u # t /\ handle'[u] = handle[u]
      BY Zenon, <1>1, <1>2, <2>2, <2>3, KindsDiffer DEF Lists, Timers
    <3>2. Named(m_request_queue) \subseteq Named(m_request_queue')
      BY Zenon, <2>3, RequestSets DEF TimerTypeOK, Requests
    <3>3. \A u \in Delay : u \in Referred => u \in Referred'
      BY <1>1, <3>1, <3>2, Zenon DEF Referred, Named
    <3> QED
      BY Zenon, <1>1, <3>1, <3>3, SameDelays
  <2> QED
    BY Zenon, <2>5, <2>6, <2>7, <2>8, <2>9, <2>10
<1>6. CASE remove_notify(t)
  <2>1. /\ handle[t] = "remove_notify" /\ handle'[t] = "gone" /\ worker' = Notified
        /\ UNCHANGED <<m_request_queue, cancelled>>
    BY Zenon, <1>6 DEF remove_notify, HandleGoes, timer, queue, TimerTypeOK
  <2>2. Threads' /\ NoLostRequest' /\ Active' = Active /\ worker' \in [Workers -> WorkerLabels]
    BY Zenon, <1>1, <1>3, <2>1, NotifyKeepsThreads, NotifiedWorkers
  <2>3. TimerTypeOK'
    BY Zenon, <1>1, <1>2, <2>1, <2>2 DEF TimerTypeOK
  <2>4. Shutting'
    BY Zenon, <1>1, <2>2, SameShutdown
  <2>5. OneList'
    BY Zenon, <1>1, <1>3, <2>1, SameLists
  <2>6. Removals'
    BY Zenon, <1>1, <1>2, <2>1, KindsDiffer DEF Removals, OnceAfterCancel, Timers
  <2>7. Delays'
    <3>1. Lists' = Lists /\ \A u \in Delay : handle'[u] = "none" <=> handle[u] = "none"
      BY Zenon, <1>1, <1>2, <2>1 DEF Lists, Timers
    <3>2. Referred' = Referred
      BY <1>1, <1>2, <2>1 DEF Referred
    <3> QED
      BY Zenon, <1>1, <3>1, <3>2, SameDelays
  <2> QED
    BY Zenon, <2>2, <2>3, <2>4, <2>5, <2>6, <2>7
<1> QED
  BY Zenon, <1>4, <1>5, <1>6

\* The worker sleeps, wakes up, or goes.
LEMMA QuietWorkerKeeps ==
    ASSUME IInv, NEW w \in Workers,
           deadline_reached(w) \/ idle_time_out(w) \/ spurious_wake_up(w) \/ leave_loop(w)
    PROVE  IInv'
<1> USE DEF IInv
<1>1. /\ UNCHANGED <<m_request_queue, m_idle, m_abort, m_atomic_abort, m_worker, now, local, deadline, cancelled>>
      /\ UNCHANGED <<m_is_oneshot, handle, old, post, coro, late, executor, shut>>
      /\ worker' = [worker EXCEPT ![w] = worker'[w]]
      /\ \/ worker[w] = "sleep" /\ worker'[w] \in {"timed_out", "lock"}
         \/ worker[w] = "leaving" /\ worker'[w] = "ended"
  BY Zenon DEF deadline_reached, idle_time_out, spurious_wake_up, leave_loop, WorkerGoes, TimerTypeOK, queue, timer, client
<1>2. /\ worker' \in [Workers -> WorkerLabels] /\ Active' = Active
      /\ \A x \in Workers \ {w} : worker'[x] = worker[x]
  <2>1. worker'[w] \in WorkerLabels
    BY Zenon, <1>1 DEF WorkerLabels
  <2>2. /\ worker' \in [Workers -> WorkerLabels]
        /\ \A x \in Workers \ {w} : worker'[x] = worker[x]
        /\ Active' = IF worker'[w] \in {"none", "leaving", "ended"} THEN Active \ {w} ELSE Active \cup {w}
    BY Zenon, <1>1, <2>1, WorkerMoves
  <2> QED
    BY Zenon, <1>1, <2>2 DEF Active
<1>3. OneList' /\ Removals' /\ Delays' /\ MadeOnes' = MadeOnes
  BY Zenon, <1>1, NothingHappens
<1>4. TimerTypeOK'
  BY Zenon, <1>1, <1>2 DEF TimerTypeOK, local, post, coro
<1>5. Shutting'
  BY Zenon, <1>1, <1>2, SameShutdown DEF coro
<1>6. Threads'
  BY Zenon, <1>1, <1>2, <1>3, SameThreads DEF local
<1>7. NoLostRequest'
  <2>1. \A x \in Active' : x \in Active /\ (worker'[x] = "sleep" => worker[x] = "sleep")
    BY Zenon, <1>1, <1>2 DEF Active
  <2>2. Wanted' = Wanted
    BY Zenon, <1>1 DEF Wanted
  <2> QED
    BY Zenon, <1>1, <1>2, <2>1, <2>2 DEF NoLostRequest
<1> QED
  BY Zenon, <1>3, <1>4, <1>5, <1>6, <1>7

\* The clock ticks, shutdown is called or joins the worker, or nothing happens.
LEMMA QuietStepsKeep ==
    ASSUME IInv, tick \/ shutdown \/ shutdown_notify \/ shutdown_join \/ UNCHANGED timerVars
    PROVE  IInv'
<1> USE DEF IInv
<1>1. /\ UNCHANGED <<m_request_queue, m_idle, m_abort, m_worker, local, deadline, cancelled>>
      /\ UNCHANGED <<m_is_oneshot, handle, old, post, coro, late, executor>>
  BY Zenon DEF tick, shutdown, shutdown_notify, shutdown_join, timerVars, queue, timer, client
<1>2. OneList' /\ Removals' /\ Delays' /\ MadeOnes' = MadeOnes
  BY Zenon, <1>1, NothingHappens
<1>3. CASE tick \/ UNCHANGED timerVars
  <2>1. UNCHANGED <<worker, shut, m_atomic_abort>> /\ now' \in 0 .. MaxTime
    BY <1>3, TicksAreNat DEF tick, timerVars, queue, TimerTypeOK
  <2>2. Active' = Active
    BY Zenon, <2>1 DEF Active
  <2>3. TimerTypeOK'
    BY Zenon, <1>1, <2>1 DEF TimerTypeOK, local, post, coro
  <2>4. Shutting' /\ Threads'
    BY Zenon, <1>1, <1>2, <2>1, <2>2, SameShutdown, SameThreads DEF local, coro
  <2>5. NoLostRequest'
    BY Zenon, <1>1, <2>1, <2>2 DEF NoLostRequest, Wanted
  <2> QED
    BY Zenon, <1>2, <2>3, <2>4, <2>5
<1>4. CASE shutdown
  <2>1. shut = "no" /\ shut' = "lock" /\ m_atomic_abort' = TRUE /\ UNCHANGED <<worker, now>>
    BY Zenon, <1>4 DEF shutdown
  <2>2. Active' = Active
    BY Zenon, <2>1 DEF Active
  <2>3. TimerTypeOK'
    BY Zenon, <1>1, <2>1 DEF TimerTypeOK, local, post, coro
  <2>4. Threads'
    BY Zenon, <1>1, <1>2, <2>1, <2>2, SameThreads DEF local
  <2>5. Shutting'
    BY Zenon, <1>1, <2>1 DEF Shutting, Lockable
  <2>6. NoLostRequest'
    BY Zenon, <1>1, <2>1, <2>2 DEF NoLostRequest, Wanted
  <2> QED
    BY Zenon, <1>2, <2>3, <2>4, <2>5, <2>6
<1>5. CASE shutdown_notify
  <2>1. shut = "notify" /\ shut' = "join" /\ worker' = Notified /\ UNCHANGED <<m_atomic_abort, now>>
    BY Zenon, <1>5 DEF shutdown_notify, queue
  <2>2. Threads' /\ NoLostRequest' /\ worker' \in [Workers -> WorkerLabels]
    BY Zenon, <1>1, <1>2, <2>1, NotifyKeepsThreads, NotifiedWorkers DEF local
  <2>3. TimerTypeOK'
    BY Zenon, <1>1, <2>1, <2>2 DEF TimerTypeOK, local, post, coro
  <2>4. Shutting'
    BY Zenon, <1>1, <2>1 DEF Shutting, Lockable
  <2> QED
    BY Zenon, <1>2, <2>2, <2>3, <2>4
<1>6. CASE shutdown_join
  <2>1. /\ shut = "join" /\ shut' = "done" /\ worker[m_worker] = "ended"
        /\ UNCHANGED <<worker, m_atomic_abort, now>>
    BY Zenon, <1>6 DEF shutdown_join, queue
  <2>2. Active' = Active
    BY Zenon, <2>1 DEF Active
  <2>3. TimerTypeOK'
    BY Zenon, <1>1, <2>1 DEF TimerTypeOK, local, post, coro
  <2>4. Active = {}
    BY Zenon, <2>1 DEF Threads, OneWorker, Active
  <2>5. Threads'
    BY Zenon, <1>1, <1>2, <2>1, <2>2, SameThreads DEF local
  <2>6. Shutting'
    BY Zenon, <1>1, <2>1, <2>2, <2>4 DEF Shutting, Lockable
  <2>7. NoLostRequest'
    <3>1. m_abort
      BY Zenon, <2>1 DEF Shutting
    <3> QED
      BY Zenon, <1>1, <2>2, <2>4, <3>1 DEF NoLostRequest
  <2> QED
    BY Zenon, <1>2, <2>3, <2>5, <2>6, <2>7
<1> QED
  BY Zenon, <1>3, <1>4, <1>5, <1>6

\* Under the lock the worker takes the requests, sleeps, or gives up.
LEMMA WorkLockKeeps ==
    ASSUME IInv, NEW w \in Workers, work_lock(w)
    PROVE  IInv'
<1> USE DEF IInv
<1>1. /\ worker[w] \in {"lock", "timed_out"} /\ Lockable
      /\ UNCHANGED <<m_abort, m_atomic_abort, m_worker, now, time, firing, deadline, cancelled, m_is_oneshot>>
      /\ UNCHANGED <<handle, old, posted, again, tasks, late, executor, shut>>
      /\ Break({})
  BY Zenon DEF work_lock, timer, client, post
<1>2. w = m_worker /\ Active = {w} /\ firing = {}
  BY Zenon, <1>1, AtWork
<1>3. \/ /\ m_abort /\ worker' = [worker EXCEPT ![w] = "ended"] /\ m_timers' = {} /\ m_iterator_mapper' = {}
         /\ UNCHANGED <<m_idle, m_request_queue, requests>>
      \/ /\ ~m_abort /\ worker' = [worker EXCEPT ![w] = "process"]
         /\ requests' = m_request_queue /\ m_request_queue' = <<>>
         /\ UNCHANGED <<m_idle, m_timers, m_iterator_mapper>>
      \/ /\ ~Wanted /\ worker' = [worker EXCEPT ![w] = "sleep"]
         /\ UNCHANGED <<m_idle, m_request_queue, requests, m_timers, m_iterator_mapper>>
      \/ /\ ~Wanted /\ worker' = [worker EXCEPT ![w] = "leaving"] /\ m_idle' = TRUE
         /\ UNCHANGED <<m_request_queue, requests, m_timers, m_iterator_mapper>>
  BY Zenon DEF work_lock, TakeRequests
<1>4. /\ worker' \in [Workers -> WorkerLabels]
      /\ \A x \in Workers \ {w} : worker'[x] = worker[x]
      /\ worker'[w] \in {"ended", "process", "sleep", "leaving"}
      /\ Active' = IF worker'[w] \in {"ended", "leaving"} THEN {} ELSE {w}
  <2>1. PICK to \in {"ended", "process", "sleep", "leaving"} : worker' = [worker EXCEPT ![w] = to]
    BY Zenon, <1>3
  <2>2. to \in WorkerLabels
    BY Zenon DEF WorkerLabels
  <2> QED
    BY Zenon, <1>2, <2>1, <2>2, WorkerMoves
<1>5. /\ m_request_queue \in Seq(Requests) /\ <<>> \in Seq(Requests) /\ Added(<<>>) = {} /\ Removed(<<>>) = {}
      /\ Adds(<<>>) = {} /\ Named(<<>>) = {}
  BY Zenon, EmptySequence, RequestSets DEF TimerTypeOK, Requests
<1>6. /\ resumes' \in [Delay -> {0, 1}] /\ broken \subseteq broken' /\ broken' \subseteq Delay
  BY Zenon, <1>1, BreakResumes
<1>7. TimerTypeOK'
  <2>1. /\ m_request_queue' \in Seq(Requests) /\ requests' \in Seq(Requests)
        /\ m_timers' \subseteq Timers /\ m_iterator_mapper' \subseteq Timers /\ m_idle' \in BOOLEAN
    BY Zenon, <1>3, <1>5 DEF TimerTypeOK, Requests
  <2> QED
    BY Zenon, <1>1, <1>4, <1>6, <2>1 DEF TimerTypeOK, Requests
<1>8. Shutting'
  BY Zenon, <1>1, <1>2, <1>4, <1>6, SameShutdown
<1>9. Threads'
  <2>1. MadeOnes' = MadeOnes
    BY Zenon, <1>1 DEF MadeOnes
  <2>2. OneWorker'
    <3>1. m_abort \/ (~m_abort /\ (m_idle' <=> worker'[w] \in {"ended", "leaving"}))
      <4>1. ~m_abort => ~m_idle
        BY Zenon, <1>2 DEF Threads, OneWorker
      <4>2. worker \in [Workers -> WorkerLabels]
        BY Zenon DEF TimerTypeOK
      <4> QED
        BY Zenon, <1>3, <4>1, <4>2 DEF Wanted
    <3> QED
      BY Zenon, <1>1, <1>2, <1>4, <3>1 DEF OneWorker
  <2>3. NeverTerminates'
    BY Zenon, <1>4 DEF Threads, NeverTerminates
  <2>4. \A x \in Workers : x > m_worker => worker'[x] = "none"
    BY <1>2, <1>4 DEF Threads, Workers
  <2> QED
    BY Zenon, <1>1, <1>2, <2>1, <2>2, <2>3, <2>4 DEF Threads
<1>10. NoLostRequest'
  <2>1. CASE worker'[w] \in {"ended", "leaving"}
    <3>1. m_abort \/ m_request_queue' = <<>>
      <4>1. worker \in [Workers -> WorkerLabels]
        BY Zenon DEF TimerTypeOK
      <4> QED
        BY Zenon, <1>3, <2>1, <4>1 DEF Wanted
    <3> QED
      BY Zenon, <1>1, <1>4, <1>5, <2>1, <3>1 DEF NoLostRequest
  <2>2. CASE worker'[w] = "process"
    BY Zenon, <1>4, <2>2 DEF NoLostRequest
  <2>3. CASE worker'[w] = "sleep"
    <3>1. ~Wanted'
      <4>1. worker \in [Workers -> WorkerLabels]
        BY Zenon DEF TimerTypeOK
      <4> QED
        BY Zenon, <1>1, <1>3, <2>3, <4>1 DEF Wanted
    <3> QED
      BY Zenon, <1>4, <2>3, <3>1 DEF NoLostRequest
  <2> QED
    BY Zenon, <1>4, <2>1, <2>2, <2>3
<1>11. OneList'
  <2>1. OneShot' = OneShot /\ Accepted' = Accepted
    BY Zenon, <1>1 DEF OneShot, Accepted
  <2>2. /\ Added(m_request_queue') \subseteq Added(m_request_queue)
        /\ Added(requests') \subseteq Added(requests) \cup Added(m_request_queue)
        /\ Added(m_request_queue') \cap Added(requests') = {}
        /\ m_iterator_mapper' \subseteq m_iterator_mapper /\ m_timers' = m_iterator_mapper'
    BY Zenon, <1>2, <1>3, <1>5 DEF OneList
  <2> QED
    BY Zenon, <1>1, <1>2, <2>1, <2>2 DEF OneList
<1>12. Removals'
  <2>1. Removed(m_request_queue') \cup Removed(requests') \subseteq Removed(m_request_queue) \cup Removed(requests)
    BY Zenon, <1>3, <1>5
  <2> QED
    BY Zenon, <1>1, <2>1 DEF Removals, OnceAfterCancel
<1>13. Delays'
  <2>1. Lists' \subseteq Lists
    BY Zenon, <1>1, <1>3, <1>5 DEF Lists
  <2>2. \A u \in Delay : m_is_oneshot'[u]
    BY Zenon, <1>1 DEF Delays, OneShot
  <2> QED
    BY Zenon, <1>1, <1>7, <2>1, <2>2, BreakKeepsDelays
<1> QED
  BY Zenon, <1>7, <1>8, <1>9, <1>10, <1>11, <1>12, <1>13

\* The worker applies the requests it took.
LEMMA ProcessRequestsKeeps ==
    ASSUME IInv, NEW w \in Workers, process_request_queue(w)
    PROVE  IInv'
<1> USE DEF IInv
<1>1. /\ worker[w] = "process" /\ worker' = [worker EXCEPT ![w] = "loop"]
      /\ m_timers' = Applied(m_timers) /\ m_iterator_mapper' = Applied(m_iterator_mapper)
      /\ requests' = <<>> /\ time' = now
      /\ UNCHANGED <<m_request_queue, m_idle, m_abort, m_atomic_abort, m_worker, now, firing, deadline>>
      /\ UNCHANGED <<cancelled, m_is_oneshot, handle, old, posted, again, tasks, late, executor, shut>>
      /\ Break({})
  BY Zenon DEF process_request_queue, WorkerGoes, queue, timer, client, post
<1>2. w = m_worker /\ Active = {w} /\ firing = {}
  BY Zenon, <1>1, AtWork
<1>3. /\ worker' \in [Workers -> WorkerLabels] /\ worker'[w] = "loop"
      /\ \A x \in Workers \ {w} : worker'[x] = worker[x]
      /\ Active' = Active
  BY Zenon, <1>1, <1>2, WorkerMoves DEF WorkerLabels
<1>4. m_timers' = m_iterator_mapper'
  <2>1. m_timers = m_iterator_mapper
    BY Zenon, <1>2 DEF OneList
  <2> QED
    BY Zenon, <1>1, <2>1
<1>5. m_iterator_mapper' \subseteq Timers /\ m_iterator_mapper' \subseteq m_iterator_mapper \cup Added(requests)
  <2>1. m_iterator_mapper \in SUBSET Timers /\ requests \in Seq(Requests)
    BY Zenon DEF TimerTypeOK, Requests
  <2> QED
    BY Zenon, <1>1, <2>1, AppliedRequests
<1>6. /\ <<>> \in Seq(Requests) /\ Added(<<>>) = {} /\ Removed(<<>>) = {}
  BY Zenon, EmptySequence, RequestSets
<1>7. /\ resumes' \in [Delay -> {0, 1}] /\ broken \subseteq broken' /\ broken' \subseteq Delay
  BY Zenon, <1>1, BreakResumes
<1>8. TimerTypeOK'
  BY Zenon, <1>1, <1>3, <1>4, <1>5, <1>6, <1>7 DEF TimerTypeOK, Requests
<1>9. Shutting'
  BY Zenon, <1>1, <1>3, <1>7, SameShutdown
<1>10. Threads'
  <2>1. MadeOnes' = MadeOnes
    BY Zenon, <1>1 DEF MadeOnes
  <2>2. \A x \in Workers : /\ worker'[x] = "terminated" => worker[x] = "terminated"
                           /\ worker[x] = "none" => worker'[x] = "none"
                           /\ worker[x] = "fire" => worker'[x] = "fire"
    BY Zenon, <1>1, <1>3
  <2> QED
    BY Zenon, <1>1, <1>3, <2>1, <2>2, SameThreads
<1>11. NoLostRequest'
  BY Zenon, <1>1, <1>2, <1>3 DEF NoLostRequest
<1>12. OneList'
  <2>1. OneShot' = OneShot /\ Accepted' = Accepted
    BY Zenon, <1>1 DEF OneShot, Accepted
  <2> QED
    BY Zenon, <1>1, <1>2, <1>4, <1>5, <1>6, <2>1 DEF OneList
<1>13. Removals'
  BY Zenon, <1>1, <1>6 DEF Removals, OnceAfterCancel
<1>14. Delays'
  <2>1. Lists' \subseteq Lists
    BY Zenon, <1>1, <1>5, <1>6 DEF Lists
  <2>2. \A u \in Delay : m_is_oneshot'[u]
    BY Zenon, <1>1 DEF Delays, OneShot
  <2> QED
    BY Zenon, <1>1, <1>8, <2>1, <2>2, BreakKeepsDelays
<1> QED
  BY Zenon, <1>8, <1>9, <1>10, <1>11, <1>12, <1>13, <1>14

\* The worker takes the timer that is due, if it was not cancelled.
LEMMA ProcessTimersKeeps ==
    ASSUME IInv, NEW w \in Workers, process_timers(w)
    PROVE  IInv'
<1> USE DEF IInv
<1>1. /\ worker[w] = "loop"
      /\ UNCHANGED <<m_request_queue, m_idle, m_abort, m_atomic_abort, m_worker, now, requests, deadline>>
      /\ UNCHANGED <<cancelled, m_is_oneshot, handle, old, posted, again, tasks, late, executor, shut>>
      /\ Break({})
  BY Zenon DEF process_timers, WorkerGoes, queue, timer, client, post
<1>2. w = m_worker /\ Active = {w} /\ firing = {} /\ m_timers = m_iterator_mapper
  <2>1. w = m_worker /\ Active = {w} /\ firing = {}
    BY Zenon, <1>1, AtWork
  <2> QED
    BY Zenon, <2>1 DEF OneList
<1> DEFINE Effect ==
      /\ worker' = [worker EXCEPT ![w] = worker'[w]] /\ worker'[w] \in {"lock", "loop", "fire"}
      /\ time' \in 0 .. MaxTime
      /\ \/ worker'[w] \in {"lock", "loop"} /\ firing' = {} /\ m_timers' = m_iterator_mapper'
            /\ m_iterator_mapper' \subseteq m_iterator_mapper
         \/ worker'[w] = "fire" /\ \E t \in m_iterator_mapper :
               ~cancelled[t] /\ firing' = {t} /\ m_timers' = m_timers \ {t} /\ m_iterator_mapper' = m_iterator_mapper
<1>3. Effect
  <2>1. worker \in [Workers -> WorkerLabels] /\ time \in 0 .. MaxTime /\ 0 \in 0 .. MaxTime
    BY TicksAreNat DEF TimerTypeOK
  <2>2. CASE WorkerGoes(w, "loop", "lock") /\ time' = 0 /\ UNCHANGED <<m_timers, m_iterator_mapper, firing>>
    BY Zenon, <1>2, <2>1, <2>2 DEF WorkerGoes
  <2>3. ASSUME NEW t \in Closest, m_timers' = m_timers \ {t}, UNCHANGED time,
               \/ /\ cancelled[t] /\ WorkerGoes(w, "loop", "loop")
                  /\ m_iterator_mapper' = m_iterator_mapper \ {t} /\ UNCHANGED firing
               \/ /\ ~cancelled[t] /\ WorkerGoes(w, "loop", "fire")
                  /\ firing' = {t} /\ UNCHANGED m_iterator_mapper
        PROVE  Effect
    <3>1. t \in m_iterator_mapper
      BY Zenon, <1>2 DEF Closest
    <3> QED
      BY Zenon, <1>2, <2>1, <2>3, <3>1 DEF WorkerGoes
  <2> QED
    BY Zenon, <2>2, <2>3 DEF process_timers
<1>4. /\ worker' \in [Workers -> WorkerLabels] /\ \A x \in Workers \ {w} : worker'[x] = worker[x]
      /\ Active' = Active
  <2>1. worker'[w] \in WorkerLabels
    BY Zenon, <1>3 DEF WorkerLabels
  <2> QED
    BY Zenon, <1>2, <1>3, <2>1, WorkerMoves
<1>5. /\ m_timers' = m_iterator_mapper' \ firing' /\ firing' \subseteq m_iterator_mapper'
      /\ m_iterator_mapper' \subseteq m_iterator_mapper
  BY Zenon, <1>2, <1>3
<1>6. /\ resumes' \in [Delay -> {0, 1}] /\ broken \subseteq broken' /\ broken' \subseteq Delay
  BY Zenon, <1>1, BreakResumes
<1>7. TimerTypeOK'
  <2>1. Cardinality(firing') <= 1
    <3>1. Cardinality({}) = 0 /\ \A t : Cardinality({t}) = 1
      BY Zenon, FS_EmptySet, FS_Singleton
    <3>2. firing' = {} \/ \E t : firing' = {t}
      BY Zenon, <1>3
    <3>3. Cardinality(firing') \in {0, 1}
      BY Zenon, <3>1, <3>2
    <3> QED
      BY <3>3
  <2>2. m_timers' \subseteq Timers /\ m_iterator_mapper' \subseteq Timers /\ firing' \subseteq Timers
    BY Zenon, <1>5 DEF TimerTypeOK
  <2> QED
    BY Zenon, <1>1, <1>3, <1>4, <1>6, <2>1, <2>2 DEF TimerTypeOK
<1>8. Shutting'
  BY Zenon, <1>1, <1>4, <1>6, SameShutdown
<1>9. Threads'
  <2>1. MadeOnes' = MadeOnes
    BY Zenon, <1>1 DEF MadeOnes
  <2>2. OneWorker' /\ NeverTerminates'
    BY Zenon, <1>1, <1>3, <1>4 DEF Threads, OneWorker, NeverTerminates
  <2>3. \A x \in Workers : x > m_worker => worker'[x] = "none"
    BY <1>2, <1>4 DEF Threads, Workers
  <2>4. firing' # {} => worker'[w] = "fire"
    BY Zenon, <1>3
  <2> QED
    BY Zenon, <1>1, <2>1, <2>2, <2>3, <2>4 DEF Threads
<1>10. NoLostRequest'
  BY Zenon, <1>1, <1>2, <1>3, <1>4 DEF NoLostRequest
<1>11. OneList'
  <2>1. OneShot' = OneShot /\ Accepted' = Accepted
    BY Zenon, <1>1 DEF OneShot, Accepted
  <2> QED
    BY Zenon, <1>1, <1>5, <2>1 DEF OneList
<1>12. Removals'
  <2>1. \A t \in firing' : ~cancelled[t]
    BY Zenon, <1>3
  <2> QED
    BY Zenon, <1>1, <2>1 DEF Removals, OnceAfterCancel
<1>13. Delays'
  <2>1. Lists' \subseteq Lists
    BY Zenon, <1>1, <1>5 DEF Lists
  <2>2. \A u \in Delay : m_is_oneshot'[u]
    BY Zenon, <1>1 DEF Delays, OneShot
  <2> QED
    BY Zenon, <1>1, <1>7, <2>1, <2>2, BreakKeepsDelays
<1> QED
  BY Zenon, <1>7, <1>8, <1>9, <1>10, <1>11, <1>12, <1>13

\* The timer is posted, and set again unless it is a one-shot timer.
LEMMA FireKeeps ==
    ASSUME IInv, NEW w \in Workers, fire(w)
    PROVE  IInv'
<1> USE DEF IInv
<1>1. worker[w] = "fire" /\ w = m_worker /\ Active = {w}
  <2>1. worker[w] = "fire"
    BY Zenon DEF fire, Posted, WorkerGoes
  <2> QED
    BY Zenon, <2>1, AtWork
<1>2. executor = "open"
  BY Zenon, <1>1 DEF Shutting, TimerTypeOK
<1>3. /\ UNCHANGED <<m_request_queue, m_idle, m_abort, m_atomic_abort, m_worker, now, requests, time>>
      /\ UNCHANGED <<cancelled, m_is_oneshot, handle, old, executor, shut>>
      /\ Break({})
  BY Zenon DEF fire, queue, client
<1>4. PICK t \in firing : /\ Posted(w, t) /\ m_timers' = m_timers \cup ({t} \ OneShot)
                          /\ m_iterator_mapper' = m_iterator_mapper \ ({t} \cap OneShot)
  BY Zenon, <1>2 DEF fire
<1>5. /\ posted' = posted \cup {t} /\ again' = again \cup ({t} \cap posted)
      /\ tasks' = tasks \cup ({t} \cap Delay)
      /\ late' = [late EXCEPT ![t] = IF t \notin Delay /\ handle[t] = "gone" THEN @ + 1 ELSE @]
      /\ firing' = {} /\ worker' = [worker EXCEPT ![w] = "loop"]
  BY Zenon, <1>4 DEF Posted, WorkerGoes
<1>6. t \in Timers /\ t \in m_iterator_mapper /\ firing = {t}
  <2>1. t \in Timers /\ t \in m_iterator_mapper
    BY Zenon DEF TimerTypeOK, OneList
  <2>2. ASSUME NEW u \in firing PROVE u = t
    <3>1. IsFiniteSet(firing)
      BY Zenon, KindsDiffer, FS_Subset DEF TimerTypeOK
    <3>0. {t, u} \subseteq firing /\ {t, u} \in SUBSET firing
      BY Zenon
    <3>2. IsFiniteSet({t, u}) /\ Cardinality({t}) = 1
      BY Zenon, <3>0, <3>1, FS_Subset, FS_Singleton
    <3>3. Cardinality({t, u}) <= Cardinality(firing) /\ Cardinality({t, u}) \in Nat /\ Cardinality(firing) \in Nat
      BY Zenon, <3>0, <3>1, <3>2, FS_Subset, FS_CardinalityType
    <3>4. u # t => Cardinality({t, u}) = 2
      <4>1. IsFiniteSet({t}) /\ {t} \cup {u} = {t, u}
        BY Zenon, FS_Singleton
      <4>2. u # t => u \notin {t}
        BY Zenon
      <4>3. u # t => Cardinality({t} \cup {u}) = Cardinality({t}) + 1
        BY Zenon, <4>1, <4>2, FS_AddElement
      <4> QED
        BY <3>2, <4>1, <4>3
    <3> QED
      BY <3>3, <3>4 DEF TimerTypeOK
  <2> QED
    BY Zenon, <2>1, <2>2
<1>7. deadline' \in [Timers -> Nat]
  <2>1. \A f \in Frequencies : now + f \in Nat
    BY TicksAreNat DEF TimerTypeOK
  <2>2. \E n \in Nat : deadline' = [deadline EXCEPT ![t] = n]
    BY Zenon, <1>4, <2>1 DEF Posted
  <2> QED
    BY Zenon, <2>2 DEF TimerTypeOK
<1>8. /\ late' \in [Timers -> Nat] /\ \A u \in Timers \ {t} : late'[u] = late[u]
      /\ late'[t] = IF t \notin Delay /\ handle[t] = "gone" THEN late[t] + 1 ELSE late[t]
  BY <1>5, <1>6 DEF TimerTypeOK
<1>9. /\ worker' \in [Workers -> WorkerLabels] /\ worker'[w] = "loop"
      /\ \A x \in Workers \ {w} : worker'[x] = worker[x]
      /\ Active' = Active
  BY Zenon, <1>1, <1>5, WorkerMoves DEF WorkerLabels
<1>10. /\ resumes' \in [Delay -> {0, 1}] /\ broken \subseteq broken' /\ broken' \subseteq Delay
  BY Zenon, <1>3, BreakResumes
<1>11. m_iterator_mapper' \subseteq m_iterator_mapper /\ m_timers' = m_iterator_mapper'
  BY Zenon, <1>4, <1>6 DEF OneList
<1>12. TimerTypeOK'
  <2>1. Cardinality({}) = 0
    BY Zenon, FS_EmptySet
  <2>2. Cardinality(firing') <= 1 /\ firing' \subseteq Timers
    BY <1>5, <2>1
  <2>3. /\ m_timers' \subseteq Timers /\ m_iterator_mapper' \subseteq Timers
        /\ again' \subseteq posted' /\ posted' \subseteq Timers /\ tasks' \subseteq Delay \cap posted'
    BY Zenon, <1>5, <1>6, <1>11 DEF TimerTypeOK
  <2> QED
    BY Zenon, <1>3, <1>7, <1>8, <1>9, <1>10, <2>2, <2>3 DEF TimerTypeOK
<1>13. Shutting'
  BY Zenon, <1>3, <1>9, <1>10, SameShutdown
<1>14. Threads'
  <2>1. MadeOnes' = MadeOnes
    BY Zenon, <1>3 DEF MadeOnes
  <2>2. OneWorker' /\ NeverTerminates'
    BY Zenon, <1>3, <1>9 DEF Threads, OneWorker, NeverTerminates
  <2>3. \A x \in Workers : x > m_worker => worker'[x] = "none"
    BY Zenon, <1>1, <1>9 DEF Threads, Workers
  <2> QED
    BY Zenon, <1>3, <1>5, <2>1, <2>2, <2>3 DEF Threads
<1>15. NoLostRequest'
  BY Zenon, <1>1, <1>3, <1>9 DEF NoLostRequest
<1>16. OneList'
  <2>1. OneShot' = OneShot /\ Accepted' = Accepted
    BY Zenon, <1>3 DEF OneShot, Accepted
  <2>2. t \notin Added(m_request_queue) \cup Added(requests) /\ t \in Accepted
    BY Zenon, <1>6 DEF OneList
  <2>3. t \in OneShot => t \notin posted /\ t \notin m_iterator_mapper'
    BY Zenon, <1>4, <1>6 DEF OneList
  <2> QED
    BY Zenon, <1>3, <1>5, <1>11, <2>1, <2>2, <2>3 DEF OneList
<1>17. Removals'
  <2>1. t \notin Delay /\ handle[t] = "gone" => t \in Held /\ cancelled[t]
    BY Zenon, <1>6 DEF Removals, Timers
  <2>2. late[t] = 0
    BY <1>6 DEF Removals, TimerTypeOK
  <2>3. \A u \in Timers : late'[u] > 0 => cancelled[u]
    BY Zenon, <1>8, <2>1, <2>2 DEF Removals
  <2>4. OnceAfterCancel'
    BY <1>8, <2>2 DEF Removals, OnceAfterCancel
  <2> QED
    BY Zenon, <1>3, <1>5, <2>3, <2>4 DEF Removals
<1>18. Delays'
  <2>1. Lists' \subseteq Lists
    BY Zenon, <1>3, <1>5, <1>6, <1>11 DEF Lists
  <2>2. \A u \in Delay : m_is_oneshot'[u]
    BY Zenon, <1>3 DEF Delays, OneShot
  <2> QED
    BY Zenon, <1>3, <1>12, <2>1, <2>2, BreakKeepsDelays
<1> QED
  BY Zenon, <1>12, <1>13, <1>14, <1>15, <1>16, <1>17, <1>18

\* The executor resumes the coroutine of a delay.
LEMMA ExecuteKeeps ==
    ASSUME IInv, NEW t \in Delay, execute(t)
    PROVE  IInv'
<1> USE DEF IInv
<1>1. /\ t \in tasks /\ tasks' = tasks \ {t} /\ resumes' = [resumes EXCEPT ![t] = @ + 1]
      /\ UNCHANGED <<m_request_queue, m_idle, m_abort, m_atomic_abort, m_worker, now, worker, requests, m_timers>>
      /\ UNCHANGED <<m_iterator_mapper, time, firing, deadline, cancelled, m_is_oneshot, handle, old, posted, again>>
      /\ UNCHANGED <<broken, late, executor, shut>>
  BY Zenon DEF execute, queue, local, timer, client
<1>2. resumes[t] = 0 /\ t \notin Lists'
  <2>1. t \in posted /\ t \in OneShot /\ t \in Lists
    BY Zenon, <1>1 DEF TimerTypeOK, Delays, Lists
  <2> QED
    BY Zenon, <1>1, <2>1 DEF Delays, OneList, Lists
<1>3. /\ resumes' \in [Delay -> {0, 1}] /\ resumes'[t] = 1 /\ \A u \in Delay \ {t} : resumes'[u] = resumes[u]
  BY <1>1, <1>2 DEF TimerTypeOK
<1>4. UNCHANGED <<Active, MadeOnes, Accepted, Wanted>>
  BY Zenon, <1>1 DEF Active, MadeOnes, Accepted, Wanted
<1>5. TimerTypeOK'
  BY Zenon, <1>1, <1>3 DEF TimerTypeOK
<1>6. Shutting' /\ Threads' /\ OneList' /\ Removals'
  BY Zenon, <1>1, <1>4, SameShutdown, SameThreads, SameLists, SameRemovals
<1>7. NoLostRequest'
  BY Zenon, <1>1, <1>4 DEF NoLostRequest
<1>8. Delays'
  <2>1. Lists' \subseteq Lists /\ OneShot' = OneShot
    BY Zenon, <1>1 DEF Lists, OneShot
  <2>2. \A u \in Referred : u = t \/ u \in Referred'
    BY Zenon, <1>1 DEF Referred
  <2>3. handle[t] # "none"
    BY Zenon, <1>1 DEF TimerTypeOK, OneList, Accepted
  <2> QED
    BY <1>1, <1>2, <1>3, <2>1, <2>2, <2>3 DEF Delays
<1> QED
  BY Zenon, <1>5, <1>6, <1>7, <1>8

\* The executor is shut down after the timer queue.
LEMMA ShutdownExecutorKeeps ==
    ASSUME IInv, shutdown_executor
    PROVE  IInv'
<1> USE DEF IInv
<1>1. /\ shut = "done" /\ executor' = "closed" /\ tasks' = {}
      /\ UNCHANGED <<m_request_queue, m_idle, m_abort, m_atomic_abort, m_worker, now, worker, requests, m_timers>>
      /\ UNCHANGED <<m_iterator_mapper, time, firing, deadline, cancelled, m_is_oneshot, handle, old, posted, again>>
      /\ UNCHANGED <<late, shut>>
      /\ Break({})
  BY Zenon DEF shutdown_executor, queue, local, timer, client
<1>2. /\ resumes' \in [Delay -> {0, 1}] /\ broken \subseteq broken' /\ broken' \subseteq Delay
  BY Zenon, <1>1, BreakResumes
<1>3. UNCHANGED <<Active, MadeOnes, Accepted, Wanted>>
  BY Zenon, <1>1 DEF Active, MadeOnes, Accepted, Wanted
<1>4. TimerTypeOK'
  BY Zenon, <1>1, <1>2 DEF TimerTypeOK
<1>5. Threads' /\ OneList' /\ Removals'
  BY Zenon, <1>1, <1>3, SameThreads, SameLists, SameRemovals
<1>6. NoLostRequest'
  BY Zenon, <1>1, <1>3 DEF NoLostRequest
<1>7. Shutting'
  BY Zenon, <1>1, <1>3 DEF Shutting, Lockable
<1>8. Delays'
  <2>1. Lists' \subseteq Lists
    BY Zenon, <1>1 DEF Lists
  <2>2. \A u \in Delay : m_is_oneshot'[u]
    BY Zenon, <1>1 DEF Delays, OneShot
  <2> QED
    BY Zenon, <1>1, <1>4, <2>1, <2>2, BreakKeepsDelays
<1> QED
  BY Zenon, <1>4, <1>5, <1>6, <1>7, <1>8

\* shutdown sets m_abort, and breaks the delays that are still requests.
LEMMA ShutdownLockKeeps ==
    ASSUME IInv, shutdown_lock
    PROVE  IInv'
<1> USE DEF IInv
<1>1. /\ shut = "lock" /\ m_abort' = TRUE /\ m_request_queue' = IF m_worker = NoWorker THEN m_request_queue ELSE <<>>
      /\ UNCHANGED <<m_idle, m_atomic_abort, m_worker, now, worker, requests, m_timers, m_iterator_mapper, time>>
      /\ UNCHANGED <<firing, deadline, cancelled, m_is_oneshot, handle, old, posted, again, tasks, late, executor>>
      /\ Break({})
      /\ \/ shut' = IF m_worker = NoWorker THEN "done" ELSE "notify"
         \/ broken' # broken /\ shut' = "relocked"
  BY Zenon DEF shutdown_lock, local, timer, client, post
<1>2. /\ resumes' \in [Delay -> {0, 1}] /\ broken \subseteq broken' /\ broken' \subseteq Delay
  BY Zenon, <1>1, BreakResumes
<1>3. UNCHANGED <<Active, MadeOnes, Accepted>>
  BY Zenon, <1>1 DEF Active, MadeOnes, Accepted
<1>4. /\ <<>> \in Seq(Requests) /\ Added(<<>>) = {} /\ Removed(<<>>) = {}
  BY Zenon, EmptySequence, RequestSets
<1>5. TimerTypeOK'
  <2>1. m_request_queue' \in Seq(Timers \X {"add", "remove"})
    BY Zenon, <1>1, <1>4 DEF TimerTypeOK, Requests
  <2> QED
    BY Zenon, <1>1, <1>2, <2>1 DEF TimerTypeOK
<1>6. m_worker = NoWorker => Active = {}
  BY DEF Threads, OneWorker, Active, Workers, NoWorker
<1>7. m_worker = NoWorker => broken' = broken
  <2> SUFFICES ASSUME m_worker = NoWorker, broken' # broken PROVE FALSE
    BY Zenon
  <2>1. Referred' = Referred
    BY Zenon, <1>1 DEF Referred
  <2>2. PICK t \in Delay : handle[t] # "none" /\ resumes[t] = 0 /\ t \notin Referred'
    BY <1>1, BreakResumes
  <2> QED
    BY Zenon, <2>1, <2>2 DEF Delays
<1>8. Shutting'
  <2>1. ~Lockable' => LocksTwice'
    BY Zenon, <1>1, <1>2, <1>7 DEF Lockable, LocksTwice
  <2> QED
    BY Zenon, <1>1, <1>3, <1>6, <1>7, <2>1 DEF Shutting, TimerTypeOK
<1>9. Threads'
  BY Zenon, <1>1, <1>3 DEF Threads, OneWorker, NeverTerminates
<1>10. NoLostRequest'
  BY Zenon, <1>1, <1>3, <1>6 DEF NoLostRequest
<1>11. OneList'
  <2>1. OneShot' = OneShot /\ Added(m_request_queue') \subseteq Added(m_request_queue)
    BY Zenon, <1>1, <1>4 DEF OneShot
  <2> QED
    BY Zenon, <1>1, <1>3, <2>1 DEF OneList
<1>12. Removals'
  <2>1. Removed(m_request_queue') \subseteq Removed(m_request_queue)
    BY Zenon, <1>1, <1>4
  <2> QED
    BY Zenon, <1>1, <2>1 DEF Removals, OnceAfterCancel
<1>13. Delays'
  <2>1. Lists' \subseteq Lists
    BY Zenon, <1>1, <1>4 DEF Lists
  <2>2. \A u \in Delay : m_is_oneshot'[u]
    BY Zenon, <1>1 DEF Delays, OneShot
  <2> QED
    BY Zenon, <1>1, <1>5, <2>1, <2>2, BreakKeepsDelays
<1> QED
  BY Zenon, <1>5, <1>8, <1>9, <1>10, <1>11, <1>12, <1>13

\* Every step keeps the invariant.
LEMMA NextKeepsIInv == IInv /\ [TimerNext]_timerVars => IInv'
<1> SUFFICES ASSUME IInv, [TimerNext]_timerVars PROVE IInv'
  BY Zenon
<1>1. ASSUME NEW t \in Timers, cancel(t) \/ ClientStep(t) PROVE IInv'
  BY Zenon, <1>1, CancelKeeps, AddReturnsKeeps DEF ClientStep
<1>2. ASSUME NEW w \in Workers, WorkerStep(w) \/ idle_time_out(w) \/ spurious_wake_up(w) PROVE IInv'
  BY Zenon, <1>2, QuietWorkerKeeps, WorkLockKeeps, ProcessRequestsKeeps, ProcessTimersKeeps, FireKeeps DEF WorkerStep
<1> QED
  BY Zenon, <1>1, <1>2, AddTimerKeeps, ExecuteKeeps, QuietStepsKeep, ShutdownExecutorKeeps, ShutdownLockKeeps
     DEF TimerNext, ShutdownStep

\* So it holds in every reachable state.
LEMMA IInvHolds == TimerSpec => []IInv
  BY InitIInv, NextKeepsIInv, PTL DEF TimerSpec

\* However many timers of each kind there are, and whatever their due times and
\* frequencies: timer_queue starts a worker for every request and one at a time,
\* posts a one-shot timer once and a cancelled one once more at most, resumes the
\* coroutine of a delay once, and never posts to an executor that was shut down
\* after it.
THEOREM TimerQueueIsCorrect == TimerSpec => []TimerInv
<1>1. ASSUME IInv PROVE TimerInv
  <2> USE <1>1 DEF IInv
  <2>1. AssertionsHold
    <3>1. \A i \in Adds(requests) : requests[i][1] \in Added(requests)
      BY Zenon DEF Added
    <3>2. \A i \in DOMAIN requests \ Adds(requests) : requests[i][1] \in Removed(requests)
      BY Zenon DEF Removed
    <3> QED
      BY Zenon, <3>1, <3>2 DEF AssertionsHold, OneList, Removals
  <2>2. OnlyOnce
    <3>1. \A t \in Delay : resumes[t] \in {0, 1}
      BY Zenon DEF TimerTypeOK
    <3>2. \A t \in Delay : resumes[t] <= 1
      BY <3>1
    <3> QED
      BY Zenon, <3>2 DEF OnlyOnce, OneList
  <2> QED
    BY Zenon, <2>1, <2>2 DEF TimerInv, Shutting, Threads, Removals
<1> QED
  BY <1>1, IInvHolds, PTL

===============================================================================
