---------------------------- MODULE ExecutorProofs ----------------------------
(***************************************************************************)
(* Proofs about the runtime's executors, for any executors, coroutines,    *)
(* tasks, threads and workers: the runtime, which posts to them and shuts  *)
(* them down; thread_executor; and the set of a thread pool's idle workers.*)
(***************************************************************************)
EXTENDS Runtime, ThreadExecutor, IdleWorkerSet, FiniteSetTheorems, TLAPS

-----------------------------------------------------------------------------
(* The runtime: a coroutine is in one task at most, it goes on where it    *)
(* was sent, and ~runtime leaves nothing behind in the executors and the   *)
(* timer queue.                                                            *)

\* What is inductive: InOneTask follows from TaskInv.
Core == RuntimeTypeOK /\ TaskInv /\ DestructorInv /\ ClosedIsQuiet /\ AllClosed

\* Nothing was posted yet, and the constructor has registered its executors.
LEMMA InitEstablishesCore == RuntimeInit => Core
<1> SUFFICES ASSUME RuntimeInit PROVE Core
  BY Zenon
<1> USE BuiltinIsSeq, NamesDiffer, PostsAreNat DEF RuntimeInit
<1>0. Builtin[1] \in Executors /\ 0 \in 0 .. MaxPosts
  OBVIOUS
<1>1. RuntimeTypeOK
  <2>1. m_executors \in Seq(Executors) /\ next \in Nat \ {0}
    OBVIOUS
  <2>6. terminated \in BOOLEAN
    BY Zenon
  <2>2. phase \in [Executors -> {"none", "open", "closing", "closed"}]
    BY Zenon
  <2>3. /\ pc \in [Coros -> {"new", "posting", "suspended", "running", "ended"}]
        /\ on \in [Coros -> Threads] /\ sent \in [Coros -> Executors]
    BY Zenon, <1>0 DEF Threads
  <2>4. slots \in [Coros -> SUBSET Slots] /\ posts \in [Coros -> 0 .. MaxPosts]
    BY Zenon, <1>0
  <2>5. m_interrupted \in [Coros -> BOOLEAN]
    BY Zenon
  <2> QED
    BY Zenon, <2>1, <2>2, <2>3, <2>4, <2>5, <2>6 DEF RuntimeTypeOK
<1>2. TaskInv
  BY Zenon DEF TaskInv
<1>3. DestructorInv
  BY ExecutorsDiffer DEF DestructorInv, Executors
<1>4. ClosedIsQuiet /\ AllClosed
  BY Zenon, ExecutorsDiffer DEF ClosedIsQuiet, AllClosed
<1> QED
  BY Zenon, <1>1, <1>2, <1>3, <1>4 DEF Core

\* Posting: a coroutine that is posted is in the argument of enqueue, or runs
\* where it is.
LEMMA PostsKeepCore ==
    ASSUME Core,
           \/ \E S \in SUBSET Coros, e \in Executors : submit(S, e)
           \/ \E c \in Coros, e \in Executors : resume_on(c, e)
    PROVE  Core'
<1> USE NamesDiffer, PostsAreNat, KindsOfExecutors
<1>1. ASSUME NEW S \in SUBSET Coros, NEW e \in Executors, submit(S, e) PROVE Core'
  <2>1. \A c \in Coros \ S :
           /\ pc'[c] = pc[c] /\ on'[c] = on[c] /\ sent'[c] = sent[c] /\ posts'[c] = posts[c]
           /\ slots'[c] = slots[c]
    BY <1>1 DEF submit, Posted, Core, RuntimeTypeOK
  <2>2. \A c \in Coros \ S : m_interrupted'[c] = m_interrupted[c]
    BY Zenon, <1>1 DEF submit, Core, RuntimeTypeOK
  <2>3. \A c \in S :
           /\ pc[c] = "new" /\ slots[c] = {} /\ on'[c] = "user" /\ sent'[c] = e /\ posts'[c] = 1
           /\ IF e \in Inline THEN pc'[c] = "running" /\ slots'[c] = {}
                              ELSE pc'[c] = "posting" /\ slots'[c] = {"argument"} /\ ~m_interrupted'[c]
    BY <1>1 DEF submit, Posted, Core, RuntimeTypeOK, TaskInv
  <2>4. UNCHANGED <<runtime, terminated>>
    BY Zenon, <1>1 DEF submit
  <2>5. RuntimeTypeOK'
    <3>1. /\ pc' \in [Coros -> {"new", "posting", "suspended", "running", "ended"}]
          /\ sent' \in [Coros -> Executors] /\ on' \in [Coros -> Threads]
      BY <1>1 DEF submit, Posted, Core, RuntimeTypeOK
    <3>2. posts' \in [Coros -> 0 .. MaxPosts]
      BY <1>1, <2>1, <2>3 DEF submit, Posted, Core, RuntimeTypeOK
    <3>3. slots' \in [Coros -> SUBSET Slots]
      BY <1>1, <2>1, <2>3 DEF submit, Core, RuntimeTypeOK, Slots
    <3>4. m_interrupted' \in [Coros -> BOOLEAN]
      <4>1. m_interrupted \in [Coros -> BOOLEAN]
        BY Zenon DEF Core, RuntimeTypeOK
      <4>2. CASE e \in Inline
        <5>1. m_interrupted' =
                [c \in Coros |-> m_interrupted[c] \/ (c \in S /\ phase[e] # "open")]
          BY Zenon, <1>1, <4>2 DEF submit
        <5> QED
          BY <5>1, Zenon
      <4>3. CASE e \notin Inline
        BY Zenon, <1>1, <4>1, <4>3 DEF submit
      <4> QED
        BY Zenon, <4>2, <4>3
    <3> QED
      BY Zenon, <2>4, <3>1, <3>2, <3>3, <3>4 DEF Core, RuntimeTypeOK, runtime
  <2>6. TaskInv'
    BY <2>1, <2>2, <2>3 DEF Core, TaskInv
  <2>7. DestructorInv' /\ AllClosed'
    BY <2>1, <2>3, <2>4 DEF Core, DestructorInv, AllClosed, runtime
  <2>8. ClosedIsQuiet'
    BY <2>1, <2>3, <2>4 DEF Core, ClosedIsQuiet, AtWork, Holds, runtime
  <2> QED
    BY Zenon, <2>5, <2>6, <2>7, <2>8 DEF Core
<1>2. ASSUME NEW c \in Coros, NEW e \in Executors, resume_on(c, e) PROVE Core'
  <2> USE <1>2 DEF resume_on, InBody, Posted, Core, runtime
  <2>1. RuntimeTypeOK'
    BY DEF RuntimeTypeOK, TaskInv, Slots
  <2>2. TaskInv'
    BY DEF RuntimeTypeOK, TaskInv
  <2>3. DestructorInv' /\ AllClosed'
    BY DEF RuntimeTypeOK, TaskInv, DestructorInv, AllClosed
  <2>4. ClosedIsQuiet'
    BY DEF RuntimeTypeOK, TaskInv, ClosedIsQuiet, AtWork, Holds
  <2> QED
    BY Zenon, <2>1, <2>2, <2>3, <2>4
<1> QED
  BY Zenon, <1>1, <1>2

\* A coroutine that is posting is in the argument of enqueue, and in nothing else;
\* one that is suspended is in the one slot that is known to hold it.
LEMMA OneSlot ==
    ASSUME Core, NEW c \in Coros, NEW s, (pc[c] = "posting" /\ s = "argument") \/ Holds(c, s)
    PROVE  slots[c] = {s} /\ ~m_interrupted[c]
  BY Zenon DEF Core, TaskInv, Holds

\* One coroutine moves: enqueue, the end of its body, and the threads of the
\* executors.
LEMMA CorosKeepCore ==
    ASSUME Core, NEW c \in Coros,
           enqueue_task(c) \/ run(c) \/ discard(c) \/ ends(c) \/ \E e \in Executors : take(c, e)
    PROVE  Core'
<1> USE NamesDiffer, PostsAreNat, KindsOfExecutors
<1>1. ASSUME NEW e \in Targets(on[c], sent[c]), pc[c] = "posting", UNCHANGED <<runtime, terminated>>,
             phase[e] = "open", e \notin Inline, pc' = [pc EXCEPT ![c] = "suspended"],
             move(c, "argument", e), UNCHANGED <<on, sent, m_interrupted, posts>>
      PROVE  Core'
  <2>0. slots[c] = {"argument"} /\ ~m_interrupted[c]
    BY Zenon, <1>1, OneSlot DEF Holds
  <2> USE <1>1, <2>0 DEF Targets, Near, move, Holds, Core, runtime
  <2>1. RuntimeTypeOK'
    BY DEF RuntimeTypeOK, TaskInv, Slots, Threads, ThreadOf
  <2>2. TaskInv'
    <3>1. \A q \in Coros \ {c} :
             /\ pc'[q] = pc[q] /\ on'[q] = on[q] /\ sent'[q] = sent[q] /\ posts'[q] = posts[q]
             /\ slots'[q] = slots[q] /\ m_interrupted' = m_interrupted
      BY Zenon DEF RuntimeTypeOK
    <3>2. e \in Near(sent[c]) \ Inline /\ e \in Executors /\ ~m_interrupted'[c]
      BY Zenon DEF RuntimeTypeOK
    <3>3. pc'[c] = "suspended" /\ slots'[c] = {e} /\ sent'[c] = sent[c]
      BY Zenon DEF RuntimeTypeOK
    <3>4. TaskInv
      BY Zenon
    <3> QED
      BY ONLY NamesDiffer, <3>1, <3>2, <3>3, <3>4 DEF TaskInv
  <2>3. DestructorInv' /\ AllClosed'
    BY DEF RuntimeTypeOK, TaskInv, DestructorInv, AllClosed
  <2>4. ClosedIsQuiet'
    BY DEF RuntimeTypeOK, TaskInv, ClosedIsQuiet, AtWork, ThreadOf
  <2> QED
    BY Zenon, <2>1, <2>2, <2>3, <2>4
<1>2. ASSUME NEW e \in Targets(on[c], sent[c]), pc[c] = "posting", UNCHANGED <<runtime, terminated>>,
             phase[e] = "open", e \in Inline, execute_destroy(c, "argument", on[c])
      PROVE  Core'
  <2>0. slots[c] = {"argument"} /\ ~m_interrupted[c]
    BY Zenon, <1>2, OneSlot DEF Holds
  <2> USE <1>2, <2>0 DEF Targets, Near, execute_destroy, Holds, Core, runtime
  <2>1. RuntimeTypeOK'
    BY Zenon DEF RuntimeTypeOK, TaskInv, Slots, Threads, ThreadOf
  <2>2. TaskInv'
    BY DEF RuntimeTypeOK, TaskInv
  <2>3. DestructorInv' /\ AllClosed'
    BY DEF RuntimeTypeOK, TaskInv, DestructorInv, AllClosed
  <2>4. ClosedIsQuiet'
    BY DEF RuntimeTypeOK, TaskInv, ClosedIsQuiet, AtWork, ThreadOf
  <2> QED
    BY Zenon, <2>1, <2>2, <2>3, <2>4
<1>3. ASSUME NEW e \in Targets(on[c], sent[c]), pc[c] = "posting", UNCHANGED <<runtime, terminated>>,
             phase[e] # "open", clear(c, "argument", on[c])
      PROVE  Core'
  <2>0. slots[c] = {"argument"} /\ ~m_interrupted[c]
    BY Zenon, <1>3, OneSlot DEF Holds
  <2> USE <1>3, <2>0 DEF clear, Holds, Core, runtime
  <2>1. RuntimeTypeOK'
    BY Zenon DEF RuntimeTypeOK, TaskInv, Slots, Threads, ThreadOf
  <2>2. TaskInv'
    BY ZenonT(30) DEF RuntimeTypeOK, TaskInv
  <2>3. DestructorInv' /\ AllClosed'
    BY DEF RuntimeTypeOK, TaskInv, DestructorInv, AllClosed
  <2>4. ClosedIsQuiet'
    BY DEF RuntimeTypeOK, TaskInv, ClosedIsQuiet, AtWork, ThreadOf
  <2> QED
    BY Zenon, <2>1, <2>2, <2>3, <2>4
<1>4. CASE run(c)
  <2>0. slots[c] = {"worker"} /\ ~m_interrupted[c]
    BY Zenon, <1>4, OneSlot DEF run
  <2> USE <1>4, <2>0 DEF run, Holds, execute_destroy, Core, runtime
  <2>1. RuntimeTypeOK'
    BY Zenon DEF RuntimeTypeOK, TaskInv, Slots, Threads, ThreadOf
  <2>2. TaskInv'
    BY ZenonT(30) DEF RuntimeTypeOK, TaskInv
  <2>3. DestructorInv' /\ AllClosed'
    BY DEF RuntimeTypeOK, TaskInv, DestructorInv, AllClosed
  <2>4. ClosedIsQuiet'
    BY DEF RuntimeTypeOK, TaskInv, ClosedIsQuiet, AtWork, ThreadOf
  <2> QED
    BY Zenon, <2>1, <2>2, <2>3, <2>4
<1>5. CASE ends(c)
  <2> USE <1>5 DEF ends, Holds, Core, runtime
  <2>1. RuntimeTypeOK'
    BY Zenon DEF RuntimeTypeOK, TaskInv, Slots, Threads, ThreadOf
  <2>2. TaskInv'
    BY ZenonT(30) DEF RuntimeTypeOK, TaskInv
  <2>3. DestructorInv' /\ AllClosed'
    BY Zenon DEF RuntimeTypeOK, TaskInv, DestructorInv, AllClosed
  <2>4. ClosedIsQuiet'
    BY Zenon DEF RuntimeTypeOK, TaskInv, ClosedIsQuiet, AtWork, ThreadOf
  <2> QED
    BY Zenon, <2>1, <2>2, <2>3, <2>4
<1>6. ASSUME NEW e \in Executors, take(c, e) PROVE Core'
  <2>0. slots[c] = {e} /\ ~m_interrupted[c]
    BY Zenon, <1>6, OneSlot DEF take
  <2> USE <1>6, <2>0 DEF take, Holds, move, Core, runtime
  <2>1. RuntimeTypeOK'
    BY Zenon DEF RuntimeTypeOK, TaskInv, Slots, Threads, ThreadOf
  <2>2. TaskInv'
    <3>1. \A q \in Coros \ {c} :
             /\ pc'[q] = pc[q] /\ on'[q] = on[q] /\ sent'[q] = sent[q] /\ posts'[q] = posts[q]
             /\ slots'[q] = slots[q] /\ m_interrupted' = m_interrupted
      BY Zenon DEF RuntimeTypeOK
    <3>2. e \in Near(sent[c]) /\ ~m_interrupted'[c]
      BY Zenon DEF TaskInv
    <3>3. /\ pc'[c] = "suspended" /\ slots'[c] = {"worker"} /\ on'[c] = ThreadOf(e)
          /\ sent'[c] = sent[c]
      BY Zenon DEF RuntimeTypeOK
    <3>4. TaskInv
      BY Zenon
    <3> QED
      BY ONLY NamesDiffer, <3>1, <3>2, <3>3, <3>4 DEF TaskInv
  <2>3. DestructorInv' /\ AllClosed'
    BY DEF RuntimeTypeOK, TaskInv, DestructorInv, AllClosed
  <2>4. ClosedIsQuiet'
    BY DEF RuntimeTypeOK, TaskInv, ClosedIsQuiet, AtWork, ThreadOf
  <2> QED
    BY Zenon, <2>1, <2>2, <2>3, <2>4
<1>7. CASE discard(c)
  <2>0. slots[c] = {"worker"} /\ ~m_interrupted[c]
    BY Zenon, <1>7, OneSlot DEF discard
  <2>5. /\ Holds(c, "worker") /\ clear(c, "worker", on[c])
        /\ UNCHANGED <<runtime, terminated>>
    BY Zenon, <1>7 DEF discard
  <2> USE <2>0, <2>5 DEF clear, Holds, Core, runtime
  <2>1. RuntimeTypeOK'
    BY Zenon DEF RuntimeTypeOK, TaskInv, Slots, Threads, ThreadOf
  <2>2. TaskInv'
    BY ZenonT(30) DEF RuntimeTypeOK, TaskInv
  <2>3. DestructorInv' /\ AllClosed'
    BY DEF RuntimeTypeOK, TaskInv, DestructorInv, AllClosed
  <2>4. ClosedIsQuiet'
    BY DEF RuntimeTypeOK, TaskInv, ClosedIsQuiet, AtWork, ThreadOf
  <2> QED
    BY Zenon, <2>1, <2>2, <2>3, <2>4
<1> QED
  BY Zenon, <1>1, <1>2, <1>3, <1>4, <1>5, <1>6, <1>7 DEF enqueue_task

\* The timer queue: it is shut down before any executor, so it never posts to
\* one that was shut down.
LEMMA TimersKeepCore ==
    ASSUME Core, NEW c \in Coros,
           timer_fire(c) \/ timer_break(c) \/ \E e \in Executors : delay(c, e)
    PROVE  Core'
<1> USE NamesDiffer, PostsAreNat, KindsOfExecutors
<1>1. CASE timer_fire(c)
  <2>0. slots[c] = {"timer"} /\ ~m_interrupted[c] /\ phase[sent[c]] = "open"
    BY Zenon, <1>1, OneSlot DEF timer_fire, Holds, Core, RuntimeTypeOK, DestructorInv
  <2> USE <1>1, <2>0 DEF timer_fire, execute_destroy, move, Near, Holds, Core, coro, runtime
  <2>1. RuntimeTypeOK'
    <3>1. /\ pc' \in [Coros -> {"new", "posting", "suspended", "running", "ended"}]
          /\ sent' = sent /\ on' \in [Coros -> Threads] /\ posts' = posts
      BY Zenon DEF RuntimeTypeOK, Threads
    <3>2. slots' \in [Coros -> SUBSET Slots]
      BY DEF RuntimeTypeOK, Slots
    <3>3. m_interrupted' = m_interrupted /\ terminated' = terminated
      BY Zenon
    <3> QED
      BY Zenon, <3>1, <3>2, <3>3 DEF RuntimeTypeOK
  <2>2. TaskInv'
    <3>1. \A q \in Coros \ {c} :
             /\ pc'[q] = pc[q] /\ on'[q] = on[q] /\ sent'[q] = sent[q] /\ posts'[q] = posts[q]
             /\ slots'[q] = slots[q] /\ m_interrupted'[q] = m_interrupted[q]
      BY Zenon DEF RuntimeTypeOK
    <3>2. /\ sent'[c] = sent[c] /\ sent[c] \in Executors /\ sent[c] \in Near(sent[c])
          /\ \/ sent[c] \in Inline /\ pc'[c] = "running" /\ slots'[c] = {}
             \/ /\ sent[c] \notin Inline /\ pc'[c] = "suspended" /\ slots'[c] = {sent[c]}
                /\ ~m_interrupted'[c]
      BY DEF RuntimeTypeOK
    <3>3. TaskInv
      BY Zenon
    <3> QED
      BY ONLY NamesDiffer, <3>1, <3>2, <3>3 DEF TaskInv
  <2>3. DestructorInv' /\ AllClosed'
    BY DEF RuntimeTypeOK, TaskInv, DestructorInv, AllClosed
  <2>4. ClosedIsQuiet'
    BY Zenon DEF RuntimeTypeOK, TaskInv, ClosedIsQuiet, AtWork, DestructorInv
  <2> QED
    BY Zenon, <2>1, <2>2, <2>3, <2>4
<1>2. CASE timer_break(c)
  <2>0. slots[c] = {"timer"} /\ ~m_interrupted[c]
    BY Zenon, <1>2, OneSlot DEF timer_break
  <2> USE <1>2, <2>0 DEF timer_break, clear, Holds, Core, runtime
  <2>1. RuntimeTypeOK'
    BY DEF RuntimeTypeOK, TaskInv, Slots, Threads
  <2>2. TaskInv'
    <3>1. \A q \in Coros \ {c} :
             /\ pc'[q] = pc[q] /\ on'[q] = on[q] /\ sent'[q] = sent[q] /\ posts'[q] = posts[q]
             /\ slots'[q] = slots[q] /\ m_interrupted'[q] = m_interrupted[q]
      BY Zenon DEF RuntimeTypeOK
    <3>2. pc'[c] = "running" /\ slots'[c] = {} /\ m_interrupted'[c]
      BY DEF RuntimeTypeOK
    <3>3. TaskInv
      BY Zenon
    <3> QED
      BY ONLY NamesDiffer, <3>1, <3>2, <3>3 DEF TaskInv
  <2>3. DestructorInv' /\ AllClosed'
    BY DEF RuntimeTypeOK, TaskInv, DestructorInv, AllClosed
  <2>4. ClosedIsQuiet'
    BY Zenon DEF RuntimeTypeOK, TaskInv, ClosedIsQuiet, AtWork, DestructorInv
  <2> QED
    BY Zenon, <2>1, <2>2, <2>3, <2>4
<1>3. ASSUME NEW e \in Executors, delay(c, e) PROVE Core'
  <2> USE <1>3 DEF delay, InBody, Posted, Holds, Core, runtime
  <2>1. RuntimeTypeOK'
    <3>1. PICK label \in {"suspended", "running"} :
             /\ pc' = [q \in Coros |-> IF q \in {c} THEN label ELSE pc[q]]
             /\ sent' = [q \in Coros |-> IF q \in {c} THEN e ELSE sent[q]]
             /\ posts' = [q \in Coros |-> IF q \in {c} THEN posts[q] + 1 ELSE posts[q]]
             /\ on' = on
      BY ONLY delay(c, e) DEF delay, Posted
    <3>2. posts[c] < MaxPosts /\ RuntimeTypeOK
      BY Zenon
    <3>3. /\ pc' \in [Coros -> {"new", "posting", "suspended", "running", "ended"}]
          /\ sent' \in [Coros -> Executors] /\ on' \in [Coros -> Threads]
          /\ posts' \in [Coros -> 0 .. MaxPosts]
      BY ONLY <3>1, <3>2, PostsAreNat, c \in Coros, e \in Executors DEF RuntimeTypeOK
    <3>4. slots' \in {slots, [slots EXCEPT ![c] = @ \cup {"timer"}]}
      BY ONLY delay(c, e) DEF delay
    <3>5. slots' \in [Coros -> SUBSET Slots]
      BY ONLY <3>2, <3>4 DEF RuntimeTypeOK, Slots
    <3>6. m_interrupted' \in [Coros -> BOOLEAN]
      BY Zenon DEF RuntimeTypeOK
    <3> QED
      BY Zenon, <3>3, <3>5, <3>6 DEF RuntimeTypeOK
  <2>2. TaskInv'
    <3>1. \A q \in Coros \ {c} :
             /\ pc'[q] = pc[q] /\ on'[q] = on[q] /\ sent'[q] = sent[q] /\ posts'[q] = posts[q]
             /\ slots'[q] = slots[q] /\ m_interrupted'[q] = m_interrupted[q]
      BY DEF RuntimeTypeOK
    <3>2. /\ pc[c] = "running" /\ slots[c] = {} /\ sent'[c] = e /\ on' = on
          /\ posts[c] < MaxPosts /\ posts'[c] = posts[c] + 1
          /\ \/ pc'[c] = "suspended" /\ slots'[c] = {"timer"} /\ ~m_interrupted'[c]
             \/ pc'[c] = "running" /\ slots'[c] = {} /\ m_interrupted'[c]
      BY DEF RuntimeTypeOK, TaskInv
    <3>3. TaskInv
      BY Zenon
    <3> QED
      BY ONLY NamesDiffer, <3>1, <3>2, <3>3 DEF TaskInv
  <2>3. DestructorInv' /\ AllClosed'
    BY DEF RuntimeTypeOK, TaskInv, DestructorInv, AllClosed
  <2>4. ClosedIsQuiet'
    <3>1. \A q \in Coros \ {c} :
             /\ pc'[q] = pc[q] /\ on'[q] = on[q] /\ sent'[q] = sent[q] /\ posts'[q] = posts[q]
             /\ slots'[q] = slots[q] /\ m_interrupted'[q] = m_interrupted[q]
      BY DEF RuntimeTypeOK
    <3>2. /\ pc[c] = "running" /\ slots[c] = {} /\ sent'[c] = e /\ on' = on
          /\ posts[c] < MaxPosts /\ posts'[c] = posts[c] + 1
          /\ \/ pc'[c] = "suspended" /\ slots'[c] = {"timer"} /\ ~m_interrupted'[c]
             \/ pc'[c] = "running" /\ slots'[c] = {} /\ m_interrupted'[c]
      BY DEF RuntimeTypeOK, TaskInv
    <3>3. ClosedIsQuiet /\ UNCHANGED phase
      BY Zenon
    <3> QED
      BY ONLY NamesDiffer, <3>1, <3>2, <3>3 DEF ClosedIsQuiet, AtWork, Holds
  <2> QED
    BY Zenon, <2>1, <2>2, <2>3, <2>4
<1> QED
  BY Zenon, <1>1, <1>2, <1>3

\* make_executor and ~runtime: the timer queue first, then the executors.
LEMMA RuntimeKeepsCore ==
    ASSUME Core,
           \/ destroy \/ timers_joined \/ destroyed
           \/ \E e \in Executors : shutdown_executor(e) \/ shutdown_returns(e)
           \/ \E e \in Made : make_executor(e)
           \/ \E c \in Coros, e \in Executors : shutdown_clear(c, e)
    PROVE  Core'
<1> USE NamesDiffer, PostsAreNat, KindsOfExecutors
<1>1. CASE destroy
  <2> USE <1>1 DEF destroy, Holds, Core, coro
  <2>1. RuntimeTypeOK'
    BY Zenon DEF RuntimeTypeOK, TaskInv, Slots, Threads
  <2>2. TaskInv'
    BY ZenonT(30) DEF RuntimeTypeOK, TaskInv
  <2>3. DestructorInv' /\ AllClosed'
    BY Zenon DEF RuntimeTypeOK, TaskInv, DestructorInv, AllClosed
  <2>4. ClosedIsQuiet'
    BY Zenon DEF RuntimeTypeOK, TaskInv, ClosedIsQuiet, AtWork, DestructorInv
  <2> QED
    BY Zenon, <2>1, <2>2, <2>3, <2>4
<1>2. CASE timers_joined
  <2> USE <1>2 DEF timers_joined, Holds, Core, coro
  <2>1. RuntimeTypeOK'
    BY Zenon DEF RuntimeTypeOK, TaskInv, Slots, Threads
  <2>2. TaskInv'
    BY ZenonT(30) DEF RuntimeTypeOK, TaskInv
  <2>3. DestructorInv' /\ AllClosed'
    <3>1. \A c \in Coros : "timer" \notin slots[c]
      BY DEF TaskInv, RuntimeTypeOK
    <3>2. AllClosed'
      BY Zenon, <3>1 DEF AllClosed
    <3>3. DestructorInv'
      BY Zenon, <3>1 DEF DestructorInv
    <3> QED
      BY Zenon, <3>2, <3>3
  <2>4. ClosedIsQuiet'
    BY Zenon DEF RuntimeTypeOK, TaskInv, ClosedIsQuiet, AtWork, DestructorInv
  <2> QED
    BY Zenon, <2>1, <2>2, <2>3, <2>4
<1>3. CASE destroyed
  <2> USE <1>3 DEF destroyed, Holds, Core, coro
  <2>1. RuntimeTypeOK'
    BY DEF RuntimeTypeOK, TaskInv, Slots, Threads
  <2>2. TaskInv'
    BY ZenonT(30) DEF RuntimeTypeOK, TaskInv
  <2>3. DestructorInv' /\ AllClosed'
    BY DEF RuntimeTypeOK, TaskInv, DestructorInv, AllClosed
  <2>4. ClosedIsQuiet'
    BY Zenon DEF RuntimeTypeOK, TaskInv, ClosedIsQuiet, AtWork, DestructorInv
  <2> QED
    BY Zenon, <2>1, <2>2, <2>3, <2>4
<1>4. ASSUME NEW e \in Executors, shutdown_executor(e) PROVE Core'
  <2> USE <1>4 DEF shutdown_executor, InShutdown, Holds, Core, coro
  <2>1. RuntimeTypeOK'
    BY Zenon DEF RuntimeTypeOK, TaskInv, Slots, Threads
  <2>2. TaskInv'
    BY ZenonT(30) DEF RuntimeTypeOK, TaskInv
  <2>3. DestructorInv' /\ AllClosed'
    BY DEF RuntimeTypeOK, TaskInv, DestructorInv, AllClosed
  <2>4. ClosedIsQuiet'
    BY DEF RuntimeTypeOK, TaskInv, ClosedIsQuiet, AtWork, DestructorInv
  <2> QED
    BY Zenon, <2>1, <2>2, <2>3, <2>4
<1>5. ASSUME NEW e \in Executors, shutdown_returns(e) PROVE Core'
  <2> USE <1>5 DEF shutdown_returns, InShutdown, Holds, Core, coro
  <2>1. RuntimeTypeOK'
    BY DEF RuntimeTypeOK, TaskInv, Slots, Threads
  <2>2. TaskInv'
    BY ZenonT(30) DEF RuntimeTypeOK, TaskInv
  <2>3. DestructorInv' /\ AllClosed'
    BY DEF RuntimeTypeOK, TaskInv, DestructorInv, AllClosed
  <2>4. ClosedIsQuiet'
    BY DEF RuntimeTypeOK, TaskInv, ClosedIsQuiet, AtWork, DestructorInv
  <2> QED
    BY Zenon, <2>1, <2>2, <2>3, <2>4
<1>6. ASSUME NEW e \in Made, make_executor(e) PROVE Core'
  <2> USE <1>6 DEF make_executor, Holds, Core, coro
  <2>1. RuntimeTypeOK'
    <3>1. e \in Executors
      BY Zenon DEF Executors
    <3>2. m_executors' \in Seq(Executors)
      BY <3>1 DEF RuntimeTypeOK
    <3> QED
      BY Zenon, <3>1, <3>2 DEF RuntimeTypeOK
  <2>2. TaskInv'
    BY ZenonT(30) DEF RuntimeTypeOK, TaskInv
  <2>3. DestructorInv' /\ AllClosed'
    <3>1. e \in Executors
      BY Zenon DEF Executors
    <3>2. /\ Len(m_executors') = Len(m_executors) + 1 /\ m_executors'[Len(m_executors) + 1] = e
          /\ \A i \in DOMAIN m_executors : m_executors'[i] = m_executors[i] /\ m_executors[i] \in Executors
          /\ DOMAIN m_executors = 1 .. Len(m_executors)
          /\ DOMAIN m_executors' = 1 .. (Len(m_executors) + 1)
          /\ Len(m_executors) \in Nat
      BY <3>1 DEF RuntimeTypeOK
    <3> QED
      <4>1. DestructorInv'
        <5>1. destructor = "no" /\ destructor' = "no" /\ timers' = timers /\ next' = next /\ next = 1
          BY Zenon DEF DestructorInv
        <5>2. \A x \in Executors \ {e} : phase'[x] = phase[x]
          BY Zenon DEF RuntimeTypeOK
        <5>3. phase[e] = "none" /\ phase'[e] = "open"
          BY Zenon, <3>1 DEF RuntimeTypeOK
        <5>4. \A i \in DOMAIN m_executors' : m_executors'[i] \in Executors /\ phase'[m_executors'[i]] # "none"
          BY <3>1, <3>2, <5>1, <5>2, <5>3 DEF DestructorInv
        <5>5. \A x \in Executors : phase'[x] # "none" => \E i \in DOMAIN m_executors' : m_executors'[i] = x
          BY <3>1, <3>2, <5>1, <5>2, <5>3 DEF DestructorInv
        <5>6. \A x \in Coros : "timer" \in slots'[x] => phase'[sent'[x]] # "none"
          BY Zenon, <5>2, <5>3 DEF DestructorInv, RuntimeTypeOK
        <5>7. timers = "open" /\ \A x \in Executors : phase'[x] \in {"none", "open"}
          BY Zenon, <5>1, <5>2, <5>3 DEF DestructorInv
        <5> QED
          BY <3>2, <5>1, <5>4, <5>5, <5>6, <5>7 DEF DestructorInv
      <4>2. AllClosed'
        BY Zenon DEF AllClosed, DestructorInv
      <4> QED
        BY Zenon, <4>1, <4>2
  <2>4. ClosedIsQuiet'
    BY DEF RuntimeTypeOK, TaskInv, ClosedIsQuiet, AtWork, DestructorInv
  <2> QED
    BY Zenon, <2>1, <2>2, <2>3, <2>4
<1>7. ASSUME NEW c \in Coros, NEW e \in Executors, shutdown_clear(c, e) PROVE Core'
  <2>0. slots[c] = {e} /\ ~m_interrupted[c]
    BY Zenon, <1>7, OneSlot DEF shutdown_clear
  <2> USE <1>7, <2>0 DEF shutdown_clear, clear, Holds, Core, runtime
  <2>1. RuntimeTypeOK'
    BY Zenon DEF RuntimeTypeOK, TaskInv, Slots, Threads
  <2>2. TaskInv'
    <3>1. \A q \in Coros \ {c} :
             /\ pc'[q] = pc[q] /\ on'[q] = on[q] /\ sent'[q] = sent[q] /\ posts'[q] = posts[q]
             /\ slots'[q] = slots[q] /\ m_interrupted'[q] = m_interrupted[q]
      BY Zenon DEF RuntimeTypeOK
    <3>2. pc'[c] = "running" /\ slots'[c] = {} /\ m_interrupted'[c]
      BY Zenon DEF RuntimeTypeOK
    <3>3. TaskInv
      BY Zenon
    <3> QED
      BY ONLY ZenonT(60), NamesDiffer, <3>1, <3>2, <3>3 DEF TaskInv
  <2>3. DestructorInv' /\ AllClosed'
    BY DEF RuntimeTypeOK, TaskInv, DestructorInv, AllClosed
  <2>4. ClosedIsQuiet'
    BY DEF RuntimeTypeOK, TaskInv, ClosedIsQuiet, AtWork, DestructorInv
  <2> QED
    BY Zenon, <2>1, <2>2, <2>3, <2>4
<1> QED
  BY Zenon, <1>1, <1>2, <1>3, <1>4, <1>5, <1>6, <1>7

\* Every step of the runtime, and every stuttering step, keeps the core.
LEMMA CoreNext ==
    ASSUME Core, [RuntimeNext]_runtimeVars
    PROVE  Core'
<1>1. CASE RuntimeNext
  <2>1. CASE Choice
    <3>1. ASSUME NEW c \in Coros, NEW e \in Manual, take(c, e) PROVE Core'
      BY Zenon, <3>1, CorosKeepCore, KindsOfExecutors
    <3>2. ASSUME NEW c \in Coros, NEW e \in Executors, delay(c, e) PROVE Core'
      BY Zenon, <3>2, TimersKeepCore
    <3>3. ASSUME NEW e \in Made, make_executor(e) PROVE Core'
      BY Zenon, <3>3, RuntimeKeepsCore
    <3>4. ASSUME destroy PROVE Core'
      BY Zenon, <3>4, RuntimeKeepsCore
    <3>5. ASSUME NEW S \in SUBSET Coros, NEW e \in Executors, submit(S, e) PROVE Core'
      BY Zenon, <3>5, PostsKeepCore
    <3>6. ASSUME NEW c \in Coros, NEW e \in Executors, resume_on(c, e) PROVE Core'
      BY Zenon, <3>6, PostsKeepCore
    <3> QED
      BY Zenon, <2>1, <3>1, <3>2, <3>3, <3>4, <3>5, <3>6 DEF Choice
  <2>2. CASE TimerStep
    BY Zenon, <2>2, TimersKeepCore DEF TimerStep
  <2>3. CASE DestructorStep
    BY Zenon, <2>3, RuntimeKeepsCore DEF DestructorStep
  <2>4. ASSUME NEW c \in Coros, CoroStep(c) PROVE Core'
    BY Zenon, <2>4, CorosKeepCore DEF CoroStep
  <2> QED
    BY Zenon, <1>1, <2>1, <2>2, <2>3, <2>4 DEF RuntimeNext
<1>2. CASE UNCHANGED runtimeVars
  <2> USE <1>2 DEF runtimeVars, runtime, coro, Core
  <2>1. RuntimeTypeOK'
    BY Zenon DEF RuntimeTypeOK
  <2>2. TaskInv'
    BY Zenon DEF TaskInv
  <2>3. DestructorInv' /\ AllClosed'
    BY Zenon DEF DestructorInv, AllClosed
  <2>4. ClosedIsQuiet'
    BY Zenon DEF ClosedIsQuiet, AtWork, Holds
  <2> QED
    BY Zenon, <2>1, <2>2, <2>3, <2>4
<1> QED
  BY Zenon, <1>1, <1>2

\* A coroutine's place in the core says in how many tasks it is.
LEMMA CoreInOneTask ==
    ASSUME Core
    PROVE  InOneTask
<1> SUFFICES ASSUME NEW c \in Coros
             PROVE  Cardinality(slots[c]) = IF pc[c] \in {"posting", "suspended"} THEN 1 ELSE 0
  BY Zenon DEF InOneTask
<1>1. CASE pc[c] \in {"posting", "suspended"}
  <2>1. PICK s : slots[c] = {s}
    BY Zenon, <1>1 DEF Core, TaskInv
  <2> QED
    BY Zenon, <1>1, <2>1, FS_Singleton
<1>2. CASE pc[c] \notin {"posting", "suspended"}
  <2>1. slots[c] = {}
    BY Zenon, <1>2 DEF Core, TaskInv, RuntimeTypeOK
  <2> QED
    BY Zenon, <1>2, <2>1, FS_EmptySet
<1> QED
  BY Zenon, <1>1, <1>2

\* A coroutine's place in the core says on which threads it goes on: with one pool
\* there is no other that could keep it.
LEMMA CoreRunsWhereSent ==
    ASSUME Core, \A p, q \in Pooled : p = q
    PROVE  RunsWhereSent
<1> SUFFICES ASSUME NEW c \in Coros, pc[c] = "running", ~m_interrupted[c], sent[c] \notin Inline
             PROVE  on[c] = ThreadOf(sent[c])
  BY Zenon DEF RunsWhereSent
<1>1. PICK e \in Near(sent[c]) : on[c] = ThreadOf(e)
  BY Zenon DEF Core, TaskInv
<1>2. e = sent[c]
  BY Zenon, <1>1 DEF Near
<1> QED
  BY Zenon, <1>1, <1>2

\* The core is an invariant of the runtime.
LEMMA CoreHolds == RuntimeSpec => []Core
<1>1. RuntimeInit => Core
  BY Zenon, InitEstablishesCore
<1>2. Core /\ [RuntimeNext]_runtimeVars => Core'
  BY Zenon, CoreNext
<1> QED
  BY <1>1, <1>2, PTL DEF RuntimeSpec

\* However many executors and coroutines there are: every coroutine is in one
\* task or in none, nothing is left in an executor whose shutdown has returned,
\* no timer is posted to an executor that was shut down, and ~runtime returns
\* with everything closed.
THEOREM RuntimeInvariant == RuntimeSpec => []RuntimeInv
<1>1. Core => RuntimeInv
  BY Zenon, CoreInOneTask DEF Core, RuntimeInv
<1> QED
  BY <1>1, CoreHolds, PTL

\* However many executors and coroutines there are, if one of the executors at most
\* is a thread pool, then a coroutine that goes on without broken_task is where it
\* was sent.  (With two pools it need not be: thread_pool_executor::enqueue keeps
\* the task in the pool of the worker that calls it.)
THEOREM CoroutinesRunWhereSent ==
    ASSUME \A p, q \in Pooled : p = q
    PROVE  RuntimeSpec => []RunsWhereSent
<1>1. Core => RunsWhereSent
  BY Zenon, CoreRunsWhereSent
<1> QED
  BY <1>1, CoreHolds, PTL

-----------------------------------------------------------------------------
(* thread_executor: shutdown joins one thread, and by the chain of joins all *)
(* threads have ended and were joined by then.                             *)

\* Threads that are still to retire have their handle in m_workers.
Working == {t \in Tasks : thread[t] \in {"start", "task", "retire"}}

\* Threads that have retired, and that nobody has joined yet.
Unjoined == {t \in Tasks : thread[t] \in {"notify", "join", "ended"}} \ joined

\* The threads nobody has joined, in the order in which they retired: each one
\* has the handle of the one before it, and m_last_retired that of the last one.
Chain(q) ==
    /\ \A t \in Unjoined : \E i \in 1 .. Len(q) : q[i] = t
    /\ \A i \in 1 .. Len(q) : q[i] \in Unjoined
    /\ \A i, j \in 1 .. Len(q) : q[i] = q[j] => i = j
    /\ \A i \in 1 .. Len(q) : last_retired[q[i]] = IF i = 1 THEN {} ELSE {q[i - 1]}
    /\ m_last_retired = IF q = <<>> THEN {} ELSE {q[Len(q)]}

\* The types, without the sizes of the lists, which the chain tells.
Types ==
    /\ m_workers \subseteq Tasks
    /\ thread \in [Tasks -> ThreadLabels]
    /\ last_retired \in [Tasks -> SUBSET Tasks]
    /\ joined \subseteq Tasks
    /\ made \in 0 .. MaxTasks
    /\ shut \in ShutdownLabels

\* Which places of a thread go with which lists.
Places ==
    /\ Working \subseteq m_workers
    /\ \A t \in m_workers : thread[t] \in {"start", "task", "retire", "failed"}
    /\ \A t \in Tasks : thread[t] \notin {"notify", "join"} => last_retired[t] = {}
    /\ \A t \in Tasks : thread[t] = "join" => last_retired[t] # {}
    /\ \A t \in joined : thread[t] = "ended"
    /\ \A t \in Tasks : t > made => thread[t] = "none"

\* What shutdown may rely on.
Shut ==
    /\ m_abort \in BOOLEAN /\ m_atomic_abort \in BOOLEAN
    /\ m_abort => shut # "no"
    /\ shut \in {"join", "done"} => m_abort /\ m_workers = {}
    /\ shut = "done" => Unjoined = {}

\* The inductive invariant.
IInv == Types /\ Places /\ Shut /\ NoLostNotify /\ \E q \in Seq(Tasks) : Chain(q)

-----------------------------------------------------------------------------

\* The sizes of lists of one element at most.
LEMMA SmallSets ==
    ASSUME NEW S
    PROVE  (S = {} => Cardinality(S) = 0) /\ \A x : S = {x} => Cardinality(S) = 1
  BY Zenon, FS_EmptySet, FS_Singleton

\* A thread of the chain that holds no handle is its first one.
LEMMA ChainFacts ==
    ASSUME NEW q \in Seq(Tasks), Chain(q)
    PROVE  /\ Len(q) \in Nat /\ \A i \in 1 .. Len(q) : q[i] \in Tasks
           /\ \A i \in 1 .. Len(q) : last_retired[q[i]] = {} => i = 1
           /\ \A i \in 1 .. Len(q) : last_retired[q[i]] # {} => i # 1 /\ last_retired[q[i]] = {q[i - 1]}
           /\ \A i \in 1 .. Len(q) : i # 1 => i - 1 \in 1 .. Len(q) /\ last_retired[q[i]] = {q[i - 1]}
           /\ q = <<>> => Len(q) = 0 /\ Unjoined = {} /\ m_last_retired = {}
           /\ q # <<>> => Len(q) \in 1 .. Len(q) /\ m_last_retired = {q[Len(q)]}
<1>1. Len(q) \in Nat /\ \A i \in 1 .. Len(q) : q[i] \in Tasks
  OBVIOUS
<1>2. ASSUME NEW i \in 1 .. Len(q)
      PROVE  IF i = 1 THEN last_retired[q[i]] = {} ELSE last_retired[q[i]] = {q[i - 1]}
  BY Zenon, <1>2 DEF Chain
<1>3. q = <<>> => Len(q) = 0 /\ Unjoined = {} /\ m_last_retired = {}
  <2>1. q = <<>> => Len(q) = 0
    OBVIOUS
  <2>2. Len(q) = 0 => Unjoined = {}
    <3> SUFFICES ASSUME Len(q) = 0, NEW t \in Unjoined PROVE FALSE
      BY Zenon
    <3>1. \E i \in 1 .. Len(q) : q[i] = t
      BY Zenon DEF Chain
    <3> QED
      BY <3>1
  <2> QED
    BY Zenon, <2>1, <2>2 DEF Chain
<1>4. q # <<>> => Len(q) \in 1 .. Len(q) /\ m_last_retired = {q[Len(q)]}
  <2>1. q # <<>> => Len(q) \in 1 .. Len(q)
    OBVIOUS
  <2> QED
    BY Zenon, <2>1 DEF Chain
<1>5. \A i \in 1 .. Len(q) : i # 1 => i - 1 \in 1 .. Len(q)
  BY <1>1
<1>6. \A i \in 1 .. Len(q) : i # 1 => last_retired[q[i]] = {q[i - 1]} /\ last_retired[q[i]] # {}
  BY Zenon, <1>2
<1>7. \A i \in 1 .. Len(q) : i = 1 => last_retired[q[i]] = {}
  BY Zenon, <1>2
<1> QED
  BY Zenon, <1>1, <1>3, <1>4, <1>5, <1>6, <1>7

\* Nothing has been started.
LEMMA InitIInv == Init => IInv
<1> SUFFICES ASSUME Init PROVE IInv
  BY Zenon
<1> USE BoundsAreNat DEF Init
<1>1. Types
  BY DEF Types, ThreadLabels, ShutdownLabels
<1>2. Places /\ NoLostNotify
  BY Zenon DEF Places, Working, NoLostNotify
<1>3. Unjoined = {}
  BY Zenon DEF Unjoined
<1>4. Shut
  BY Zenon, <1>3 DEF Shut
<1>5. Chain(<<>>)
  BY <1>3 DEF Chain
<1>6. <<>> \in Seq(Tasks)
  OBVIOUS
<1> QED
  BY Zenon, <1>1, <1>2, <1>4, <1>5, <1>6 DEF IInv

\* Tasks are refused or get a thread, some of a span perhaps not: the threads
\* that are there already are left alone.
LEMMA EnqueueKeepsIInv ==
    ASSUME IInv, NEW n \in 1 .. MaxSpan, enqueue(n)
    PROVE  IInv'
<1> USE BoundsAreNat
<1>0. 0 \in 0 .. n + 1 /\ n + 1 \in 0 .. n + 1 /\ n + 1 # 0 /\ \A k \in 1 .. n : k \in 0 .. n + 1 /\ k # 0
  OBVIOUS
<1>1. PICK k \in 0 .. n + 1 : enqueue_impl(n, k) /\ (m_abort => k = 0)
  <2>1. \/ m_abort /\ enqueue_impl(n, 0)
        \/ ~m_abort /\ enqueue_impl(n, n + 1)
        \/ ~m_abort /\ \E k \in 1 .. n : enqueue_impl(n, k)
    BY Zenon DEF enqueue
  <2> QED
    BY ONLY <1>0, <2>1, Zenon
<1>2. /\ Types /\ Places /\ Shut /\ NoLostNotify /\ made' = made + n /\ made + n <= MaxTasks
      /\ UNCHANGED <<m_last_retired, m_abort, m_atomic_abort, last_retired, joined, shut>>
  BY Zenon DEF IInv, enqueue
<1> DEFINE new == made + 1 .. made + n
           here(i) == IF i < k THEN "start" ELSE IF k = 0 THEN "dropped" ELSE "failed"
<1>3. /\ thread' = [t \in Tasks |-> IF t \in new THEN here(t - made) ELSE thread[t]]
      /\ m_workers' = m_workers \cup {t \in new : t - made <= k}
  BY Zenon, <1>1 DEF enqueue_impl
<1>4. made \in Nat /\ n \in Nat /\ new \subseteq Tasks /\ \A t \in new : thread[t] = "none"
  BY <1>2 DEF Types, Places, Tasks
<1>5. Types'
  <2>1. thread' \in [Tasks -> ThreadLabels]
    <3>1. \A t \in Tasks : (IF t \in new THEN here(t - made) ELSE thread[t]) \in ThreadLabels
      BY Zenon, <1>2 DEF Types, ThreadLabels
    <3> QED
      BY ONLY <1>3, <3>1
  <2>2. m_workers' \subseteq Tasks /\ made' \in 0 .. MaxTasks
    BY <1>2, <1>3, <1>4 DEF Types
  <2> QED
    BY Zenon, <1>2, <2>1, <2>2 DEF Types
<1>6. \A t \in Tasks : t \notin new => thread'[t] = thread[t]
  BY Zenon, <1>3
<1>7. \A t \in new : thread'[t] \in {"start", "dropped", "failed"}
  BY Zenon, <1>3, <1>4
<1>8. \A t \in new : thread'[t] = "start" => t \in m_workers'
  BY <1>3, <1>4
<1>9. \A t \in m_workers' : t \in m_workers \/ (t \in new /\ thread'[t] \in {"start", "failed"})
  BY <1>3, <1>4
<1>10. m_abort => m_workers' = m_workers
  BY <1>1, <1>3, <1>4
<1> HIDE DEF new, here
<1>11. Unjoined' = Unjoined
  BY Zenon, <1>2, <1>4, <1>6, <1>7 DEF Unjoined
<1>12. Places'
  <2>1. Working' \subseteq m_workers'
    BY Zenon, <1>2, <1>3, <1>6, <1>7, <1>8 DEF Places, Working
  <2>2. \A t \in m_workers' : thread'[t] \in {"start", "task", "retire", "failed"}
    BY Zenon, <1>2, <1>4, <1>6, <1>9 DEF Places, Types
  <2>3. \A t \in Tasks : /\ thread'[t] \notin {"notify", "join"} => last_retired'[t] = {}
                         /\ thread'[t] = "join" => last_retired'[t] # {}
    BY Zenon, <1>2, <1>4, <1>6, <1>7 DEF Places
  <2>4. \A t \in joined' : thread'[t] = "ended"
    BY Zenon, <1>2, <1>4, <1>6 DEF Places, Types
  <2>5. \A t \in Tasks : t > made' => thread'[t] = "none"
    BY <1>2, <1>4, <1>6 DEF Places, new, Tasks
  <2> QED
    BY Zenon, <2>1, <2>2, <2>3, <2>4, <2>5 DEF Places
<1>13. Shut'
  BY Zenon, <1>2, <1>10, <1>11 DEF Shut
<1>14. NoLostNotify'
  BY Zenon, <1>2, <1>3, <1>4, <1>6 DEF NoLostNotify
<1>15. \E q \in Seq(Tasks) : Chain(q)'
  <2>1. PICK q \in Seq(Tasks) : Chain(q)
    BY Zenon DEF IInv
  <2>2. Chain(q)'
    BY Zenon, <2>1, <1>2, <1>11 DEF Chain
  <2> QED
    BY Zenon, <2>1, <2>2
<1> QED
  BY Zenon, <1>5, <1>12, <1>13, <1>14, <1>15 DEF IInv

\* A thread runs its task, and comes to retire_worker.
LEMMA RunKeepsIInv ==
    ASSUME IInv, NEW t \in Tasks, run_task(t) \/ task_done(t)
    PROVE  IInv'
<1>1. PICK to \in {"task", "retire"} : thread' = [thread EXCEPT ![t] = to]
  BY Zenon DEF run_task, task_done, Goes
<1>2. /\ Types /\ Places /\ Shut /\ NoLostNotify /\ thread[t] \in {"start", "task"}
      /\ UNCHANGED <<lists, m_abort, m_atomic_abort, last_retired, joined, made, shut>>
  BY Zenon DEF IInv, run_task, task_done, Goes
<1>3. Types'
  BY Zenon, <1>1, <1>2 DEF Types, lists, ThreadLabels
<1>4. Unjoined' = Unjoined
  BY Zenon, <1>1, <1>2 DEF Unjoined, Types
<1>5. Places'
  BY Zenon, <1>1, <1>2 DEF Places, Types, Working, lists, Tasks
<1>6. Shut'
  BY Zenon, <1>2, <1>4 DEF Shut, lists
<1>7. NoLostNotify'
  BY Zenon, <1>1, <1>2 DEF NoLostNotify, Types, lists
<1>8. \E q \in Seq(Tasks) : Chain(q)'
  <2>1. PICK q \in Seq(Tasks) : Chain(q)
    BY Zenon DEF IInv
  <2>2. Chain(q)'
    BY Zenon, <2>1, <1>2, <1>4 DEF Chain, lists
  <2> QED
    BY Zenon, <2>1, <2>2
<1> QED
  BY Zenon, <1>3, <1>5, <1>6, <1>7, <1>8 DEF IInv

\* A thread retires: it becomes the last of the chain.
LEMMA RetireKeepsIInv ==
    ASSUME IInv, NEW t \in Tasks, retire_worker(t)
    PROVE  IInv'
<1>1. /\ Types /\ Places /\ Shut /\ NoLostNotify
      /\ shut # "join" /\ thread[t] = "retire" /\ thread' = [thread EXCEPT ![t] = "notify"]
      /\ last_retired' = [last_retired EXCEPT ![t] = m_last_retired]
      /\ m_last_retired' = {t} /\ m_workers' = m_workers \ {t}
      /\ UNCHANGED <<m_abort, m_atomic_abort, joined, made, shut>>
  BY Zenon DEF IInv, retire_worker, Goes, LockFree
<1>2. PICK q \in Seq(Tasks) : Chain(q)
  BY Zenon DEF IInv
<1>3. t \in m_workers /\ t \notin joined /\ t \notin Unjoined /\ m_last_retired \subseteq Tasks
  BY <1>1, <1>2 DEF Places, Working, Unjoined, Chain
<1>4. Unjoined' = Unjoined \cup {t}
  BY Zenon, <1>1, <1>3 DEF Unjoined, Types
<1>5. Types'
  BY Zenon, <1>1, <1>3 DEF Types, ThreadLabels
<1>6. Places'
  <2>1. Working' = Working \ {t}
    BY Zenon, <1>1 DEF Working, Types
  <2> QED
    BY Zenon, <2>1, <1>1, <1>3 DEF Places, Types, Tasks
<1>7. Shut'
  BY Zenon, <1>1, <1>3 DEF Shut
<1>8. NoLostNotify'
  BY Zenon, <1>1 DEF NoLostNotify, Types
<1>9. Append(q, t) \in Seq(Tasks) /\ Chain(Append(q, t))'
  <2> DEFINE p == Append(q, t)
  <2>1. /\ p \in Seq(Tasks) /\ Len(p) = Len(q) + 1 /\ Len(q) \in Nat /\ p # <<>>
        /\ p[Len(q) + 1] = t /\ \A i \in 1 .. Len(q) : p[i] = q[i] /\ q[i] # t /\ q[i] \in Tasks
    <3>1. q \in Seq(Tasks) /\ t \in Tasks
      BY <1>2, <1>3
    <3>2. \A i \in 1 .. Len(q) : q[i] \in Unjoined
      BY Zenon, <1>2 DEF Chain
    <3>3. \A i \in 1 .. Len(q) : q[i] # t
      BY Zenon, <1>3, <3>2
    <3>4. /\ p \in Seq(Tasks) /\ Len(p) = Len(q) + 1 /\ Len(q) \in Nat /\ p # <<>>
          /\ p[Len(q) + 1] = t /\ \A i \in 1 .. Len(q) : p[i] = q[i] /\ q[i] \in Tasks
      BY <3>1
    <3> QED
      BY Zenon, <3>3, <3>4
  <2> HIDE DEF p
  <2>2. \A u \in Unjoined' : \E i \in 1 .. Len(p) : p[i] = u
    <3> SUFFICES ASSUME NEW u \in Unjoined' PROVE \E i \in 1 .. Len(p) : p[i] = u
      BY Zenon
    <3>1. CASE u = t
      BY <2>1, <3>1
    <3>2. CASE u # t
      <4>1. PICK i \in 1 .. Len(q) : q[i] = u
        BY Zenon, <1>2, <1>4, <3>2 DEF Chain
      <4> QED
        BY <4>1, <2>1
    <3> QED
      BY Zenon, <3>1, <3>2
  <2>3. \A i \in 1 .. Len(p) : p[i] \in Unjoined'
    BY <1>2, <1>4, <2>1 DEF Chain
  <2>4. \A i, j \in 1 .. Len(p) : p[i] = p[j] => i = j
    BY <1>2, <2>1 DEF Chain
  <2>5. \A i \in 1 .. Len(p) : last_retired'[p[i]] = IF i = 1 THEN {} ELSE {p[i - 1]}
    <3> SUFFICES ASSUME NEW i \in 1 .. Len(p)
                 PROVE  last_retired'[p[i]] = IF i = 1 THEN {} ELSE {p[i - 1]}
      BY Zenon
    <3>1. CASE i = Len(q) + 1
      <4>1. last_retired'[p[i]] = m_last_retired
        BY Zenon, <1>1, <2>1, <3>1 DEF Types
      <4>2. q = <<>> <=> i = 1
        BY <1>2, <2>1, <3>1
      <4>3. i # 1 => i - 1 \in 1 .. Len(q) /\ i - 1 = Len(q) /\ m_last_retired = {q[i - 1]}
        BY <1>2, <2>1, <3>1, <4>2, ChainFacts
      <4>4. i = 1 => m_last_retired = {}
        BY Zenon, <1>2, <4>2, ChainFacts
      <4> QED
        BY Zenon, <2>1, <4>1, <4>3, <4>4
    <3>2. CASE i # Len(q) + 1
      <4>1. i \in 1 .. Len(q) /\ (i # 1 => i - 1 \in 1 .. Len(q))
        BY <2>1, <3>2
      <4>2. last_retired'[p[i]] = last_retired[q[i]]
        BY Zenon, <1>1, <2>1, <4>1 DEF Types
      <4> QED
        BY Zenon, <1>2, <2>1, <4>1, <4>2 DEF Chain
    <3> QED
      BY Zenon, <3>1, <3>2
  <2>6. m_last_retired' = IF p = <<>> THEN {} ELSE {p[Len(p)]}
    BY Zenon, <1>1, <2>1
  <2>7. Chain(p)'
    BY Zenon, <2>2, <2>3, <2>4, <2>5, <2>6 DEF Chain
  <2> QED
    BY Zenon, <2>1, <2>7 DEF p
<1> QED
  BY Zenon, <1>5, <1>6, <1>7, <1>8, <1>9 DEF IInv

\* The thread that retired wakes shutdown, and goes on to join or ends.
LEMMA NotifyKeepsIInv ==
    ASSUME IInv, NEW t \in Tasks, retire_notify(t)
    PROVE  IInv'
<1>1. /\ Types /\ Places /\ Shut /\ NoLostNotify /\ thread[t] = "notify"
      /\ thread' = [thread EXCEPT ![t] = IF last_retired[t] = {} THEN "ended" ELSE "join"]
      /\ shut' = IF shut = "sleep" THEN "lock" ELSE shut
      /\ UNCHANGED <<lists, m_abort, m_atomic_abort, last_retired, joined, made>>
  BY Zenon DEF IInv, retire_notify, Goes
<1>2. Types'
  BY Zenon, <1>1 DEF Types, ThreadLabels, ShutdownLabels, lists
<1>3. Unjoined' = Unjoined
  BY Zenon, <1>1 DEF Unjoined, Types
<1>4. Places'
  BY Zenon, <1>1 DEF Places, Types, Working, lists, Tasks
<1>5. Shut'
  BY Zenon, <1>1, <1>3 DEF Shut, lists
<1>6. NoLostNotify'
  BY Zenon, <1>1 DEF NoLostNotify
<1>7. \E q \in Seq(Tasks) : Chain(q)'
  <2>1. PICK q \in Seq(Tasks) : Chain(q)
    BY Zenon DEF IInv
  <2>2. Chain(q)'
    BY Zenon, <2>1, <1>1, <1>3 DEF Chain, lists
  <2> QED
    BY Zenon, <2>1, <2>2
<1> QED
  BY Zenon, <1>2, <1>4, <1>5, <1>6, <1>7 DEF IInv

\* A thread joins the one before it.  That one has ended, so it holds no handle and
\* is the first of the chain, which the join removes.
LEMMA JoinKeepsIInv ==
    ASSUME IInv, NEW t \in Tasks, retire_join(t)
    PROVE  IInv'
<1>1. /\ Types /\ Places /\ Shut /\ NoLostNotify /\ thread[t] = "join"
      /\ \A u \in last_retired[t] : thread[u] = "ended"
      /\ thread' = [thread EXCEPT ![t] = "ended"]
      /\ joined' = joined \cup last_retired[t]
      /\ last_retired' = [last_retired EXCEPT ![t] = {}]
      /\ UNCHANGED <<lists, m_abort, m_atomic_abort, made, shut>>
  BY Zenon DEF IInv, retire_join, Goes, Ended
<1>2. PICK q \in Seq(Tasks) : Chain(q)
  BY Zenon DEF IInv
<1>3. PICK i \in 1 .. Len(q) : q[i] = t
  <2>1. t \in Unjoined
    BY Zenon, <1>1 DEF Unjoined, Places
  <2> QED
    BY Zenon, <1>2, <2>1 DEF Chain
<1>4. Len(q) \in Nat /\ Len(q) >= 2 /\ i = 2 /\ last_retired[t] = {q[1]} /\ thread[q[1]] = "ended"
  <2>0. last_retired[t] # {}
    BY Zenon, <1>1 DEF Places
  <2>1. Len(q) \in Nat /\ i # 1 /\ last_retired[t] = {q[i - 1]}
    BY Zenon, <1>2, <1>3, <2>0, ChainFacts
  <2>2. i # 1 /\ i - 1 \in 1 .. Len(q) /\ last_retired[t] = {q[i - 1]}
    BY <2>1
  <2>3. thread[q[i - 1]] = "ended" /\ q[i - 1] \in Tasks
    BY <1>1, <1>2, <2>2
  <2>4. last_retired[q[i - 1]] = {}
    BY Zenon, <1>1, <2>3 DEF Places
  <2>5. i - 1 = 1
    BY Zenon, <1>2, <2>2, <2>4, ChainFacts
  <2> QED
    BY <2>1, <2>2, <2>3, <2>5
<1>5. q[1] \in Tasks /\ q[1] # t
  BY <1>1, <1>2, <1>4
<1>6. Unjoined' = Unjoined \ {q[1]}
  BY Zenon, <1>1, <1>4, <1>5 DEF Unjoined, Types
<1>7. Types'
  BY Zenon, <1>1, <1>4, <1>5 DEF Types, ThreadLabels, lists
<1>8. Places'
  BY Zenon, <1>1, <1>4, <1>5 DEF Places, Types, Working, lists, Tasks
<1>9. Shut'
  BY Zenon, <1>1, <1>6 DEF Shut, lists
<1>10. NoLostNotify'
  BY Zenon, <1>1 DEF NoLostNotify, Types, lists
<1>11. Tail(q) \in Seq(Tasks) /\ Chain(Tail(q))'
  <2> DEFINE p == Tail(q)
  <2>1. /\ p \in Seq(Tasks) /\ Len(p) = Len(q) - 1 /\ p # <<>> /\ q # <<>>
        /\ \A j \in 1 .. Len(p) : p[j] = q[j + 1] /\ j + 1 \in 1 .. Len(q) /\ q[j + 1] \in Tasks
    <3>1. q # <<>>
      BY <1>2, <1>4, ChainFacts
    <3>2. p \in Seq(Tasks) /\ Len(p) = Len(q) - 1
      BY <1>2, <1>4, <3>1
    <3>3. \A j \in 1 .. Len(p) : p[j] = q[j + 1] /\ j + 1 \in 1 .. Len(q) /\ q[j + 1] \in Tasks
      BY <1>2, <1>4, <3>1, <3>2
    <3>4. p # <<>>
      <4>1. Len(p) # 0
        BY <1>4, <3>2
      <4> HIDE DEF p
      <4> QED
        BY <4>1
    <3> QED
      BY Zenon, <3>1, <3>2, <3>3, <3>4
  <2> HIDE DEF p
  <2>2. \A u \in Unjoined' : \E j \in 1 .. Len(p) : p[j] = u
    <3> SUFFICES ASSUME NEW u \in Unjoined' PROVE \E j \in 1 .. Len(p) : p[j] = u
      BY Zenon
    <3>1. PICK j \in 1 .. Len(q) : q[j] = u
      BY Zenon, <1>2, <1>6 DEF Chain
    <3>2. j # 1 /\ j - 1 \in 1 .. Len(p) /\ (j - 1) + 1 = j
      BY <1>4, <1>6, <2>1, <3>1
    <3> QED
      BY Zenon, <2>1, <3>1, <3>2
  <2>3. \A j \in 1 .. Len(p) : p[j] \in Unjoined'
    <3> SUFFICES ASSUME NEW j \in 1 .. Len(p) PROVE p[j] \in Unjoined'
      BY Zenon
    <3>1. j + 1 # 1 /\ 1 \in 1 .. Len(q)
      BY <1>4
    <3>2. q[j + 1] \in Unjoined /\ q[j + 1] # q[1]
      BY Zenon, <1>2, <2>1, <3>1 DEF Chain
    <3> QED
      BY Zenon, <1>6, <2>1, <3>2
  <2>4. \A j, k \in 1 .. Len(p) : p[j] = p[k] => j = k
    <3> SUFFICES ASSUME NEW j \in 1 .. Len(p), NEW k \in 1 .. Len(p), p[j] = p[k] PROVE j = k
      BY Zenon
    <3>1. \A a, b \in 1 .. Len(q) : q[a] = q[b] => a = b
      BY Zenon, <1>2 DEF Chain
    <3>2. j + 1 \in 1 .. Len(q) /\ k + 1 \in 1 .. Len(q) /\ q[j + 1] = q[k + 1]
      BY Zenon, <2>1
    <3>3. j + 1 = k + 1
      BY ONLY <3>1, <3>2
    <3> QED
      BY <3>3
  <2>5. \A j \in 1 .. Len(p) : last_retired'[p[j]] = IF j = 1 THEN {} ELSE {p[j - 1]}
    <3> SUFFICES ASSUME NEW j \in 1 .. Len(p)
                 PROVE  last_retired'[p[j]] = IF j = 1 THEN {} ELSE {p[j - 1]}
      BY Zenon
    <3>1. CASE j = 1
      BY <1>1, <1>3, <1>4, <2>1, <3>1 DEF Types
    <3>2. CASE j # 1
      <4>1. j + 1 # 2 /\ j - 1 \in 1 .. Len(p) /\ (j - 1) + 1 = j /\ (j + 1) - 1 = j /\ j + 1 # 1
        BY <3>2, <1>4, <2>1
      <4>2. q[j + 1] # t
        BY Zenon, <1>2, <1>3, <1>4, <2>1, <4>1 DEF Chain
      <4>3. last_retired'[p[j]] = last_retired[q[j + 1]]
        BY Zenon, <1>1, <2>1, <4>2 DEF Types
      <4>4. last_retired[q[j + 1]] = {q[j]}
        BY Zenon, <1>2, <2>1, <4>1 DEF Chain
      <4> QED
        BY Zenon, <2>1, <3>2, <4>1, <4>3, <4>4
    <3> QED
      BY Zenon, <3>1, <3>2
  <2>6. m_last_retired' = IF p = <<>> THEN {} ELSE {p[Len(p)]}
    <3>1. Len(p) \in 1 .. Len(p) /\ Len(p) + 1 = Len(q)
      BY <1>4, <2>1
    <3>2. m_last_retired' = {q[Len(q)]}
      BY Zenon, <1>1, <1>2, <2>1 DEF Chain, lists
    <3> QED
      BY Zenon, <2>1, <3>1, <3>2
  <2>7. Chain(p)'
    BY Zenon, <2>2, <2>3, <2>4, <2>5, <2>6 DEF Chain
  <2> QED
    BY Zenon, <2>1, <2>7 DEF p
<1> QED
  BY Zenon, <1>7, <1>8, <1>9, <1>10, <1>11 DEF IInv

\* The steps of shutdown before the last join: a queue of threads that is empty
\* leaves nobody to join but the chain.
LEMMA WaitKeepsIInv ==
    ASSUME IInv, shutdown \/ shutdown_lock \/ shutdown_spurious
    PROVE  IInv'
<1>1. /\ Types /\ Places /\ Shut /\ NoLostNotify
      /\ UNCHANGED <<lists, thread, last_retired, joined, made>>
  BY Zenon DEF IInv, shutdown, shutdown_lock, shutdown_spurious
<1>2. PICK q \in Seq(Tasks) : Chain(q)
  BY Zenon DEF IInv
<1>3. m_last_retired = {} => Unjoined = {}
  BY Zenon, <1>2, ChainFacts
<1>4. Unjoined' = Unjoined
  BY Zenon, <1>1 DEF Unjoined
<1>5. Types'
  BY Zenon, <1>1 DEF Types, ShutdownLabels, lists, shutdown, shutdown_lock, shutdown_spurious
<1>6. Places'
  BY Zenon, <1>1 DEF Places, Working, lists
<1>7. Shut'
  <2>1. m_abort' \in BOOLEAN /\ m_atomic_abort' \in BOOLEAN
    BY Zenon, <1>1 DEF Shut, shutdown, shutdown_lock, shutdown_spurious
  <2>2. shut' # "no"
    BY Zenon DEF shutdown, shutdown_lock, shutdown_spurious
  <2>3. shut' \in {"join", "done"} => m_abort' /\ m_workers' = {}
    BY Zenon, <1>1 DEF lists, shutdown, shutdown_lock, shutdown_spurious
  <2>4. shut' = "done" => Unjoined' = {}
    BY Zenon, <1>3, <1>4 DEF shutdown, shutdown_lock, shutdown_spurious
  <2> QED
    BY Zenon, <2>1, <2>2, <2>3, <2>4 DEF Shut
<1>8. NoLostNotify'
  BY Zenon, <1>1 DEF NoLostNotify, lists, shutdown, shutdown_lock, shutdown_spurious
<1>9. Chain(q)'
  BY Zenon, <1>1, <1>2, <1>4 DEF Chain, lists
<1> QED
  BY Zenon, <1>2, <1>5, <1>6, <1>7, <1>8, <1>9 DEF IInv

\* The last join: the last of the chain has ended, so it is also the first.
LEMMA ShutdownJoinKeepsIInv ==
    ASSUME IInv, shutdown_join
    PROVE  IInv' /\ Unjoined' = {}
<1>1. /\ Types /\ Places /\ Shut /\ shut = "join" /\ shut' = "done"
      /\ \A u \in m_last_retired : thread[u] = "ended"
      /\ joined' = joined \cup m_last_retired /\ m_last_retired' = {}
      /\ UNCHANGED <<m_workers, m_abort, m_atomic_abort, thread, last_retired, made>>
  BY Zenon DEF IInv, shutdown_join, Ended
<1>2. PICK q \in Seq(Tasks) : Chain(q)
  BY Zenon DEF IInv
<1>3. m_last_retired \subseteq Tasks /\ Unjoined = m_last_retired
  <2>1. CASE q = <<>>
    BY <1>2, <2>1 DEF Chain
  <2>2. CASE q # <<>>
    <3>1. Len(q) \in 1 .. Len(q) /\ q[Len(q)] \in Tasks /\ m_last_retired = {q[Len(q)]}
      BY <1>2, <2>2 DEF Chain
    <3>2. last_retired[q[Len(q)]] = {}
      BY Zenon, <1>1, <3>1 DEF Places
    <3>3. Len(q) = 1
      BY Zenon, <1>2, <3>1, <3>2, ChainFacts
    <3> QED
      BY <1>2, <3>1, <3>3 DEF Chain
  <2> QED
    BY Zenon, <2>1, <2>2
<1>4. Unjoined' = {}
  BY Zenon, <1>1, <1>3 DEF Unjoined
<1>5. Types'
  BY Zenon, <1>1, <1>3 DEF Types, ShutdownLabels
<1>6. Places'
  BY Zenon, <1>1, <1>3 DEF Places, Working
<1>7. Shut' /\ NoLostNotify'
  BY Zenon, <1>1, <1>4 DEF Shut, NoLostNotify
<1>8. Chain(<<>>)'
  BY <1>1, <1>4 DEF Chain
<1>9. <<>> \in Seq(Tasks)
  OBVIOUS
<1> QED
  BY Zenon, <1>4, <1>5, <1>6, <1>7, <1>8, <1>9 DEF IInv

\* Every step keeps the inductive invariant.
LEMMA NextKeepsIInv == IInv /\ [Next]_vars => IInv'
<1> SUFFICES ASSUME IInv, [Next]_vars PROVE IInv'
  BY Zenon
<1>1. CASE UNCHANGED vars
  <2>1. Unjoined' = Unjoined /\ Working' = Working
    BY Zenon, <1>1 DEF vars, Unjoined, Working
  <2>2. Types' /\ Places'
    BY Zenon, <1>1, <2>1 DEF vars, lists, IInv, Types, Places
  <2>3. Shut' /\ NoLostNotify'
    BY Zenon, <1>1, <2>1 DEF vars, lists, IInv, Shut, NoLostNotify
  <2>4. PICK q \in Seq(Tasks) : Chain(q)
    BY Zenon DEF IInv
  <2>5. Chain(q)'
    BY Zenon, <1>1, <2>1, <2>4 DEF vars, lists, Chain
  <2> QED
    BY Zenon, <2>2, <2>3, <2>4, <2>5 DEF IInv
<1>2. ASSUME NEW n \in 1 .. MaxSpan, enqueue(n) PROVE IInv'
  BY Zenon, <1>2, EnqueueKeepsIInv
<1>3. ASSUME NEW t \in Tasks, ThreadStep(t) PROVE IInv'
  BY Zenon, <1>3, RunKeepsIInv, RetireKeepsIInv, NotifyKeepsIInv, JoinKeepsIInv DEF ThreadStep
<1>4. CASE shutdown \/ ShutdownStep \/ shutdown_spurious
  BY Zenon, <1>4, WaitKeepsIInv, ShutdownJoinKeepsIInv DEF ShutdownStep
<1> QED
  BY Zenon, <1>1, <1>2, <1>3, <1>4 DEF Next

\* The handles of the chain are each in one place.
LEMMA ChainIsOneHandle == IInv => TypeOK /\ OneHandle
<1> SUFFICES ASSUME IInv PROVE TypeOK /\ OneHandle
  BY Zenon
<1>1. Types /\ Places /\ Shut
  BY Zenon DEF IInv
<1>2. PICK q \in Seq(Tasks) : Chain(q)
  BY Zenon DEF IInv
<1>4. ASSUME NEW u \in Tasks, last_retired[u] # {}
      PROVE  \E i \in 1 .. Len(q) : i # 1 /\ q[i] = u /\ last_retired[u] = {q[i - 1]} /\ i - 1 \in 1 .. Len(q)
  <2>1. u \in Unjoined
    BY Zenon, <1>1, <1>4 DEF Places, Unjoined
  <2>2. PICK i \in 1 .. Len(q) : q[i] = u
    BY Zenon, <1>2, <2>1 DEF Chain
  <2> QED
    BY Zenon, <1>2, <1>4, <2>2, ChainFacts
<1>5. TypeOK
  <2>1. m_last_retired \subseteq Tasks /\ Cardinality(m_last_retired) <= 1
    <3>1. m_last_retired = {} \/ \E x \in Tasks : m_last_retired = {x}
      BY Zenon, <1>2, ChainFacts
    <3> QED
      BY <3>1, SmallSets
  <2>2. \A u \in Tasks : Cardinality(last_retired[u]) <= 1
    <3> SUFFICES ASSUME NEW u \in Tasks PROVE Cardinality(last_retired[u]) <= 1
      BY Zenon
    <3>1. last_retired[u] = {} \/ \E x : last_retired[u] = {x}
      BY Zenon, <1>4
    <3>2. Cardinality(last_retired[u]) = 0 \/ Cardinality(last_retired[u]) = 1
      BY ONLY Zenon, <3>1, SmallSets
    <3> QED
      BY <3>2
  <2> QED
    BY Zenon, <1>1, <2>1, <2>2 DEF TypeOK, Types, Shut
<1>6. OneHandle
  <2> SUFFICES ASSUME NEW t \in Started
               PROVE  Cardinality({u \in Tasks : t \in last_retired[u]})
                         + In(t, m_workers) + In(t, m_last_retired) = 1 - In(t, joined)
    BY Zenon DEF OneHandle
  <2> DEFINE holders == {u \in Tasks : t \in last_retired[u]}
  <2>0. t \in Tasks /\ thread[t] \in {"start", "task", "retire", "notify", "join", "ended"}
    BY Zenon, <1>1 DEF Started, Types, ThreadLabels
  <2>1. CASE t \in Working
    <3>1. t \in m_workers /\ t \notin joined /\ t \notin Unjoined
      BY Zenon, <1>1, <2>1 DEF Places, Working, Unjoined
    <3>2. holders = {} /\ t \notin m_last_retired
      BY <1>2, <1>4, <3>1, ChainFacts DEF Chain
    <3> QED
      <4>1. Cardinality(holders) = 0
        BY Zenon, <3>2, SmallSets
      <4> QED
        BY <3>1, <3>2, <4>1 DEF In
  <2>2. CASE t \in joined
    <3>1. t \notin m_workers /\ t \notin Unjoined
      BY Zenon, <1>1, <2>2 DEF Places, Unjoined
    <3>2. holders = {} /\ t \notin m_last_retired
      BY <1>2, <1>4, <3>1, ChainFacts DEF Chain
    <3> QED
      <4>1. Cardinality(holders) = 0
        BY Zenon, <3>2, SmallSets
      <4> QED
        BY <2>2, <3>1, <3>2, <4>1 DEF In
  <2>3. CASE t \in Unjoined
    <3>1. t \notin m_workers /\ t \notin joined
      BY Zenon, <1>1, <2>3 DEF Places, Unjoined
    <3>2. PICK i \in 1 .. Len(q) : q[i] = t
      BY Zenon, <1>2, <2>3 DEF Chain
    <3>3. Len(q) \in Nat /\ q # <<>> /\ m_last_retired = {q[Len(q)]} /\ Len(q) \in 1 .. Len(q)
      BY <1>2, <3>2, ChainFacts
    <3>4. ASSUME NEW u \in holders PROVE i + 1 \in 1 .. Len(q) /\ u = q[i + 1]
      <4>1. PICK j \in 1 .. Len(q) : j # 1 /\ q[j] = u /\ last_retired[u] = {q[j - 1]} /\ j - 1 \in 1 .. Len(q)
        BY Zenon, <1>4, <3>4
      <4>2. j - 1 = i
        BY Zenon, <1>2, <3>2, <3>4, <4>1 DEF Chain
      <4> QED
        BY <4>1, <4>2
    <3>5. CASE i = Len(q)
      <4>1. holders = {} /\ t \in m_last_retired
        BY <3>2, <3>3, <3>4, <3>5
      <4>2. Cardinality(holders) = 0
        BY Zenon, <4>1, SmallSets
      <4> QED
        BY <3>1, <4>1, <4>2 DEF In
    <3>6. CASE i # Len(q)
      <4>1. i + 1 \in 1 .. Len(q) /\ i + 1 # 1 /\ (i + 1) - 1 = i
        BY <3>3, <3>6
      <4>2. last_retired[q[i + 1]] = {t} /\ q[i + 1] \in Tasks
        <5>1. last_retired[q[i + 1]] = {q[(i + 1) - 1]} /\ q[i + 1] \in Tasks
          BY Zenon, <1>2, <4>1, ChainFacts
        <5> QED
          BY Zenon, <3>2, <4>1, <5>1
      <4>3. holders = {q[i + 1]}
        BY Zenon, <3>4, <4>2
      <4>4. t \notin m_last_retired
        BY Zenon, <1>2, <3>2, <3>3, <3>6 DEF Chain
      <4>5. Cardinality(holders) = 1
        BY Zenon, <4>3, SmallSets
      <4> QED
        BY <3>1, <4>4, <4>5 DEF In
    <3> QED
      BY Zenon, <3>5, <3>6
  <2> QED
    BY Zenon, <2>0, <2>1, <2>2, <2>3 DEF Working, Unjoined
<1> QED
  BY Zenon, <1>5, <1>6

\* When shutdown has returned there is nothing left in m_workers or in the chain.
LEMMA NothingIsLeft == IInv => ShutdownJoinsAll
<1> SUFFICES ASSUME IInv, shut = "done", NEW t \in Started PROVE thread[t] = "ended" /\ t \in joined
  BY Zenon DEF ShutdownJoinsAll, Ended
<1>1. t \notin Working /\ t \notin Unjoined
  BY Zenon DEF IInv, Places, Shut
<1>2. t \in Tasks /\ thread[t] \in ThreadLabels \ {"none", "dropped", "failed"}
  BY Zenon DEF Started, IInv, Types
<1>3. t \in joined
  BY Zenon, <1>1, <1>2 DEF Working, Unjoined, ThreadLabels
<1> QED
  BY Zenon, <1>3 DEF IInv, Places

\* The chain is kept, whatever the threads and shutdown do.
LEMMA ChainIsKept == Spec => []IInv
<1>1. Init => IInv
  BY Zenon, InitIInv
<1>2. IInv /\ [Next]_vars => IInv'
  BY Zenon, NextKeepsIInv
<1> QED
  BY <1>1, <1>2, PTL DEF Spec

\* However many tasks are posted, and whichever threads cannot be started: each
\* thread has one handle until it is joined, which happens once, shutdown is not
\* left asleep, and every thread has ended and was joined when it returns.
THEOREM ThreadHandlesAreKept == Spec => []Inv
<1>1. IInv => Inv
  BY Zenon, ChainIsOneHandle, NothingIsLeft DEF IInv, Inv
<1> QED
  BY <1>1, ChainIsKept, PTL

-----------------------------------------------------------------------------

\* A step of the tasks, as the abstract executor sees it.
LEMMA TasksMoveAsAllowed ==
    ASSUME thread' \in [Tasks -> ThreadLabels],
           \A t \in Tasks : TaskState'[t] # TaskState[t]
                               => <<TaskState[t], TaskState'[t]>> \in E!Allowed(Phase)
    PROVE  E!TasksMove
  BY Zenon DEF E!TasksMove, E!States, TaskState

\* enqueue accepts tasks until shutdown has set m_abort, and refuses them afterwards.
LEMMA EnqueueIsWork ==
    ASSUME IInv, NEW n \in 1 .. MaxSpan, enqueue(n), IInv'
    PROVE  E!Work
<1>1. Phase' = Phase
  BY Zenon DEF enqueue, Phase
<1>2. thread' \in [Tasks -> ThreadLabels]
  BY Zenon DEF IInv, Types
<1> SUFFICES ASSUME NEW t \in Tasks, TaskState'[t] # TaskState[t]
             PROVE  <<TaskState[t], TaskState'[t]>> \in E!Allowed(Phase)
  BY Zenon, <1>1, <1>2, TasksMoveAsAllowed DEF E!Work
<1>3. PICK k \in 0 .. n + 1 : enqueue_impl(n, k) /\ (k = 0 => m_abort) /\ (k # 0 => ~m_abort)
  <2>1. 0 \in 0 .. n + 1 /\ n + 1 \in 0 .. n + 1 /\ n + 1 # 0 /\ \A k \in 1 .. n : k \in 0 .. n + 1 /\ k # 0
    BY BoundsAreNat
  <2> QED
    BY <2>1, Zenon DEF enqueue
<1>4. thread[t] # thread'[t]
  BY Zenon DEF TaskState
<1>5. t \in made + 1 .. made + n
  BY Zenon, <1>3, <1>4 DEF enqueue_impl
<1>6. thread[t] = "none"
  BY <1>5, BoundsAreNat DEF IInv, Types, Places
<1>7. thread'[t] = IF t - made < k THEN "start" ELSE IF k = 0 THEN "dropped" ELSE "failed"
  BY Zenon, <1>3, <1>5 DEF enqueue_impl
<1>8. CASE k = 0
  <2>1. thread'[t] = "dropped"
    BY <1>5, <1>7, <1>8, BoundsAreNat DEF IInv, Types
  <2>2. shut # "no"
    BY Zenon, <1>3, <1>8 DEF IInv, Shut
  <2>3. TaskState[t] = "none" /\ TaskState'[t] = "dropped" /\ Phase \in {"closing", "closed"}
    BY Zenon, <1>6, <2>1, <2>2 DEF TaskState, Phase
  <2> QED
    BY Zenon, <2>3 DEF E!Allowed, E!Refusal
<1>9. CASE k # 0
  <2>1. TaskState[t] = "none" /\ TaskState'[t] = "pending"
    BY Zenon, <1>6, <1>7, <1>9 DEF TaskState
  <2>2. shut # "done"
    BY Zenon, <1>3, <1>9 DEF IInv, Shut
  <2>3. Phase \in {"open", "closing"}
    BY Zenon, <2>2 DEF Phase
  <2> QED
    BY Zenon, <2>1, <2>3 DEF E!Allowed, E!Life
<1> QED
  BY Zenon, <1>8, <1>9

\* A thread runs its task while its handle is in m_workers, and shutdown waits.
LEMMA ThreadStepIsWork ==
    ASSUME IInv, NEW u \in Tasks, ThreadStep(u), IInv'
    PROVE  E!Work
<1>1. Phase' = Phase
  BY Zenon DEF ThreadStep, run_task, task_done, retire_worker, retire_notify, retire_join, Phase
<1>2. thread' \in [Tasks -> ThreadLabels] /\ thread \in [Tasks -> ThreadLabels]
  BY Zenon DEF IInv, Types
<1> SUFFICES ASSUME NEW t \in Tasks, TaskState'[t] # TaskState[t]
             PROVE  <<TaskState[t], TaskState'[t]>> \in E!Allowed(Phase)
  BY Zenon, <1>1, <1>2, TasksMoveAsAllowed DEF E!Work
<1>3. /\ t = u
      /\ \/ thread[t] = "start" /\ thread'[t] = "task"
         \/ thread[t] = "task" /\ thread'[t] = "retire"
  BY <1>2 DEF ThreadStep, run_task, task_done, retire_worker, retire_notify, retire_join, Goes, TaskState
<1>4. shut # "done"
  BY Zenon, <1>3 DEF IInv, Places, Shut, Working
<1>5. Phase \in {"open", "closing"}
  BY Zenon, <1>4 DEF Phase
<1>6. <<TaskState[t], TaskState'[t]>> \in E!Life
  BY Zenon, <1>3 DEF TaskState, E!Life
<1> QED
  BY Zenon, <1>5, <1>6 DEF E!Allowed

\* shutdown returns when no thread has a task to run.
LEMMA ShutdownStepSimulates ==
    ASSUME IInv, shutdown \/ ShutdownStep \/ shutdown_spurious, IInv'
    PROVE  [E!Next]_E!vars
<1>1. thread' = thread /\ thread' \in [Tasks -> ThreadLabels]
  BY Zenon DEF shutdown, ShutdownStep, shutdown_lock, shutdown_join, shutdown_spurious, IInv, Types
<1>2. TaskState' = TaskState
  BY Zenon, <1>1 DEF TaskState
<1>3. CASE Phase' = Phase
  BY Zenon, <1>2, <1>3 DEF E!vars
<1>4. CASE shutdown
  BY Zenon, <1>2, <1>4 DEF shutdown, Phase, E!Next, E!ShutdownCalled
<1>5. CASE Phase' # Phase /\ ~shutdown
  <2>1. shut' = "done" /\ shut \notin {"no", "done"}
    BY Zenon, <1>5 DEF ShutdownStep, shutdown_lock, shutdown_join, shutdown_spurious, Phase
  <2>2. \A t \in Tasks : thread'[t] \notin {"start", "task"}
    BY Zenon, <2>1 DEF IInv, Places, Shut, Working
  <2>3. \A t \in Tasks : TaskState'[t] \notin {"pending", "running"}
    BY Zenon, <2>2 DEF TaskState
  <2>4. E!TasksMove
    BY Zenon, <1>1, <1>2, TasksMoveAsAllowed
  <2> QED
    BY Zenon, <2>1, <2>3, <2>4 DEF Phase, E!Next, E!ShutdownReturns
<1> QED
  BY Zenon, <1>3, <1>4, <1>5

\* However many tasks are posted, the thread executor is an executor: every step
\* of its threads and of shutdown is a step of Executor, or one that it does not see.
THEOREM ThreadsImplementExecutor == Spec => ImplementsExecutor
<1>1. Init => E!Init
  BY Zenon DEF Init, E!Init, TaskState, Phase
<1>2. ASSUME IInv, IInv', [Next]_vars PROVE [E!Next]_E!vars
  <2>1. CASE UNCHANGED vars
    BY Zenon, <2>1 DEF vars, E!vars, TaskState, Phase
  <2>2. ASSUME NEW n \in 1 .. MaxSpan, enqueue(n) PROVE E!Next
    BY Zenon, <1>2, <2>2, EnqueueIsWork DEF E!Next
  <2>3. ASSUME NEW t \in Tasks, ThreadStep(t) PROVE E!Next
    BY Zenon, <1>2, <2>3, ThreadStepIsWork DEF E!Next
  <2>4. CASE shutdown \/ ShutdownStep \/ shutdown_spurious
    BY Zenon, <1>2, <2>4, ShutdownStepSimulates
  <2> QED
    BY Zenon, <1>2, <2>1, <2>2, <2>3, <2>4 DEF Next
<1> QED
  BY <1>1, <1>2, ChainIsKept, PTL DEF Spec, ImplementsExecutor, E!Spec

-----------------------------------------------------------------------------
(* idle_worker_set: the count of idle workers is right, for every size of the *)
(* pool, every set of threads outside of it and any number of calls.       *)

\* The labels of the calls.
Labels == {"out", "add", "subtract", "scan", "exchange", "acquired"}

\* The pool has a finite number of workers.
LEMMA FiniteThreads == IsFiniteSet(Workers) /\ IsFiniteSet(Callers)
<1>1. IsFiniteSet(Workers)
  BY SizeIsPositive, FS_Interval DEF Workers
<1> QED
  BY Zenon, <1>1, ClientsAreNoWorkers, FS_Union DEF Callers

\* std::min of the count and of what was asked for.
LEMMA MinOfTwo ==
    ASSUME NEW a \in Int, NEW b \in Int
    PROVE  Min({a, b}) = IF a <= b THEN a ELSE b
<1> DEFINE m == IF a <= b THEN a ELSE b
<1>1. m \in {a, b} /\ \A y \in {a, b} : m <= y
  OBVIOUS
<1>2. \A x \in {a, b} : (\A y \in {a, b} : x <= y) => x = m
  OBVIOUS
<1> QED
  BY Zenon, <1>1, <1>2 DEF Min

\* The threads at some labels are finitely many.
LEMMA AtIsFinite ==
    ASSUME NEW labels
    PROVE  IsFiniteSet(At(labels)) /\ Cardinality(At(labels)) \in Nat
<1>1. At(labels) \subseteq Callers
  BY Zenon DEF At
<1> QED
  BY Zenon, <1>1, FiniteThreads, FS_Subset, FS_CardinalityType

\* A thread that goes from one label to another changes the number of those at
\* each set of labels by one, or not at all.
LEMMA GoesCounts ==
    ASSUME at \in [Callers -> Labels], NEW t \in Callers, NEW to \in Labels, CallGoes(t, to), NEW labels
    PROVE  Cardinality(At(labels)') =
              IF at[t] \in labels
              THEN IF to \in labels THEN Cardinality(At(labels)) ELSE Cardinality(At(labels)) - 1
              ELSE IF to \in labels THEN Cardinality(At(labels)) + 1 ELSE Cardinality(At(labels))
<1> USE DEF At, CallGoes
<1>1. IsFiniteSet(At(labels)) /\ Cardinality(At(labels)) \in Nat
  BY Zenon, AtIsFinite
<1>2. CASE at[t] \in labels /\ to \notin labels
  <2>1. At(labels)' = At(labels) \ {t} /\ t \in At(labels)
    BY Zenon, <1>2
  <2> HIDE DEF At
  <2>2. Cardinality(At(labels) \ {t}) = Cardinality(At(labels)) - 1
    BY ONLY <1>1, <2>1, FS_RemoveElement
  <2> QED
    BY Zenon, <2>1, <2>2, <1>2
<1>3. CASE at[t] \notin labels /\ to \in labels
  <2>1. At(labels)' = At(labels) \cup {t} /\ t \notin At(labels)
    BY Zenon, <1>3
  <2> QED
    BY Zenon, <2>1, <1>1, <1>3, FS_AddElement
<1>4. CASE at[t] \in labels <=> to \in labels
  <2>1. At(labels)' = At(labels)
    BY Zenon, <1>4
  <2> QED
    BY Zenon, <2>1, <1>4
<1> QED
  BY Zenon, <1>2, <1>3, <1>4

\* The worker that a scan looks at next.
LEMMA IndexIsWorker ==
    ASSUME IdleTypeOK, NEW t \in Callers
    PROVE  Index(t) \in Workers
<1>1. scan[t].start \in Nat /\ scan[t].i \in Nat
  BY SizeIsPositive DEF IdleTypeOK, Workers
<1> QED
  BY <1>1, SizeIsPositive DEF Index, Workers

\* Setting or clearing a flag changes the number of flags by one, or not at all.
LEMMA FlagsCount ==
    ASSUME IdleTypeOK, NEW w \in Workers
    PROVE  /\ Cardinality(m_idle_flags) \in Nat
           /\ Cardinality(m_idle_flags \cup {w}) =
                 IF w \in m_idle_flags THEN Cardinality(m_idle_flags) ELSE Cardinality(m_idle_flags) + 1
           /\ Cardinality(m_idle_flags \ {w}) =
                 IF w \in m_idle_flags THEN Cardinality(m_idle_flags) - 1 ELSE Cardinality(m_idle_flags)
<1>1. IsFiniteSet(m_idle_flags) /\ Cardinality(m_idle_flags) \in Nat
  BY Zenon, FiniteThreads, FS_Subset, FS_CardinalityType DEF IdleTypeOK
<1> QED
  BY Zenon, <1>1, FS_AddElement, FS_RemoveElement

-----------------------------------------------------------------------------

\* The constructor counts its workers.
LEMMA InitInv == IdleInit => IdleInv
<1> SUFFICES ASSUME IdleInit PROVE IdleInv
  BY Zenon
<1> USE SizeIsPositive DEF IdleInit
<1>1. IdleTypeOK
  BY DEF IdleTypeOK, Workers, NoScan, NoIndex
<1>2. ApproxSizeIsExact
  <2>1. Cardinality(Workers) = Size
    BY FS_Interval DEF Workers
  <2>2. At({"add"}) = {} /\ At({"subtract", "acquired"}) = {}
    BY Zenon DEF At
  <2>3. Cardinality(At({"add"})) = 0 /\ Cardinality(At({"subtract", "acquired"})) = 0
    BY ONLY <2>2, FS_EmptySet
  <2>4. m_approx_size = Size /\ Cardinality(m_idle_flags) = Size
    BY Zenon, <2>1
  <2> QED
    BY ONLY <2>3, <2>4, SizeIsPositive DEF ApproxSizeIsExact
<1>3. ScansAreBounded
  <2>1. Cardinality({}) = 0
    BY ONLY FS_EmptySet
  <2>2. \A t \in Callers : scan[t] = NoScan /\ at[t] = "out" /\ asked[t] = 0
    BY Zenon
  <2>3. NoScan.found = {} /\ NoScan.max = 0
    BY Zenon DEF NoScan
  <2> QED
    BY ONLY <2>1, <2>2, <2>3 DEF ScansAreBounded
<1> QED
  BY Zenon, <1>1, <1>2, <1>3 DEF IdleInv

\* A worker's own flag: the count follows the flag, one access later.
LEMMA WorkerKeepsInv ==
    ASSUME IdleInv, NEW w \in Workers, set_idle(w) \/ add_one(w) \/ set_active(w) \/ subtract_one(w)
    PROVE  IdleInv'
<1> USE SizeIsPositive
<1>0. IdleTypeOK /\ at \in [Callers -> Labels] /\ w \in Callers /\ m_approx_size \in Int
  BY Zenon DEF IdleInv, IdleTypeOK, Labels, Callers
<1>a. Cardinality(At({"add"})) \in Nat /\ Cardinality(At({"subtract", "acquired"})) \in Nat
  BY Zenon, AtIsFinite
<1>1. PICK to \in Labels \ {"exchange", "acquired", "scan"} :
         CallGoes(w, to) /\ UNCHANGED <<scan, asked>> /\ at[w] \in {"out", "add", "subtract"}
  BY Zenon DEF set_idle, add_one, set_active, subtract_one, Labels, Calls
<1>2. IdleTypeOK'
  <2>1. at' \in [Callers -> Labels]
    BY Zenon, <1>0, <1>1 DEF CallGoes
  <2>2. m_idle_flags' \subseteq Workers /\ available' \in [Callers -> SUBSET Workers]
    BY Zenon, <1>0 DEF IdleTypeOK, set_idle, add_one, set_active, subtract_one, Clear
  <2>3. m_approx_size' \in Int
    BY <1>0 DEF set_idle, add_one, set_active, subtract_one
  <2> QED
    BY Zenon, <2>1, <2>2, <2>3, <1>0, <1>1 DEF IdleTypeOK, Labels
<1>3. ApproxSizeIsExact'
  <2> DEFINE adds == Cardinality(At({"add"}))
             subtracts == Cardinality(At({"subtract", "acquired"}))
             flags == Cardinality(m_idle_flags)
  <2>1. flags \in Nat /\ adds \in Nat /\ subtracts \in Nat /\ m_approx_size = flags - adds + subtracts
    BY Zenon, <1>0, <1>a, FlagsCount DEF IdleInv, ApproxSizeIsExact
  <2>2. CASE set_idle(w)
    <3>1. at[w] = "out" /\ m_approx_size' = m_approx_size
      BY Zenon, <2>2 DEF set_idle, Calls
    <3>2. CASE w \in m_idle_flags
      <4>1. adds' = adds /\ subtracts' = subtracts
        BY Zenon, <1>0, <2>2, <3>1, <3>2, GoesCounts DEF set_idle, Labels
      <4>2. flags' = flags
        BY Zenon, <1>0, <2>2, <3>2, FlagsCount DEF set_idle
      <4> QED
        BY Zenon, <2>1, <3>1, <4>1, <4>2 DEF ApproxSizeIsExact
    <3>3. CASE w \notin m_idle_flags
      <4>1. adds' = adds + 1 /\ subtracts' = subtracts
        BY Zenon, <1>0, <2>2, <3>1, <3>3, GoesCounts DEF set_idle, Labels
      <4>2. flags' = flags + 1
        BY Zenon, <1>0, <2>2, <3>3, FlagsCount DEF set_idle
      <4> QED
        BY <2>1, <3>1, <4>1, <4>2 DEF ApproxSizeIsExact
    <3> QED
      BY Zenon, <3>2, <3>3
  <2>3. CASE set_active(w)
    <3>1. at[w] = "out" /\ m_approx_size' = m_approx_size
      BY Zenon, <2>3 DEF set_active, Calls
    <3>2. CASE w \notin m_idle_flags
      <4>1. adds' = adds /\ subtracts' = subtracts
        BY Zenon, <1>0, <2>3, <3>1, <3>2, GoesCounts DEF set_active, Labels
      <4>2. flags' = flags
        BY Zenon, <1>0, <2>3, <3>2, FlagsCount DEF set_active, Clear
      <4> QED
        BY Zenon, <2>1, <3>1, <4>1, <4>2 DEF ApproxSizeIsExact
    <3>3. CASE w \in m_idle_flags
      <4>1. adds' = adds /\ subtracts' = subtracts + 1
        BY Zenon, <1>0, <2>3, <3>1, <3>3, GoesCounts DEF set_active, Labels
      <4>2. flags' = flags - 1
        BY Zenon, <1>0, <2>3, <3>3, FlagsCount DEF set_active, Clear
      <4> QED
        BY <2>1, <3>1, <4>1, <4>2 DEF ApproxSizeIsExact
    <3> QED
      BY Zenon, <3>2, <3>3
  <2>4. CASE add_one(w)
    <3>1. adds' = adds - 1 /\ subtracts' = subtracts
      BY Zenon, <1>0, <2>4, GoesCounts DEF add_one, Labels
    <3> QED
      BY <2>1, <2>4, <3>1 DEF ApproxSizeIsExact, add_one
  <2>5. CASE subtract_one(w)
    <3>1. adds' = adds /\ subtracts' = subtracts - 1
      BY Zenon, <1>0, <2>5, GoesCounts DEF subtract_one, Labels
    <3> QED
      BY <2>1, <2>5, <3>1 DEF ApproxSizeIsExact, subtract_one
  <2> QED
    BY Zenon, <2>2, <2>3, <2>4, <2>5
<1>4. ScansAreBounded'
  BY Zenon, <1>0, <1>1 DEF IdleInv, ScansAreBounded, ScanEnds, Index, CallGoes
<1> QED
  BY Zenon, <1>2, <1>3, <1>4 DEF IdleInv

\* The variables of a scan.
Scans == [caller : Workers \cup {NoIndex}, start : Workers, i : 0 .. Size,
          max : 0 .. Size, found : SUBSET Workers]

\* A step of a scan: what has to hold of its variables afterwards.
LEMMA ScanStepKeeps ==
    ASSUME IdleInv, NEW t \in Callers, NEW to \in Labels, NEW s \in Scans, NEW a \in 0 .. Size,
           CallGoes(t, to), scan' = [scan EXCEPT ![t] = s], asked' = [asked EXCEPT ![t] = a],
           m_idle_flags' \subseteq Workers, m_approx_size' \in Int,
           available' \in [Callers -> SUBSET Workers],
           Cardinality(s.found) <= s.max, s.max <= a, s.caller \notin s.found,
           to \in {"exchange", "acquired"} =>
              /\ s.i # Size /\ Cardinality(s.found) # s.max
              /\ (s.start + s.i) % Size # s.caller
    PROVE  IdleTypeOK' /\ ScansAreBounded'
<1>0. at \in [Callers -> Labels] /\ scan \in [Callers -> Scans] /\ asked \in [Callers -> 0 .. Size]
  BY Zenon DEF IdleInv, IdleTypeOK, Labels, Scans
<1>1. IdleTypeOK'
  <2>1. at' \in [Callers -> Labels] /\ scan' \in [Callers -> Scans] /\ asked' \in [Callers -> 0 .. Size]
    BY Zenon, <1>0 DEF CallGoes
  <2> QED
    BY Zenon, <2>1 DEF IdleTypeOK, Labels, Scans
<1>2. ScansAreBounded'
  <2> SUFFICES ASSUME NEW u \in Callers
               PROVE  /\ Cardinality(scan'[u].found) <= scan'[u].max /\ scan'[u].max <= asked'[u]
                      /\ scan'[u].caller \notin scan'[u].found
                      /\ at'[u] \in {"exchange", "acquired"} =>
                            ~ScanEnds(u)' /\ Index(u)' # scan'[u].caller
    BY Zenon DEF ScansAreBounded
  <2>1. CASE u = t
    <3>1. scan'[u] = s /\ asked'[u] = a /\ at'[u] = to
      BY Zenon, <2>1, <1>0 DEF CallGoes
    <3> QED
      BY Zenon, <3>1 DEF ScanEnds, Index
  <2>2. CASE u # t
    <3>1. scan'[u] = scan[u] /\ asked'[u] = asked[u] /\ at'[u] = at[u]
      BY Zenon, <2>2, <1>0 DEF CallGoes
    <3> QED
      BY Zenon, <3>1 DEF IdleInv, ScansAreBounded, ScanEnds, Index
  <2> QED
    BY Zenon, <2>1, <2>2
<1> QED
  BY Zenon, <1>1, <1>2

\* The call of a scan: its budget is no larger than what was asked for.
LEMMA StartKeepsInv ==
    ASSUME IdleInv, NEW t \in Callers, NEW caller \in Workers \cup {NoIndex}, NEW start \in Workers,
           NEW max_count \in 1 .. Size, StartScan(t, caller, start, max_count)
    PROVE  IdleInv'
<1> USE SizeIsPositive
<1>0. IdleTypeOK /\ at \in [Callers -> Labels] /\ at[t] = "out" /\ CallGoes(t, "scan")
  BY Zenon DEF IdleInv, IdleTypeOK, Labels, StartScan, Calls
<1> DEFINE max == MaxWaiters(max_count)
           new == [caller |-> caller, start |-> start, i |-> 0, max |-> max, found |-> {}]
<1>1. max \in 0 .. Size /\ max <= max_count
  <2>1. m_approx_size \in Int /\ max_count \in Int
    BY <1>0 DEF IdleTypeOK
  <2> QED
    BY <2>1, MinOfTwo DEF MaxWaiters
<1>2. scan' = [scan EXCEPT ![t] = new] /\ asked' = [asked EXCEPT ![t] = max_count]
  BY Zenon DEF StartScan
<1> HIDE DEF max
<1>3. IdleTypeOK' /\ ScansAreBounded'
  <2>1. new \in Scans /\ max_count \in 0 .. Size
    BY <1>1 DEF Scans
  <2>2. Cardinality(new.found) <= new.max /\ new.max <= max_count /\ new.caller \notin new.found
    BY <1>1, FS_EmptySet
  <2>3. m_idle_flags' \subseteq Workers /\ m_approx_size' \in Int /\ available' \in [Callers -> SUBSET Workers]
    BY Zenon, <1>0 DEF IdleTypeOK, StartScan
  <2> HIDE DEF new
  <2> QED
    BY Zenon, <1>0, <1>2, <2>1, <2>2, <2>3, ScanStepKeeps DEF Labels
<1>4. ApproxSizeIsExact'
  <2>1. /\ Cardinality(At({"add"})') = Cardinality(At({"add"}))
        /\ Cardinality(At({"subtract", "acquired"})') = Cardinality(At({"subtract", "acquired"}))
    BY Zenon, <1>0, GoesCounts DEF Labels
  <2> QED
    BY Zenon, <2>1 DEF IdleInv, ApproxSizeIsExact, StartScan
<1> QED
  BY Zenon, <1>3, <1>4 DEF IdleInv

\* A step of a scan that is neither its call nor its return: the flag is loaded,
\* exchanged, and then counted.
LEMMA FlagKeepsInv ==
    ASSUME IdleInv, NEW t \in Callers, load_flag(t) \/ exchange_flag(t) \/ acquire_flag(t)
    PROVE  IdleInv'
<1> USE SizeIsPositive
<1>0. /\ IdleTypeOK /\ at \in [Callers -> Labels] /\ scan[t] \in Scans /\ asked[t] \in 0 .. Size
      /\ m_approx_size \in Int /\ Index(t) \in Workers
  BY Zenon, IndexIsWorker DEF IdleInv, IdleTypeOK, Labels, Scans
<1>a. /\ Cardinality(At({"add"})) \in Nat /\ Cardinality(At({"subtract", "acquired"})) \in Nat
      /\ Cardinality(m_idle_flags) \in Nat
  BY Zenon, <1>0, AtIsFinite, FlagsCount
<1>b. /\ ~ScanEnds(t) /\ at[t] \in {"scan", "exchange", "acquired"} /\ UNCHANGED asked
      /\ Cardinality(scan[t].found) <= scan[t].max /\ scan[t].max <= asked[t]
      /\ scan[t].caller \notin scan[t].found
      /\ at[t] # "scan" => Index(t) # scan[t].caller
  BY Zenon DEF IdleInv, ScansAreBounded, load_flag, exchange_flag, acquire_flag
<1>c. /\ scan[t].i # Size /\ Cardinality(scan[t].found) # scan[t].max
      /\ scan' = [scan EXCEPT ![t] = scan[t]] <=> scan' = scan
      /\ asked' = [asked EXCEPT ![t] = asked[t]]
      /\ at = [at EXCEPT ![t] = at[t]]
  BY Zenon, <1>0, <1>b DEF ScanEnds, IdleTypeOK
<1>d. IsFiniteSet(scan[t].found) /\ Cardinality(scan[t].found) \in Nat
  BY Zenon, <1>0, FiniteThreads, FS_Subset, FS_CardinalityType DEF Scans
<1>e. /\ m_idle_flags' \subseteq Workers /\ m_approx_size' \in Int
      /\ available' \in [Callers -> SUBSET Workers]
  BY <1>0 DEF IdleTypeOK, load_flag, exchange_flag, acquire_flag, Clear
<1> DEFINE advanced == Advance(t)
<1>n. advanced \in Scans /\ advanced.found = scan[t].found /\ advanced.max = scan[t].max /\ advanced.caller = scan[t].caller
  BY <1>0, <1>c DEF Scans, Advance
<1>1. CASE load_flag(t)
  <2>1. ApproxSizeIsExact'
    <3>1. PICK to \in {"scan", "exchange"} : CallGoes(t, to)
      BY Zenon, <1>1, <1>c DEF load_flag, CallGoes
    <3>2. /\ Cardinality(At({"add"})') = Cardinality(At({"add"}))
          /\ Cardinality(At({"subtract", "acquired"})') = Cardinality(At({"subtract", "acquired"}))
      BY Zenon, <1>0, <1>1, <3>1, GoesCounts DEF Labels, load_flag
    <3> QED
      BY Zenon, <1>1, <3>2 DEF IdleInv, ApproxSizeIsExact, load_flag
  <2>2. CASE Index(t) # scan[t].caller /\ Index(t) \in m_idle_flags
    <3>1. CallGoes(t, "exchange") /\ scan' = scan
      BY Zenon, <1>1, <2>2 DEF load_flag
    <3>2. IdleTypeOK' /\ ScansAreBounded'
      BY Zenon, <1>0, <1>b, <1>c, <1>e, <2>2, <3>1, ScanStepKeeps DEF Labels, Index
    <3> QED
      BY Zenon, <2>1, <3>2 DEF IdleInv
  <2>3. CASE ~(Index(t) # scan[t].caller /\ Index(t) \in m_idle_flags)
    <3>1. CallGoes(t, "scan") /\ scan' = [scan EXCEPT ![t] = advanced]
      BY Zenon, <1>1, <1>c, <2>3 DEF load_flag, CallGoes
    <3> HIDE DEF advanced
    <3>2. IdleTypeOK' /\ ScansAreBounded'
      BY Zenon, <1>0, <1>b, <1>c, <1>e, <1>n, <3>1, ScanStepKeeps DEF Labels
    <3> QED
      BY Zenon, <2>1, <3>2 DEF IdleInv
  <2> QED
    BY Zenon, <2>2, <2>3
<1>2. CASE exchange_flag(t)
  <2>0. at[t] = "exchange" /\ m_approx_size' = m_approx_size /\ m_idle_flags' = m_idle_flags \ {Index(t)}
    BY Zenon, <1>2 DEF exchange_flag, Clear
  <2>2. CASE Index(t) \in m_idle_flags
    <3>1. CallGoes(t, "acquired") /\ scan' = scan
      BY Zenon, <1>2, <2>2 DEF exchange_flag
    <3>2. IdleTypeOK' /\ ScansAreBounded'
      BY Zenon, <1>0, <1>b, <1>c, <1>e, <2>0, <3>1, ScanStepKeeps DEF Labels, Index
    <3>3. /\ Cardinality(At({"add"})') = Cardinality(At({"add"}))
          /\ Cardinality(At({"subtract", "acquired"})') = Cardinality(At({"subtract", "acquired"})) + 1
      BY Zenon, <1>0, <2>0, <3>1, GoesCounts DEF Labels
    <3>4. Cardinality(m_idle_flags') = Cardinality(m_idle_flags) - 1
      BY Zenon, <1>0, <2>0, <2>2, FlagsCount
    <3> QED
      BY <1>0, <1>a, <2>0, <3>2, <3>3, <3>4 DEF IdleInv, ApproxSizeIsExact
  <2>3. CASE Index(t) \notin m_idle_flags
    <3>1. CallGoes(t, "scan") /\ scan' = [scan EXCEPT ![t] = advanced]
      BY Zenon, <1>2, <2>3 DEF exchange_flag
    <3>3. /\ Cardinality(At({"add"})') = Cardinality(At({"add"}))
          /\ Cardinality(At({"subtract", "acquired"})') = Cardinality(At({"subtract", "acquired"}))
      BY Zenon, <1>0, <2>0, <3>1, GoesCounts DEF Labels
    <3>4. Cardinality(m_idle_flags') = Cardinality(m_idle_flags)
      BY Zenon, <1>0, <2>0, <2>3, FlagsCount
    <3> HIDE DEF advanced
    <3>2. IdleTypeOK' /\ ScansAreBounded'
      BY Zenon, <1>0, <1>b, <1>c, <1>e, <1>n, <3>1, ScanStepKeeps DEF Labels
    <3> QED
      BY Zenon, <1>0, <1>a, <2>0, <3>2, <3>3, <3>4 DEF IdleInv, ApproxSizeIsExact
  <2> QED
    BY Zenon, <2>2, <2>3
<1>3. CASE acquire_flag(t)
  <2> DEFINE more == [advanced EXCEPT !.found = @ \cup {Index(t)}]
  <2>1. /\ at[t] = "acquired" /\ m_approx_size' = m_approx_size - 1 /\ m_idle_flags' = m_idle_flags
        /\ CallGoes(t, "scan") /\ scan' = [scan EXCEPT ![t] = more]
    BY Zenon, <1>3 DEF acquire_flag
  <2>2. /\ more \in Scans /\ more.found = scan[t].found \cup {Index(t)}
        /\ more.max = scan[t].max /\ more.caller = scan[t].caller
    <3> HIDE DEF advanced
    <3> QED
      BY Zenon, <1>0, <1>n DEF Scans
  <2> HIDE DEF more
  <2>3. Cardinality(more.found) <= more.max /\ more.caller \notin more.found
    <3>1. Cardinality(more.found) <= Cardinality(scan[t].found) + 1
      <4>1. Cardinality(scan[t].found \cup {Index(t)}) =
               IF Index(t) \in scan[t].found THEN Cardinality(scan[t].found) ELSE Cardinality(scan[t].found) + 1
        BY ONLY Zenon, <1>d, FS_AddElement
      <4> QED
        BY ONLY <1>d, <2>2, <4>1
    <3>2. scan[t].max \in Nat
      BY <1>0 DEF Scans
    <3>3. Cardinality(more.found) \in Nat
      BY Zenon, <1>d, <2>2, FS_AddElement, FS_CardinalityType
    <3> QED
      BY <1>b, <1>c, <1>d, <2>1, <2>2, <3>1, <3>2, <3>3
  <2>4. IdleTypeOK' /\ ScansAreBounded'
    BY Zenon, <1>0, <1>b, <1>c, <1>e, <2>1, <2>2, <2>3, ScanStepKeeps DEF Labels
  <2>5. /\ Cardinality(At({"add"})') = Cardinality(At({"add"}))
        /\ Cardinality(At({"subtract", "acquired"})') = Cardinality(At({"subtract", "acquired"})) - 1
    BY Zenon, <1>0, <2>1, GoesCounts DEF Labels
  <2> QED
    BY <1>0, <1>a, <2>1, <2>4, <2>5 DEF IdleInv, ApproxSizeIsExact
<1> QED
  BY Zenon, <1>1, <1>2, <1>3

\* A scan returns and forgets its variables.
LEMMA ReturnKeepsInv ==
    ASSUME IdleInv, NEW t \in Callers, return_found(t)
    PROVE  IdleInv'
<1>0. /\ IdleTypeOK /\ at \in [Callers -> Labels] /\ at[t] = "scan" /\ CallGoes(t, "out")
      /\ scan' = [scan EXCEPT ![t] = NoScan] /\ asked' = [asked EXCEPT ![t] = 0]
      /\ m_idle_flags' = m_idle_flags /\ m_approx_size' = m_approx_size
  BY Zenon DEF IdleInv, IdleTypeOK, Labels, return_found
<1>1. NoScan \in Scans /\ 0 \in 0 .. Size
  BY SizeIsPositive DEF NoScan, Scans, Workers
<1>2. Cardinality(NoScan.found) <= NoScan.max /\ NoScan.max <= 0 /\ NoScan.caller \notin NoScan.found
  BY FS_EmptySet DEF NoScan
<1>3. m_idle_flags' \subseteq Workers /\ m_approx_size' \in Int /\ available' \in [Callers -> SUBSET Workers]
  BY Zenon DEF IdleInv, IdleTypeOK, return_found
<1>4. IdleTypeOK' /\ ScansAreBounded'
  BY Zenon, <1>0, <1>1, <1>2, <1>3, ScanStepKeeps DEF Labels
<1>5. /\ Cardinality(At({"add"})') = Cardinality(At({"add"}))
      /\ Cardinality(At({"subtract", "acquired"})') = Cardinality(At({"subtract", "acquired"}))
  BY Zenon, <1>0, GoesCounts DEF Labels
<1> QED
  BY Zenon, <1>0, <1>4, <1>5 DEF IdleInv, ApproxSizeIsExact

-----------------------------------------------------------------------------

\* m_approx_size, whose fetch_add and fetch_sub come after the flags they count,
\* is never wrong by more than the updates under way, and scans keep their limits
\* and never take their caller, for every pool, all threads and all schedules.
THEOREM IdleWorkersAreCounted == IdleSpec => []IdleInv
<1>1. IdleInv /\ [IdleNext]_idleVars => IdleInv'
  <2> SUFFICES ASSUME IdleInv, [IdleNext]_idleVars PROVE IdleInv'
    BY Zenon
  <2>1. CASE UNCHANGED idleVars
    BY Zenon, <2>1 DEF idleVars, IdleInv, IdleTypeOK, ApproxSizeIsExact, ScansAreBounded, ScanEnds, Index, At
  <2>2. ASSUME NEW w \in Workers, set_idle(w) \/ add_one(w) \/ set_active(w) \/ subtract_one(w)
        PROVE  IdleInv'
    BY Zenon, <2>2, WorkerKeepsInv
  <2>3. ASSUME NEW w \in Workers, find_idle_workers(w) PROVE IdleInv'
    <3>1. PICK max_count \in 1 .. Size - 1 : StartScan(w, w, w, max_count)
      BY Zenon, <2>3 DEF find_idle_workers
    <3>2. max_count \in 1 .. Size /\ w \in Callers
      BY SizeIsPositive DEF Callers
    <3> QED
      BY Zenon, <3>1, <3>2, StartKeepsInv
  <2>4. ASSUME NEW t \in Callers, find_idle_worker(t) PROVE IdleInv'
    <3>1. 1 \in 1 .. Size
      BY SizeIsPositive
    <3> QED
      BY Zenon, <2>4, <3>1, StartKeepsInv DEF find_idle_worker
  <2>5. ASSUME NEW t \in Callers, load_flag(t) \/ exchange_flag(t) \/ acquire_flag(t) PROVE IdleInv'
    BY Zenon, <2>5, FlagKeepsInv
  <2>6. ASSUME NEW t \in Callers, return_found(t) PROVE IdleInv'
    BY Zenon, <2>6, ReturnKeepsInv
  <2> QED
    BY Zenon, <2>1, <2>2, <2>3, <2>4, <2>5, <2>6 DEF IdleNext
<1> QED
  BY <1>1, InitInv, PTL DEF IdleSpec

-----------------------------------------------------------------------------
(* A scan misses nobody who stays idle.                                    *)

\* The turn at which a scan that starts at `start` comes to worker w.
Turn(start, w) == IF w >= start THEN w - start ELSE w - start + Size

\* A thread is in the scan of the flags.
Scanning(t) == at[t] \in {"scan", "exchange", "acquired"}

\* What a scan has to say of the workers that were there for it: their flags are
\* still set unless it took them itself, it has taken those it has passed, and its
\* budget is what was asked for or is enough for all of them.
ScanSees(t) ==
    Scanning(t) =>
        /\ \A w \in available[t] :
              \/ w \in m_idle_flags \cup scan[t].found
              \/ at[t] = "acquired" /\ w = Index(t)
        /\ \A w \in available[t] \ {scan[t].caller} :
              Turn(scan[t].start, w) < scan[t].i => w \in scan[t].found
        /\ scan[t].max = asked[t] \/ Cardinality(available[t]) <= scan[t].max

\* (start + i) % Size goes once through all workers.
LEMMA TurnIsUnique ==
    ASSUME NEW start \in Workers, NEW w \in Workers
    PROVE  /\ Turn(start, w) \in 0 .. Size - 1
           /\ (start + Turn(start, w)) % Size = w
<1> USE SizeIsPositive DEF Turn, Workers
<1>1. Turn(start, w) \in 0 .. Size - 1
  OBVIOUS
<1>2. CASE w >= start
  <2>1. start + Turn(start, w) = w /\ w \in 0 .. Size - 1
    BY <1>2
  <2>2. w % Size = w
    BY <2>1
  <2> QED
    BY Zenon, <1>1, <2>1, <2>2
<1>3. CASE ~(w >= start)
  <2>1. start + Turn(start, w) = w + Size
    BY <1>3
  <2>2. (w + Size) % Size = w
    OBVIOUS
  <2> QED
    BY Zenon, <1>1, <2>1, <2>2
<1> QED
  BY Zenon, <1>2, <1>3

\* The number of workers that are left does not grow when some are taken away.
LEMMA FewerWorkers ==
    ASSUME NEW S \in SUBSET Workers, NEW T \in SUBSET S
    PROVE  Cardinality(S) \in Nat /\ Cardinality(T) \in Nat /\ Cardinality(T) <= Cardinality(S)
BY Zenon, FiniteThreads, FS_Subset, FS_CardinalityType

\* What one thread does leaves the scans of the others as they see it, when it
\* takes no flag that it does not take away from what was there for them.
LEMMA OthersSee ==
    ASSUME IdleTypeOK, NEW u \in Callers, ScanSees(u),
           at'[u] = at[u], scan'[u] = scan[u], asked'[u] = asked[u],
           available'[u] \subseteq available[u],
           m_idle_flags \cap available'[u] \subseteq m_idle_flags'
    PROVE  ScanSees(u)'
<1>1. Index(u)' = Index(u) /\ Scanning(u)' = Scanning(u)
  BY Zenon DEF Index, Scanning
<1>2. Cardinality(available'[u]) \in Nat /\ Cardinality(available[u]) \in Nat
      /\ Cardinality(available'[u]) <= Cardinality(available[u])
  <2>1. available[u] \in SUBSET Workers
    BY Zenon DEF IdleTypeOK
  <2> QED
    BY Zenon, <2>1, FewerWorkers
<1>3. scan[u].max \in Nat
  BY DEF IdleTypeOK
<1>4. Scanning(u)' => scan'[u].max = asked'[u] \/ Cardinality(available'[u]) <= scan'[u].max
  BY <1>1, <1>2, <1>3 DEF ScanSees
<1> QED
  BY Zenon, <1>1, <1>4 DEF ScanSees, Turn

\* The call: every worker that counts as available is counted in m_approx_size.
LEMMA StartSees ==
    ASSUME IdleInv, NEW t \in Callers, NEW caller \in Workers \cup {NoIndex}, NEW start \in Workers,
           NEW max_count \in 1 .. Size, StartScan(t, caller, start, max_count)
    PROVE  ScanSees(t)'
<1> USE SizeIsPositive
<1> DEFINE max == MaxWaiters(max_count)
           there == IF At({"add"}) = {} THEN m_idle_flags ELSE {}
<1>0. IdleTypeOK /\ there \subseteq m_idle_flags /\ there \subseteq Workers
  BY Zenon DEF IdleInv, IdleTypeOK
<1>1. /\ scan'[t] = [caller |-> caller, start |-> start, i |-> 0, max |-> max, found |-> {}]
      /\ asked'[t] = max_count /\ available'[t] = there /\ at'[t] = "scan"
      /\ m_idle_flags' = m_idle_flags
  BY Zenon, <1>0 DEF StartScan, CallGoes, IdleTypeOK
<1>2. max = max_count \/ Cardinality(there) <= max
  <2>1. /\ Cardinality(m_idle_flags) \in Nat /\ Cardinality(At({"subtract", "acquired"})) \in Nat
        /\ Cardinality(At({"add"})) \in Nat
    BY Zenon, <1>0, AtIsFinite, FewerWorkers DEF IdleTypeOK
  <2>2. m_approx_size \in Int /\ max_count \in Int
    BY <1>0 DEF IdleTypeOK
  <2>3. max = IF m_approx_size <= 0 THEN 0
              ELSE IF m_approx_size <= max_count THEN m_approx_size ELSE max_count
    BY Zenon, <2>2, MinOfTwo DEF MaxWaiters
  <2>4. CASE At({"add"}) = {}
    <3>1. Cardinality(At({"add"})) = 0
      BY ONLY <2>4, FS_EmptySet
    <3>2. m_approx_size >= Cardinality(m_idle_flags)
      BY <2>1, <2>2, <3>1 DEF IdleInv, ApproxSizeIsExact
    <3>3. there = m_idle_flags
      BY Zenon, <2>4
    <3> HIDE DEF max, there
    <3> QED
      BY <2>1, <2>2, <2>3, <3>2, <3>3
  <2>5. CASE At({"add"}) # {}
    <3>1. there = {}
      BY Zenon, <2>5
    <3>2. Cardinality(there) = 0
      BY ONLY <3>1, FS_EmptySet
    <3> HIDE DEF max, there
    <3> QED
      BY <2>2, <2>3, <3>2
  <2> QED
    BY Zenon, <2>4, <2>5
<1>3. \A w \in Workers : ~(Turn(start, w) < 0)
  BY TurnIsUnique
<1> HIDE DEF max, there
<1> QED
  BY <1>0, <1>1, <1>2, <1>3 DEF ScanSees

\* A scan that passes a worker has taken it, or it was not there.
LEMMA ScanPasses ==
    ASSUME IdleTypeOK, NEW t \in Callers, NEW found \in SUBSET Workers, ScanSees(t), Scanning(t),
           scan[t].i # Size, at'[t] = "scan", asked'[t] = asked[t], available'[t] = available[t],
           scan'[t] = [Advance(t) EXCEPT !.found = found],
           scan[t].found \subseteq found,
           m_idle_flags \cap available[t] \subseteq m_idle_flags' \cup found,
           at[t] = "acquired" => Index(t) \in found,
           Index(t) \in available[t] => Index(t) = scan[t].caller \/ Index(t) \in found
    PROVE  ScanSees(t)'
<1> DEFINE s == scan[t]
<1>1. s \in Scans
  BY Zenon DEF IdleTypeOK, Scans
<1>2. /\ scan'[t].found = found /\ scan'[t].i = s.i + 1 /\ scan'[t].start = s.start
      /\ scan'[t].caller = s.caller /\ scan'[t].max = s.max
  BY Zenon, <1>1 DEF Advance, Scans
<1>3. ASSUME NEW w \in available[t] \ {s.caller}, Turn(s.start, w) < s.i + 1
      PROVE  w \in found
  <2>1. w \in Workers /\ s.start \in Workers /\ s.i \in Nat
    BY <1>1, SizeIsPositive DEF IdleTypeOK, Scans
  <2>2. Turn(s.start, w) \in Nat /\ (s.start + Turn(s.start, w)) % Size = w
    BY <2>1, TurnIsUnique
  <2>3. CASE Turn(s.start, w) < s.i
    BY Zenon, <2>3 DEF ScanSees
  <2>4. CASE Turn(s.start, w) = s.i
    <3>1. w = Index(t)
      BY Zenon, <2>2, <2>4 DEF Index
    <3> QED
      BY Zenon, <3>1
  <2> QED
    BY <1>3, <2>1, <2>2, <2>3, <2>4
<1>4. \A w \in available[t] : w \in m_idle_flags' \cup found
  BY Zenon DEF ScanSees
<1>5. s.max = asked[t] \/ Cardinality(available[t]) <= s.max
  BY Zenon DEF ScanSees
<1> HIDE DEF s
<1> QED
  BY Zenon, <1>2, <1>3, <1>4, <1>5 DEF ScanSees

\* Loading, exchanging and counting a flag.
LEMMA FlagSees ==
    ASSUME IdleInv, NEW t \in Callers, ScanSees(t), load_flag(t) \/ exchange_flag(t) \/ acquire_flag(t)
    PROVE  ScanSees(t)'
<1>0. /\ IdleTypeOK /\ scan[t] \in Scans /\ Scanning(t) /\ Index(t) \in Workers
      /\ asked'[t] = asked[t] /\ available'[t] = available[t]
  BY Zenon, IndexIsWorker DEF IdleInv, IdleTypeOK, Scans, Scanning, load_flag, exchange_flag, acquire_flag, Clear
<1>1. scan[t].i # Size /\ scan[t].found \in SUBSET Workers
  BY Zenon, <1>0 DEF IdleInv, ScansAreBounded, ScanEnds, load_flag, exchange_flag, acquire_flag, Scans
<1>2. Advance(t) = [Advance(t) EXCEPT !.found = scan[t].found]
  BY Zenon, <1>0 DEF Advance, Scans
<1>3. CASE load_flag(t)
  <2>1. at[t] = "scan" /\ m_idle_flags' = m_idle_flags
    BY Zenon, <1>3 DEF load_flag
  <2>2. CASE Index(t) # scan[t].caller /\ Index(t) \in m_idle_flags
    <3>1. at'[t] = "exchange" /\ scan' = scan
      BY Zenon, <1>0, <1>3, <2>2 DEF load_flag, CallGoes, IdleTypeOK
    <3> QED
      BY Zenon, <1>0, <2>1, <3>1 DEF ScanSees, Scanning, Turn
  <2>3. CASE ~(Index(t) # scan[t].caller /\ Index(t) \in m_idle_flags)
    <3>1. at'[t] = "scan" /\ scan'[t] = Advance(t)
      BY Zenon, <1>0, <1>3, <2>1, <2>3 DEF load_flag, IdleTypeOK
    <3>2. Index(t) \in available[t] => Index(t) = scan[t].caller \/ Index(t) \in scan[t].found
      BY Zenon, <1>0, <2>1, <2>3 DEF ScanSees
    <3> QED
      BY Zenon, <1>0, <1>1, <1>2, <2>1, <3>1, <3>2, ScanPasses
  <2> QED
    BY Zenon, <2>2, <2>3
<1>4. CASE exchange_flag(t)
  <2>1. at[t] = "exchange" /\ m_idle_flags' = m_idle_flags \ {Index(t)}
    BY Zenon, <1>4 DEF exchange_flag, Clear
  <2>2. CASE Index(t) \in m_idle_flags
    <3>1. at'[t] = "acquired" /\ scan' = scan
      BY Zenon, <1>0, <1>4, <2>2 DEF exchange_flag, CallGoes, IdleTypeOK
    <3>2. Index(t)' = Index(t)
      BY Zenon, <3>1 DEF Index
    <3> QED
      BY Zenon, <1>0, <2>1, <3>1, <3>2 DEF ScanSees, Scanning, Turn
  <2>3. CASE Index(t) \notin m_idle_flags
    <3>1. at'[t] = "scan" /\ scan'[t] = Advance(t)
      BY Zenon, <1>0, <1>4, <2>1, <2>3 DEF exchange_flag, CallGoes, IdleTypeOK
    <3>2. Index(t) \in available[t] => Index(t) \in scan[t].found
      BY Zenon, <1>0, <2>1, <2>3 DEF ScanSees
    <3>3. m_idle_flags' = m_idle_flags
      BY Zenon, <2>1, <2>3
    <3> QED
      BY Zenon, <1>0, <1>1, <1>2, <2>1, <3>1, <3>2, <3>3, ScanPasses
  <2> QED
    BY Zenon, <2>2, <2>3
<1>5. CASE acquire_flag(t)
  <2> DEFINE found == scan[t].found \cup {Index(t)}
  <2>1. at[t] = "acquired" /\ m_idle_flags' = m_idle_flags /\ at'[t] = "scan"
        /\ scan'[t] = [Advance(t) EXCEPT !.found = found]
    BY Zenon, <1>0, <1>5 DEF acquire_flag, CallGoes, IdleTypeOK, Advance, Scans
  <2>2. found \in SUBSET Workers /\ scan[t].found \subseteq found /\ Index(t) \in found
    BY Zenon, <1>0, <1>1
  <2> HIDE DEF found
  <2> QED
    BY Zenon, <1>0, <1>1, <2>1, <2>2, ScanPasses
<1> QED
  BY Zenon, <1>3, <1>4, <1>5

\* What every step does to the scan of a thread that does not take it.
LEMMA StepsLeaveOthers ==
    ASSUME IdleInv, NEW t \in Callers, NEW u \in Callers, u # t,
           \/ t \in Workers /\ (set_idle(t) \/ add_one(t) \/ set_active(t) \/ subtract_one(t))
           \/ \E caller, start, max_count : StartScan(t, caller, start, max_count)
           \/ load_flag(t) \/ exchange_flag(t) \/ acquire_flag(t) \/ return_found(t),
           ScanSees(u)
    PROVE  ScanSees(u)'
<1>0. IdleTypeOK
  BY Zenon DEF IdleInv
<1>1. at'[u] = at[u] /\ scan'[u] = scan[u] /\ asked'[u] = asked[u]
  BY Zenon, <1>0 DEF IdleTypeOK, CallGoes, set_idle, add_one, set_active, subtract_one, StartScan, load_flag,
              exchange_flag, acquire_flag, return_found
<1>2. available'[u] \subseteq available[u] /\ m_idle_flags \cap available'[u] \subseteq m_idle_flags'
  BY <1>0 DEF IdleTypeOK, Clear, set_idle, add_one, set_active, subtract_one, StartScan, load_flag,
              exchange_flag, acquire_flag, return_found
<1> QED
  BY Zenon, <1>0, <1>1, <1>2, OthersSee

\* A scan that ends has found as many as were asked for, or all that stayed idle.
LEMMA EndOfScan ==
    ASSUME IdleInv, \A t \in Callers : ScanSees(t)
    PROVE  FindsWhatStaysIdle
<1> SUFFICES ASSUME NEW t \in Callers, at[t] = "scan", ScanEnds(t)
             PROVE  Cardinality(scan[t].found) >=
                       Min({asked[t], Cardinality(available[t] \ {scan[t].caller})})
  BY Zenon DEF FindsWhatStaysIdle
<1> DEFINE left == available[t] \ {scan[t].caller}
           found == scan[t].found
<1>1. /\ scan[t] \in Scans /\ asked[t] \in Nat /\ scan[t].max \in Nat
      /\ available[t] \in SUBSET Workers /\ found \in SUBSET Workers /\ left \in SUBSET available[t]
  BY SizeIsPositive DEF IdleInv, IdleTypeOK, Scans
<1>2. /\ Cardinality(left) \in Nat /\ Cardinality(available[t]) \in Nat /\ Cardinality(found) \in Nat
      /\ Cardinality(left) <= Cardinality(available[t])
  BY Zenon, <1>1, FewerWorkers
<1>3. ScanSees(t) /\ Scanning(t)
  BY Zenon DEF Scanning
<1>4. Cardinality(found) >= asked[t] \/ Cardinality(found) >= Cardinality(left)
  <2>1. CASE Cardinality(found) = scan[t].max
    <3>1. scan[t].max = asked[t] \/ Cardinality(available[t]) <= scan[t].max
      BY Zenon, <1>3 DEF ScanSees
    <3> HIDE DEF found, left
    <3> QED
      BY <1>1, <1>2, <2>1, <3>1
  <2>2. CASE scan[t].i = Size
    <3>1. \A w \in left : Turn(scan[t].start, w) < scan[t].i
      BY <1>1, <2>2, TurnIsUnique, SizeIsPositive DEF Scans
    <3>2. left \in SUBSET found
      BY Zenon, <1>3, <3>1 DEF ScanSees
    <3> QED
      BY Zenon, <1>1, <3>2, FewerWorkers
  <2> QED
    BY Zenon, <2>1, <2>2 DEF ScanEnds
<1>5. Min({asked[t], Cardinality(left)}) =
         IF asked[t] <= Cardinality(left) THEN asked[t] ELSE Cardinality(left)
  <2>1. asked[t] \in Int /\ Cardinality(left) \in Int
    BY <1>1, <1>2
  <2> QED
    BY Zenon, <2>1, MinOfTwo
<1> HIDE DEF found, left
<1>6. Cardinality(found) >= Min({asked[t], Cardinality(left)})
  BY <1>1, <1>2, <1>4, <1>5
<1> QED
  BY Zenon, <1>6 DEF found, left

\* find_idle_worker and find_idle_workers come back with fewer workers than they
\* were asked for only when there were no more that stayed idle all along, for
\* every pool and whatever the other threads do to its flags and to m_approx_size.
THEOREM ScansMissNobody == IdleSpec => []FindsWhatStaysIdle
<1> DEFINE Sees == \A t \in Callers : ScanSees(t)
<1>1. IdleInit => Sees
  BY Zenon DEF IdleInit, ScanSees, Scanning
<1>2. IdleInv /\ Sees /\ [IdleNext]_idleVars => Sees'
  <2> SUFFICES ASSUME IdleInv, Sees, [IdleNext]_idleVars, NEW u \in Callers PROVE ScanSees(u)'
    BY Zenon
  <2>0. IdleTypeOK
    BY Zenon DEF IdleInv
  <2>1. CASE UNCHANGED idleVars
    BY Zenon, <2>1 DEF idleVars, ScanSees, Scanning, Turn, Index
  <2>2. ASSUME NEW w \in Workers, set_idle(w) \/ add_one(w) \/ set_active(w) \/ subtract_one(w)
        PROVE  ScanSees(u)'
    <3>1. w \in Callers
      BY Zenon DEF Callers
    <3>2. CASE u = w
      <4>1. ~Scanning(u)'
        BY Zenon, <2>0, <2>2, <3>1, <3>2 DEF Scanning, set_idle, add_one, set_active, subtract_one, CallGoes, IdleTypeOK
      <4> QED
        BY Zenon, <4>1 DEF ScanSees
    <3> QED
      BY Zenon, <2>2, <3>1, <3>2, StepsLeaveOthers
  <2>3. ASSUME NEW t \in Callers, NEW caller \in Workers \cup {NoIndex}, NEW start \in Workers,
               NEW max_count \in 1 .. Size, StartScan(t, caller, start, max_count)
        PROVE  ScanSees(u)'
    BY Zenon, <2>3, StartSees, StepsLeaveOthers
  <2>4. ASSUME NEW w \in Workers, find_idle_workers(w) PROVE ScanSees(u)'
    <3>1. PICK max_count \in 1 .. Size - 1 : StartScan(w, w, w, max_count)
      BY Zenon, <2>4 DEF find_idle_workers
    <3>2. max_count \in 1 .. Size /\ w \in Callers
      BY SizeIsPositive DEF Callers
    <3> QED
      BY Zenon, <2>3, <3>1, <3>2
  <2>5. ASSUME NEW t \in Callers, find_idle_worker(t) PROVE ScanSees(u)'
    <3>1. 1 \in 1 .. Size
      BY SizeIsPositive
    <3> QED
      BY Zenon, <2>3, <2>5, <3>1 DEF find_idle_worker
  <2>6. ASSUME NEW t \in Callers, load_flag(t) \/ exchange_flag(t) \/ acquire_flag(t)
        PROVE  ScanSees(u)'
    BY Zenon, <2>6, FlagSees, StepsLeaveOthers
  <2>7. ASSUME NEW t \in Callers, return_found(t) PROVE ScanSees(u)'
    <3>1. CASE u = t
      <4>1. ~Scanning(u)'
        BY Zenon, <2>0, <2>7, <3>1 DEF Scanning, return_found, CallGoes, IdleTypeOK
      <4> QED
        BY Zenon, <4>1 DEF ScanSees
    <3> QED
      BY Zenon, <2>7, <3>1, StepsLeaveOthers
  <2> QED
    BY Zenon, <2>1, <2>2, <2>4, <2>5, <2>6, <2>7 DEF IdleNext
<1>3. IdleInv /\ Sees => FindsWhatStaysIdle
  BY Zenon, EndOfScan
<1> QED
  BY <1>1, <1>2, <1>3, IdleWorkersAreCounted, PTL DEF IdleSpec

===============================================================================
