-------------------------- MODULE WorkerThreadProofs --------------------------
(***************************************************************************)
(* The two queues of worker_thread_executor lose no task, double none and  *)
(* keep their order, for any number of clients, tasks and spans.           *)
(***************************************************************************)
EXTENDS WorkerThread, TLAPS

\* The empty sequence, which the provers know of only by its length.
LEMMA EmptySequence ==
    ASSUME NEW S
    PROVE  <<>> \in Seq(S) /\ \A s \in Seq(S) : s = <<>> <=> Len(s) = 0
  OBVIOUS

Private == Range(m_private_queue)
Public == Range(m_public_queue)
Hand == IF running = Null THEN {} ELSE {running}
Done == Range(ran) \cup Range(dropped)

\* No task is in a queue twice.
Distinct(q) == \A i, j \in 1 .. Len(q) : q[i] = q[j] => i = j

\* One task is in front of another one in a queue.
Before(q, i, t) == \E a, b \in 1 .. Len(q) : a < b /\ q[a] = i /\ q[b] = t

\* The tasks, counted and as a set.
Counted ==
    /\ Len(m_private_queue) + Len(m_public_queue) + (IF running = Null THEN 0 ELSE 1)
           + Len(ran) + Len(dropped) = made
    /\ Private \cup Public \cup Hand \cup Done = 1 .. made

\* A task that is still to be run is in one place.
Apart ==
    /\ Distinct(m_private_queue) /\ Distinct(m_public_queue)
    /\ Private \cap Public = {}
    /\ Hand \cap (Private \cup Public) = {}
    /\ (Private \cup Public \cup Hand) \cap Done = {}

\* What goes with the place of the thread and of shutdown.
Places ==
    /\ running # Null <=> pc \in {"popped", "task"}
    /\ pc = "none" => m_private_queue = <<>>
    /\ m_abort <=> shut \notin {"no", "lock"}
    /\ m_private_atomic_abort <=> shut \notin {"no", "lock", "store"}
    /\ shut = "done" => pc \in {"none", "ended"}

\* Tasks are refused once the flag that their enqueuer reads is set; those of the
\* public queue come from other threads.
Refusals ==
    /\ ~m_abort => dropped = <<>>
    /\ ~m_private_atomic_abort => Range(dropped) \cap local = {}
    /\ Public \cap local = {} /\ local \subseteq 1 .. made

\* Task i comes before task t, if both are still to be run.
Precedes(i, t) ==
    \/ i \in Hand /\ t \in Private \cup Public
    \/ i \in Private /\ t \in Public
    \/ Before(m_private_queue, i, t)
    \/ Before(m_public_queue, i, t)

\* Tasks that were made before t are run before it, as long as the thread goes on.
Ordered ==
    pc # "ended" =>
        \A t \in Private \cup Public \cup Hand : \A i \in 1 .. t - 1 :
            (t \in local /\ i \notin local) \/ i \in Range(ran) \/ Precedes(i, t)

\* The inductive invariant.
IInv ==
    /\ TypeOK /\ Counted /\ Apart /\ Places /\ Refusals /\ Ordered
    /\ NoLostWakeUp /\ PrivateQueueEmptyOnSwap /\ RunsInOrder

-----------------------------------------------------------------------------
(* Sequences of tasks, as sets and as orders.                              *)

\* The elements of a sequence are those at its indices.
LEMMA Elements ==
    ASSUME NEW q \in Seq(Tasks)
    PROVE  /\ Len(q) \in Nat
           /\ \A x : x \in Range(q) <=> \E i \in 1 .. Len(q) : q[i] = x
           /\ Range(q) \subseteq Tasks
           /\ q = <<>> <=> Range(q) = {}
<1>1. Len(q) \in Nat /\ q \in [1 .. Len(q) -> Tasks] /\ DOMAIN q = 1 .. Len(q)
  OBVIOUS
<1>2. \A x : x \in Range(q) <=> \E i \in 1 .. Len(q) : q[i] = x
  BY <1>1 DEF Range
<1>3. q # <<>> => Len(q) \in Nat \ {0}
  BY EmptySequence
<1>4. q = <<>> => Len(q) = 0
  BY EmptySequence
<1>5. q # <<>> => q[1] \in Range(q)
  BY <1>2, <1>3
<1>6. q = <<>> => Range(q) = {}
  BY <1>1, <1>2, <1>4
<1> QED
  BY <1>1, <1>2, <1>5, <1>6

\* Two tasks of which one is in front of the other are in the queue.
LEMMA BeforeIsIn ==
    ASSUME NEW q \in Seq(Tasks), NEW i, NEW t, Before(q, i, t)
    PROVE  i \in Range(q) /\ t \in Range(q)
  BY Elements DEF Before

\* What a concatenation is made of.
LEMMA Concat ==
    ASSUME NEW q \in Seq(Tasks), NEW s \in Seq(Tasks)
    PROVE  /\ q \o s \in Seq(Tasks) /\ Len(q \o s) = Len(q) + Len(s)
           /\ Range(q \o s) = Range(q) \cup Range(s)
           /\ Distinct(q) /\ Distinct(s) /\ Range(q) \cap Range(s) = {} => Distinct(q \o s)
           /\ \A i, t : Before(q, i, t) \/ Before(s, i, t) => Before(q \o s, i, t)
           /\ \A i \in Range(q), t \in Range(s) : Before(q \o s, i, t)
<1> DEFINE c == q \o s
<1>1. /\ c \in Seq(Tasks) /\ Len(c) = Len(q) + Len(s)
      /\ \A i \in 1 .. Len(q) + Len(s) : c[i] = IF i <= Len(q) THEN q[i] ELSE s[i - Len(q)]
  OBVIOUS
<1>2. Len(q) \in Nat /\ Len(s) \in Nat
  BY Elements
<1> HIDE DEF c
<1>3. \A i \in 1 .. Len(q) : i \in 1 .. Len(c) /\ c[i] = q[i]
  BY <1>1, <1>2
<1>4. \A i \in 1 .. Len(s) : Len(q) + i \in 1 .. Len(c) /\ c[Len(q) + i] = s[i]
  <2> SUFFICES ASSUME NEW i \in 1 .. Len(s) PROVE Len(q) + i \in 1 .. Len(c) /\ c[Len(q) + i] = s[i]
    OBVIOUS
  <2>1. /\ Len(q) + i \in 1 .. Len(q) + Len(s) /\ ~(Len(q) + i <= Len(q))
        /\ (Len(q) + i) - Len(q) = i
    BY <1>2
  <2> QED
    BY <1>1, <2>1
<1>5. \A k \in 1 .. Len(c) : \/ k \in 1 .. Len(q) /\ c[k] = q[k]
                             \/ \E i \in 1 .. Len(s) : k = Len(q) + i /\ c[k] = s[i]
  <2> SUFFICES ASSUME NEW k \in 1 .. Len(c), ~(k <= Len(q))
               PROVE  \E i \in 1 .. Len(s) : k = Len(q) + i /\ c[k] = s[i]
    BY <1>1, <1>2
  <2>1. k - Len(q) \in 1 .. Len(s) /\ k = Len(q) + (k - Len(q)) /\ c[k] = s[k - Len(q)]
    BY <1>1, <1>2
  <2> QED
    BY <2>1
<1>6. Range(c) = Range(q) \cup Range(s)
  <2>1. \A x : x \in Range(c) <=> \E k \in 1 .. Len(c) : c[k] = x
    BY <1>1, Elements
  <2>2. \A x : x \in Range(q) <=> \E k \in 1 .. Len(q) : q[k] = x
    BY Elements
  <2>3. \A x : x \in Range(s) <=> \E k \in 1 .. Len(s) : s[k] = x
    BY Elements
  <2>4. \A x \in Range(c) : x \in Range(q) \cup Range(s)
    BY <1>5, <2>1, <2>2, <2>3
  <2>5. \A x \in Range(q) : x \in Range(c)
    BY <1>3, <2>1, <2>2
  <2>6. \A x \in Range(s) : x \in Range(c)
    BY <1>4, <2>1, <2>3
  <2> QED
    BY <2>4, <2>5, <2>6
<1>7. ASSUME Distinct(q), Distinct(s), Range(q) \cap Range(s) = {} PROVE Distinct(c)
  <2>1. \A i \in 1 .. Len(q), j \in 1 .. Len(s) : q[i] # s[j]
    BY <1>7, Elements
  <2> SUFFICES ASSUME NEW i \in 1 .. Len(c), NEW j \in 1 .. Len(c), c[i] = c[j] PROVE i = j
    BY DEF Distinct
  <2>2. CASE i \in 1 .. Len(q) /\ c[i] = q[i] /\ j \in 1 .. Len(q) /\ c[j] = q[j]
    BY <1>7, <2>2 DEF Distinct
  <2>3. CASE /\ \E a \in 1 .. Len(s) : i = Len(q) + a /\ c[i] = s[a]
             /\ \E b \in 1 .. Len(s) : j = Len(q) + b /\ c[j] = s[b]
    BY <1>7, <2>3 DEF Distinct
  <2> QED
    BY <1>5, <2>1, <2>2, <2>3
<1>8. ASSUME NEW i, NEW t, Before(q, i, t) PROVE Before(c, i, t)
  BY <1>3, <1>8 DEF Before
<1>9. ASSUME NEW i, NEW t, Before(s, i, t) PROVE Before(c, i, t)
  <2>1. PICK a \in 1 .. Len(s), b \in 1 .. Len(s) : a < b /\ s[a] = i /\ s[b] = t
    BY <1>9 DEF Before
  <2>2. Len(q) + a < Len(q) + b
    BY <1>2, <2>1
  <2> QED
    BY <1>4, <2>1, <2>2 DEF Before
<1>10. ASSUME NEW i \in Range(q), NEW t \in Range(s) PROVE Before(c, i, t)
  <2>1. PICK a \in 1 .. Len(q) : q[a] = i
    BY Elements
  <2>2. PICK b \in 1 .. Len(s) : s[b] = t
    BY Elements
  <2>3. a < Len(q) + b
    BY <1>2
  <2> QED
    BY <1>3, <1>4, <2>1, <2>2, <2>3 DEF Before
<1> QED
  BY <1>1, <1>6, <1>7, <1>8, <1>9, <1>10 DEF c

\* What is left when the first task is taken.
LEMMA HeadAndTail ==
    ASSUME NEW q \in Seq(Tasks), q # <<>>
    PROVE  /\ Head(q) \in Tasks /\ Tail(q) \in Seq(Tasks) /\ Len(Tail(q)) = Len(q) - 1
           /\ Range(q) = {Head(q)} \cup Range(Tail(q))
           /\ Distinct(q) => Distinct(Tail(q)) /\ Head(q) \notin Range(Tail(q))
           /\ \A i, t : Before(q, i, t) => i = Head(q) \/ Before(Tail(q), i, t)
           /\ Distinct(q) => \A i, t : Before(q, i, t) => t # Head(q)
<1> DEFINE r == Tail(q)
           h == Head(q)
<1>1. /\ h \in Tasks /\ r \in Seq(Tasks) /\ Len(r) = Len(q) - 1
      /\ \A i \in 1 .. Len(r) : r[i] = q[i + 1]
  OBVIOUS
<1>2. h = q[1] /\ Len(q) \in Nat \ {0} /\ Len(r) \in Nat
  BY <1>1, EmptySequence, Elements
<1> HIDE DEF r, h
<1>3. \A i \in 1 .. Len(r) : i + 1 \in 1 .. Len(q) /\ r[i] = q[i + 1] /\ i + 1 # 1
  BY <1>1, <1>2
<1>4. \A k \in 1 .. Len(q) : k # 1 => \E i \in 1 .. Len(r) : k = i + 1 /\ r[i] = q[k]
  <2> SUFFICES ASSUME NEW k \in 1 .. Len(q), k # 1
               PROVE  \E i \in 1 .. Len(r) : k = i + 1 /\ r[i] = q[k]
    OBVIOUS
  <2>1. k - 1 \in 1 .. Len(r) /\ k = (k - 1) + 1
    BY <1>1, <1>2
  <2> QED
    BY <1>1, <2>1
<1>5. 1 \in 1 .. Len(q)
  BY <1>2
<1>6. Range(q) = {h} \cup Range(r)
  <2>1. \A x : x \in Range(q) <=> \E k \in 1 .. Len(q) : q[k] = x
    BY Elements
  <2>2. \A x : x \in Range(r) <=> \E k \in 1 .. Len(r) : r[k] = x
    BY <1>1, Elements
  <2>3. \A x \in Range(q) : x \in {h} \cup Range(r)
    BY <1>2, <1>4, <2>1, <2>2
  <2>4. \A x \in Range(r) : x \in Range(q)
    BY <1>3, <2>1, <2>2
  <2>5. h \in Range(q)
    BY <1>2, <1>5, <2>1
  <2> QED
    BY <2>3, <2>4, <2>5
<1>7. ASSUME Distinct(q) PROVE Distinct(r) /\ h \notin Range(r)
  <2>1. ASSUME NEW i \in 1 .. Len(r), NEW j \in 1 .. Len(r), r[i] = r[j] PROVE i = j
    <3>1. i + 1 = j + 1
      BY <1>3, <1>7, <2>1 DEF Distinct
    <3> QED
      BY <3>1
  <2>2. \A i \in 1 .. Len(r) : r[i] # h
    BY <1>2, <1>3, <1>5, <1>7 DEF Distinct
  <2> QED
    BY <1>1, <2>1, <2>2, Elements DEF Distinct
<1>8. ASSUME NEW i, NEW t, Before(q, i, t)
      PROVE  /\ i = h \/ Before(r, i, t)
             /\ Distinct(q) => t # h
  <2>1. PICK a \in 1 .. Len(q), b \in 1 .. Len(q) : a < b /\ q[a] = i /\ q[b] = t
    BY <1>8 DEF Before
  <2>2. b # 1
    BY <2>1
  <2>3. PICK d \in 1 .. Len(r) : b = d + 1 /\ r[d] = q[b]
    BY <1>4, <2>2
  <2>4. CASE a # 1
    <3>1. PICK e \in 1 .. Len(r) : a = e + 1 /\ r[e] = q[a]
      BY <1>4, <2>4
    <3>2. e < d
      BY <2>1, <2>3, <3>1
    <3>3. Before(r, i, t)
      BY <2>1, <2>3, <3>1, <3>2 DEF Before
    <3> QED
      BY <1>2, <1>5, <2>1, <2>2, <3>3 DEF Distinct
  <2> QED
    BY <1>2, <1>5, <2>1, <2>2, <2>4 DEF Distinct
<1> QED
  BY <1>1, <1>6, <1>7, <1>8 DEF r, h

\* A task is added at the end of the list of those that were run or destroyed.
LEMMA Appended ==
    ASSUME NEW q \in Seq(Tasks), NEW t \in Tasks
    PROVE  /\ Append(q, t) \in Seq(Tasks) /\ Len(Append(q, t)) = Len(q) + 1
           /\ Range(Append(q, t)) = Range(q) \cup {t}
           /\ \A i \in 1 .. Len(q) : Append(q, t)[i] = q[i]
           /\ Append(q, t)[Len(q) + 1] = t
<1> DEFINE a == Append(q, t)
<1>1. /\ a \in Seq(Tasks) /\ Len(a) = Len(q) + 1
      /\ \A i \in 1 .. Len(q) : a[i] = q[i]
      /\ a[Len(q) + 1] = t
  OBVIOUS
<1>2. Len(q) \in Nat
  BY Elements
<1> HIDE DEF a
<1>3. \A x : x \in Range(a) <=> x \in Range(q) \/ x = t
  <2>1. \A x : x \in Range(a) <=> \E k \in 1 .. Len(q) + 1 : a[k] = x
    BY <1>1, Elements
  <2>2. \A x : x \in Range(q) <=> \E k \in 1 .. Len(q) : q[k] = x
    BY Elements
  <2>3. \A k \in 1 .. Len(q) + 1 : k \in 1 .. Len(q) \/ k = Len(q) + 1
    BY <1>2
  <2>4. Len(q) + 1 \in 1 .. Len(q) + 1 /\ \A k \in 1 .. Len(q) : k \in 1 .. Len(q) + 1
    BY <1>2
  <2> QED
    BY <1>1, <2>1, <2>2, <2>3, <2>4
<1> QED
  BY <1>1, <1>3 DEF a

\* The tasks of one call of enqueue, in the order of their numbers.
LEMMA SpanOfTasks ==
    ASSUME NEW n \in 1 .. MaxSpan, made \in 0 .. MaxTasks, made + n <= MaxTasks
    PROVE  /\ NextTasks(n) \in Seq(Tasks) /\ Len(NextTasks(n)) = n
           /\ Range(NextTasks(n)) = made + 1 .. made + n
           /\ Distinct(NextTasks(n))
           /\ \A i, t \in made + 1 .. made + n : i < t => Before(NextTasks(n), i, t)
<1> DEFINE s == NextTasks(n)
<1>1. n \in Nat /\ made \in Nat /\ MaxTasks \in Nat
  BY BoundsAreNat
<1>2. \A i \in 1 .. n : made + i \in Tasks
  BY <1>1 DEF Tasks
<1>3. s \in Seq(Tasks) /\ Len(s) = n /\ \A i \in 1 .. n : s[i] = made + i
  BY <1>1, <1>2 DEF NextTasks
<1> HIDE DEF s
<1>4. \A x \in made + 1 .. made + n : x - made \in 1 .. n /\ s[x - made] = x
  <2> SUFFICES ASSUME NEW x \in made + 1 .. made + n PROVE x - made \in 1 .. n /\ s[x - made] = x
    OBVIOUS
  <2>1. x - made \in 1 .. n /\ made + (x - made) = x
    BY <1>1
  <2> QED
    BY <1>3, <2>1
<1>5. Range(s) = made + 1 .. made + n
  <2>1. \A x : x \in Range(s) <=> \E k \in 1 .. n : s[k] = x
    BY <1>3, Elements
  <2>2. \A k \in 1 .. n : made + k \in made + 1 .. made + n
    BY <1>1
  <2>3. \A x \in Range(s) : x \in made + 1 .. made + n
    BY <1>3, <2>1, <2>2
  <2>4. \A x \in made + 1 .. made + n : x \in Range(s)
    BY <1>4, <2>1
  <2> QED
    BY <2>3, <2>4
<1>6. Distinct(s)
  BY <1>1, <1>3 DEF Distinct
<1>7. ASSUME NEW i \in made + 1 .. made + n, NEW t \in made + 1 .. made + n, i < t
      PROVE  Before(s, i, t)
  <2>1. i - made < t - made
    BY <1>1, <1>7
  <2> QED
    BY <1>3, <1>4, <2>1 DEF Before
<1> QED
  BY <1>3, <1>5, <1>6, <1>7 DEF s

-----------------------------------------------------------------------------
(* The steps.                                                              *)

\* What the invariant says of the tasks, whatever the semaphore.
TasksInv == Counted /\ Apart /\ Refusals /\ Ordered /\ RunsInOrder

\* What it says of the thread, of shutdown and of the semaphore.
ThreadInv == Places /\ NoLostWakeUp /\ PrivateQueueEmptyOnSwap

\* Nothing has been enqueued.
LEMMA InitIInv == Init => IInv
<1> SUFFICES ASSUME Init PROVE IInv
  OBVIOUS
<1>1. <<>> \in Seq(Tasks) /\ Len(<<>>) = 0 /\ Range(<<>>) = {}
  BY EmptySequence, Elements
<1>2. TypeOK
  <2>1. made \in 0 .. MaxTasks /\ sem \in 0 .. MaxTokens
    BY BoundsAreNat DEF Init, MaxTokens
  <2> QED
    BY <1>1, <2>1 DEF Init, TypeOK
<1>3. Private = {} /\ Public = {} /\ Hand = {} /\ Done = {}
  BY <1>1 DEF Init, Private, Public, Hand, Done
<1>4. Counted
  <2>1. 1 .. made = {} /\ running = Null
    BY DEF Init
  <2>2. Private \cup Public \cup Hand \cup Done = 1 .. made
    BY <1>3, <2>1
  <2>3. Len(m_private_queue) = 0 /\ Len(m_public_queue) = 0 /\ Len(ran) = 0 /\ Len(dropped) = 0 /\ made = 0
    BY <1>1 DEF Init
  <2> QED
    BY <2>1, <2>2, <2>3 DEF Counted
<1>5. Apart /\ Refusals /\ Ordered
  <2>1. Distinct(<<>>)
    BY <1>1 DEF Distinct
  <2> QED
    BY <1>1, <1>3, <2>1 DEF Init, Apart, Refusals, Ordered
<1>6. RunsInOrder
  BY DEF RunsInOrder, Init
<1>7. ThreadInv
  BY DEF Init, ThreadInv, Places, NoLostWakeUp, PrivateQueueEmptyOnSwap, Null
<1> QED
  BY <1>2, <1>4, <1>5, <1>6, <1>7 DEF IInv, ThreadInv

\* A step that moves no task.
LEMMA QuietKeepsTasks ==
    ASSUME TasksInv, UNCHANGED <<queues, running, made, local, ran, dropped>>,
           pc' # "ended" => pc # "ended",
           m_abort => m_abort', m_private_atomic_abort => m_private_atomic_abort'
    PROVE  TasksInv'
<1> USE DEF TasksInv, queues
<1>1. Private' = Private /\ Public' = Public /\ Hand' = Hand /\ Done' = Done
  BY DEF Private, Public, Hand, Done
<1>2. Counted' /\ Apart'
  BY <1>1 DEF Counted, Apart, Distinct
<1>3. Refusals'
  BY <1>1 DEF Refusals
<1>4. Ordered'
  BY <1>1 DEF Ordered, Precedes, Before
<1>5. RunsInOrder'
  BY DEF RunsInOrder
<1> QED
  BY <1>2, <1>3, <1>4, <1>5

\* release, at most MaxTokens times.
LEMMA ReleaseWakes ==
    ASSUME sem \in 0 .. MaxTokens, Release
    PROVE  sem' \in 0 .. MaxTokens /\ sem' > 0
  BY DEF Release, MaxTokens

\* The semaphore, the flags, and tasks that begin.
LEMMA QuietKeepsIInv ==
    ASSUME IInv,
           \/ acquire \/ (run_or_abort /\ ~m_private_atomic_abort)
           \/ (\E c \in Clients : release_semaphore(c))
           \/ shutdown \/ shutdown_abort \/ shutdown_private_abort \/ shutdown_release
           \/ UNCHANGED vars
    PROVE  IInv'
<1>1. TasksInv'
  <2>1. UNCHANGED <<queues, running, made, local, ran, dropped>>
    BY DEF acquire, run_or_abort, release_semaphore, shutdown, shutdown_abort,
           shutdown_private_abort, shutdown_release, vars
  <2>2. pc' # "ended" => pc # "ended"
    BY DEF acquire, run_or_abort, release_semaphore, shutdown, shutdown_abort,
           shutdown_private_abort, shutdown_release, vars, Goes
  <2>3. m_abort => m_abort'
    BY DEF acquire, run_or_abort, release_semaphore, shutdown, shutdown_abort,
           shutdown_private_abort, shutdown_release, vars, aborts
  <2>4. m_private_atomic_abort => m_private_atomic_abort'
    BY DEF acquire, run_or_abort, release_semaphore, shutdown, shutdown_abort,
           shutdown_private_abort, shutdown_release, vars, aborts
  <2> QED
    BY <2>1, <2>2, <2>3, <2>4, QuietKeepsTasks DEF IInv, TasksInv
<1>2. ASSUME acquire PROVE TypeOK' /\ ThreadInv'
  BY <1>2 DEF IInv, TypeOK, ThreadInv, Places, NoLostWakeUp, PrivateQueueEmptyOnSwap, acquire, Goes,
              queues, aborts, MaxTokens
<1>3. ASSUME run_or_abort, ~m_private_atomic_abort PROVE TypeOK' /\ ThreadInv'
  BY <1>3 DEF IInv, TypeOK, ThreadInv, Places, NoLostWakeUp, PrivateQueueEmptyOnSwap, run_or_abort,
              Goes, queues, aborts
<1>4. ASSUME NEW c \in Clients, release_semaphore(c) PROVE TypeOK' /\ ThreadInv'
  <2>1. sem' \in 0 .. MaxTokens /\ sem' > 0
    BY <1>4, ReleaseWakes DEF release_semaphore, IInv, TypeOK
  <2> QED
    BY <1>4, <2>1 DEF IInv, TypeOK, ThreadInv, Places, NoLostWakeUp, PrivateQueueEmptyOnSwap,
                      release_semaphore, queues, aborts
<1>5. ASSUME shutdown PROVE TypeOK' /\ ThreadInv'
  BY <1>5 DEF IInv, TypeOK, ThreadInv, Places, NoLostWakeUp, PrivateQueueEmptyOnSwap, shutdown,
              ShutGoes, queues, aborts
<1>6. ASSUME shutdown_abort PROVE TypeOK' /\ ThreadInv'
  BY <1>6 DEF IInv, TypeOK, ThreadInv, Places, NoLostWakeUp, PrivateQueueEmptyOnSwap, shutdown_abort,
              ShutGoes, queues
<1>7. ASSUME shutdown_private_abort PROVE TypeOK' /\ ThreadInv'
  BY <1>7 DEF IInv, TypeOK, ThreadInv, Places, NoLostWakeUp, PrivateQueueEmptyOnSwap,
              shutdown_private_abort, ShutGoes, queues
<1>8. ASSUME shutdown_release PROVE TypeOK' /\ ThreadInv'
  <2>1. sem' \in 0 .. MaxTokens /\ sem' > 0
    BY <1>8, ReleaseWakes DEF shutdown_release, IInv, TypeOK
  <2> QED
    BY <1>8, <2>1 DEF IInv, TypeOK, ThreadInv, Places, NoLostWakeUp, PrivateQueueEmptyOnSwap,
                      shutdown_release, ShutGoes, queues, aborts
<1>9. ASSUME UNCHANGED vars PROVE TypeOK' /\ ThreadInv'
  BY <1>9 DEF IInv, TypeOK, ThreadInv, Places, NoLostWakeUp, PrivateQueueEmptyOnSwap, vars, queues, aborts
<1> QED
  BY <1>1, <1>2, <1>3, <1>4, <1>5, <1>6, <1>7, <1>8, <1>9 DEF IInv, TasksInv, ThreadInv

\* The thread takes what is in the public queue.
LEMMA DrainKeepsIInv ==
    ASSUME IInv, drain_queue
    PROVE  IInv'
<1> USE DEF IInv
<1>1. CASE UNCHANGED queues
  <2>1. TasksInv'
    BY <1>1, QuietKeepsTasks DEF drain_queue, TasksInv, aborts
  <2>2. TypeOK'
    BY <1>1 DEF drain_queue, TypeOK, queues, aborts
  <2>3. ThreadInv'
    BY <1>1 DEF drain_queue, ThreadInv, Places, NoLostWakeUp, PrivateQueueEmptyOnSwap, queues, aborts
  <2> QED
    BY <2>1, <2>2, <2>3 DEF TasksInv, ThreadInv
<1>2. CASE ~(UNCHANGED queues)
  <2>1. /\ pc \in {"drain", "woken"} /\ pc' = "pop" /\ ~m_abort
        /\ m_private_queue' = m_public_queue /\ m_public_queue' = m_private_queue
        /\ UNCHANGED <<aborts, sem, running, owes, made, local, ran, dropped, shut>>
    BY <1>2 DEF drain_queue
  <2>2. m_private_queue = <<>> /\ running = Null
    BY <2>1 DEF PrivateQueueEmptyOnSwap, Places
  <2>3. /\ Private' = Public /\ Public' = {} /\ Private = {} /\ Hand = {} /\ Hand' = {} /\ Done' = Done
        /\ Len(m_private_queue) = 0
    BY <2>1, <2>2, Elements, EmptySequence DEF Private, Public, Hand, Done, TypeOK
  <2>4. TypeOK'
    BY <2>1 DEF TypeOK, aborts
  <2>5. Counted'
    <3>1. Private' \cup Public' \cup Hand' \cup Done' = 1 .. made'
      BY <2>1, <2>3 DEF Counted
    <3>2. Len(m_public_queue) \in Nat /\ Len(ran) \in Nat /\ Len(dropped) \in Nat
      BY Elements DEF TypeOK
    <3> QED
      BY <2>1, <2>2, <2>3, <3>1, <3>2 DEF Counted
  <2>6. Apart' /\ Refusals'
    BY <2>1, <2>3 DEF Apart, Distinct, Refusals, aborts
  <2>7. Ordered'
    <3>1. \A i, t : Precedes(i, t) => Precedes(i, t)'
      <4>1. \A i, t : ~Before(m_private_queue, i, t)
        BY <2>3 DEF Before
      <4> QED
        BY <2>1, <2>3, <4>1 DEF Precedes, Before
    <3> QED
      BY <2>1, <2>3, <3>1 DEF Ordered
  <2>8. RunsInOrder'
    BY <2>1 DEF RunsInOrder
  <2>9. ThreadInv'
    BY <2>1, <2>2 DEF ThreadInv, Places, NoLostWakeUp, PrivateQueueEmptyOnSwap, aborts
  <2> QED
    BY <2>4, <2>5, <2>6, <2>7, <2>8, <2>9 DEF ThreadInv
<1> QED
  BY <1>1, <1>2

\* The thread takes the first task of its queue, or finds none.
LEMMA PopKeepsIInv ==
    ASSUME IInv, pop_front
    PROVE  IInv'
<1> USE DEF IInv
<1>1. CASE m_private_queue = <<>>
  <2>1. TasksInv'
    BY <1>1, QuietKeepsTasks DEF pop_front, Goes, TasksInv, aborts
  <2>2. TypeOK'
    BY <1>1 DEF pop_front, Goes, TypeOK, queues, aborts
  <2>3. ThreadInv'
    BY <1>1 DEF pop_front, Goes, ThreadInv, Places, NoLostWakeUp, PrivateQueueEmptyOnSwap, queues, aborts
  <2> QED
    BY <2>1, <2>2, <2>3 DEF TasksInv, ThreadInv
<1>2. CASE m_private_queue # <<>>
  <2> DEFINE h == Head(m_private_queue)
             q == Tail(m_private_queue)
  <2>1. /\ pc = "pop" /\ pc' = "popped" /\ running' = h /\ m_private_queue' = q
        /\ UNCHANGED <<m_public_queue, aborts, sem, owes, made, local, ran, dropped, shut>>
    BY <1>2 DEF pop_front, Goes
  <2>2. /\ h \in Tasks /\ q \in Seq(Tasks) /\ Len(q) = Len(m_private_queue) - 1
        /\ Private = {h} \cup Range(q)
        /\ Distinct(q) /\ h \notin Range(q)
        /\ \A i, t : Before(m_private_queue, i, t) => (i = h \/ Before(q, i, t)) /\ t # h
    BY <1>2, HeadAndTail DEF TypeOK, Private, Apart
  <2> HIDE DEF h, q
  <2>3. running = Null /\ h # Null
    BY <2>1, <2>2 DEF Places, Null, Tasks
  <2>4. /\ Private' = Range(q) /\ Public' = Public /\ Hand = {} /\ Hand' = {h} /\ Done' = Done
    BY <2>1, <2>3 DEF Private, Public, Hand, Done
  <2>5. TypeOK'
    BY <2>1, <2>2 DEF TypeOK, aborts
  <2>6. Counted'
    <3>1. Private' \cup Public' \cup Hand' \cup Done' = 1 .. made'
      BY <2>1, <2>2, <2>4 DEF Counted
    <3>2. /\ Len(m_private_queue) \in Nat /\ Len(m_public_queue) \in Nat
          /\ Len(ran) \in Nat /\ Len(dropped) \in Nat
      BY Elements DEF TypeOK
    <3> QED
      BY <2>1, <2>2, <2>3, <3>1, <3>2 DEF Counted
  <2>7. Apart'
    <3>1. Distinct(m_private_queue)' /\ Distinct(m_public_queue)'
      BY <2>1, <2>2 DEF Apart, Distinct
    <3> QED
      BY <2>2, <2>4, <3>1 DEF Apart
  <2>8. Refusals'
    BY <2>1, <2>4 DEF Refusals, aborts
  <2>9. Ordered'
    <3> SUFFICES ASSUME NEW t \in Private' \cup Public' \cup Hand', NEW i \in 1 .. t - 1,
                        ~(t \in local /\ i \notin local), i \notin Range(ran)
                 PROVE  Precedes(i, t)'
      BY <2>1 DEF Ordered
    <3>1. Precedes(i, t)
      BY <2>1, <2>2, <2>4 DEF Ordered
    <3>2. /\ Before(m_private_queue, i, t) => i \in Private /\ t \in Private
          /\ Before(m_public_queue, i, t) => i \in Public /\ t \in Public
      BY BeforeIsIn DEF TypeOK, Private, Public
    <3>3. CASE i \in Private /\ t \in Public
      BY <2>2, <2>4, <3>3 DEF Precedes
    <3>4. CASE Before(m_private_queue, i, t)
      <4>1. (i = h \/ Before(q, i, t)) /\ t \in Range(q)
        BY <2>2, <3>2, <3>4
      <4> QED
        BY <2>1, <2>4, <4>1 DEF Precedes, Before
    <3>5. CASE Before(m_public_queue, i, t)
      BY <2>1, <3>5 DEF Precedes, Before
    <3> QED
      BY <2>4, <3>1, <3>3, <3>4, <3>5 DEF Precedes
  <2>10. RunsInOrder'
    BY <2>1 DEF RunsInOrder
  <2>11. ThreadInv'
    BY <2>1, <2>3 DEF ThreadInv, Places, NoLostWakeUp, PrivateQueueEmptyOnSwap, aborts
  <2> QED
    BY <2>5, <2>6, <2>7, <2>8, <2>9, <2>10, <2>11 DEF ThreadInv
<1> QED
  BY <1>1, <1>2

\* A task that was taken when shutdown has begun is destroyed, and the thread ends.
LEMMA AbortKeepsIInv ==
    ASSUME IInv, run_or_abort, m_private_atomic_abort
    PROVE  IInv'
<1> USE DEF IInv
<1>1. /\ pc = "popped" /\ pc' = "ended" /\ running' = Null /\ dropped' = Append(dropped, running)
      /\ UNCHANGED <<queues, aborts, sem, owes, made, local, ran, shut>>
  BY DEF run_or_abort, Goes
<1>2. running \in Tasks /\ running # Null /\ m_abort
  BY <1>1 DEF TypeOK, Places
<1>3. /\ dropped' \in Seq(Tasks) /\ Len(dropped') = Len(dropped) + 1
      /\ Range(dropped') = Range(dropped) \cup {running}
  BY <1>1, <1>2, Appended DEF TypeOK
<1>4. Private' = Private /\ Public' = Public /\ Hand = {running} /\ Hand' = {} /\ Done' = Done \cup {running}
  BY <1>1, <1>2, <1>3 DEF Private, Public, Hand, Done, queues
<1>5. TypeOK'
  BY <1>1, <1>3 DEF TypeOK, queues, aborts
<1>6. Counted'
  <2>1. Private' \cup Public' \cup Hand' \cup Done' = 1 .. made'
    BY <1>1, <1>4 DEF Counted
  <2>2. /\ Len(m_private_queue) \in Nat /\ Len(m_public_queue) \in Nat
        /\ Len(ran) \in Nat /\ Len(dropped) \in Nat
    BY Elements DEF TypeOK
  <2> QED
    BY <1>1, <1>2, <1>3, <2>1, <2>2 DEF Counted, queues
<1>7. Apart'
  <2>1. Distinct(m_private_queue)' /\ Distinct(m_public_queue)'
    BY <1>1 DEF Apart, Distinct, queues
  <2> QED
    BY <1>4, <2>1 DEF Apart
<1>8. Refusals' /\ Ordered'
  BY <1>1, <1>2, <1>4 DEF Refusals, Ordered, aborts
<1>9. RunsInOrder'
  BY <1>1 DEF RunsInOrder
<1>10. ThreadInv'
  BY <1>1, <1>2 DEF ThreadInv, Places, NoLostWakeUp, PrivateQueueEmptyOnSwap, queues, aborts
<1> QED
  BY <1>5, <1>6, <1>7, <1>8, <1>9, <1>10 DEF ThreadInv

\* A task has run; all that were to run before it have.
LEMMA FinishKeepsIInv ==
    ASSUME IInv, finish_task
    PROVE  IInv'
<1> USE DEF IInv
<1>1. /\ pc = "task" /\ pc' = "pop" /\ running' = Null /\ ran' = Append(ran, running)
      /\ UNCHANGED <<queues, aborts, sem, owes, made, local, dropped, shut>>
  BY DEF finish_task, Goes
<1>2. running \in Tasks /\ running # Null
  BY <1>1 DEF TypeOK, Places
<1>3. /\ ran' \in Seq(Tasks) /\ Len(ran') = Len(ran) + 1
      /\ Range(ran') = Range(ran) \cup {running}
      /\ \A k \in 1 .. Len(ran) : ran'[k] = ran[k]
      /\ ran'[Len(ran) + 1] = running
  BY <1>1, <1>2, Appended DEF TypeOK
<1>4. Private' = Private /\ Public' = Public /\ Hand = {running} /\ Hand' = {} /\ Done' = Done \cup {running}
  BY <1>1, <1>2, <1>3 DEF Private, Public, Hand, Done, queues
<1>5. TypeOK'
  BY <1>1, <1>3 DEF TypeOK, queues, aborts
<1>6. Counted'
  <2>1. Private' \cup Public' \cup Hand' \cup Done' = 1 .. made'
    BY <1>1, <1>4 DEF Counted
  <2>2. /\ Len(m_private_queue) \in Nat /\ Len(m_public_queue) \in Nat
        /\ Len(ran) \in Nat /\ Len(dropped) \in Nat
    BY Elements DEF TypeOK
  <2> QED
    BY <1>1, <1>2, <1>3, <2>1, <2>2 DEF Counted, queues
<1>7. Apart'
  <2>1. Distinct(m_private_queue)' /\ Distinct(m_public_queue)'
    BY <1>1 DEF Apart, Distinct, queues
  <2> QED
    BY <1>4, <2>1 DEF Apart
<1>8. Refusals'
  BY <1>1, <1>4 DEF Refusals, aborts
<1>9. Ordered'
  <2>1. \A i, t : Precedes(i, t) => i = running \/ Precedes(i, t)'
    BY <1>1, <1>4 DEF Precedes, Before, queues
  <2> QED
    BY <1>1, <1>3, <1>4, <2>1 DEF Ordered
<1>10. RunsInOrder'
  <2>1. Len(ran) \in Nat /\ DOMAIN ran = 1 .. Len(ran) /\ DOMAIN ran' = 1 .. Len(ran) + 1
    BY <1>3 DEF TypeOK
  <2> SUFFICES ASSUME NEW k \in 1 .. Len(ran) + 1, NEW i \in 1 .. ran'[k] - 1,
                      ~(ran'[k] \in local /\ i \notin local)
               PROVE  \E h \in 1 .. k - 1 : ran'[h] = i
    BY <1>1, <2>1 DEF RunsInOrder
  <2>2. CASE k \in 1 .. Len(ran)
    <3>1. PICK h \in 1 .. k - 1 : ran[h] = i
      BY <1>3, <2>1, <2>2 DEF RunsInOrder
    <3>2. h \in 1 .. Len(ran)
      BY <2>1, <2>2
    <3> QED
      BY <1>3, <3>1, <3>2
  <2>3. CASE k = Len(ran) + 1
    <3>1. ran'[k] = running /\ k - 1 = Len(ran)
      BY <1>3, <2>1, <2>3
    <3>2. i \in Range(ran) \/ Precedes(i, running)
      BY <1>1, <1>4, <3>1 DEF Ordered
    <3>3. running \notin Private /\ running \notin Public
      BY <1>4 DEF Apart
    <3>4. ~Precedes(i, running)
      BY <3>3, BeforeIsIn DEF Precedes, TypeOK, Private, Public
    <3>5. PICK h \in 1 .. Len(ran) : ran[h] = i
      BY <3>2, <3>4, Elements DEF TypeOK
    <3> QED
      BY <1>3, <3>1, <3>5
  <2>4. k \in 1 .. Len(ran) \/ k = Len(ran) + 1
    BY <2>1
  <2> QED
    BY <2>2, <2>3, <2>4
<1>11. ThreadInv'
  BY <1>1, <1>2 DEF ThreadInv, Places, NoLostWakeUp, PrivateQueueEmptyOnSwap, queues, aborts
<1> QED
  BY <1>5, <1>6, <1>7, <1>8, <1>9, <1>10, <1>11 DEF ThreadInv

\* shutdown destroys what the queues hold once the thread is joined.
LEMMA JoinKeepsIInv ==
    ASSUME IInv, shutdown_join
    PROVE  IInv'
<1> USE DEF IInv
<1>1. /\ shut = "join" /\ shut' = "done" /\ pc \in {"none", "ended"}
      /\ dropped' = (dropped \o m_private_queue) \o m_public_queue
      /\ m_private_queue' = <<>> /\ m_public_queue' = <<>>
      /\ UNCHANGED <<aborts, sem, pc, running, owes, made, local, ran>>
  BY DEF shutdown_join, ShutGoes
<1>2. running = Null /\ m_abort /\ m_private_atomic_abort
  BY <1>1 DEF Places
<1>3. /\ dropped \o m_private_queue \in Seq(Tasks)
      /\ Len(dropped \o m_private_queue) = Len(dropped) + Len(m_private_queue)
      /\ Range(dropped \o m_private_queue) = Range(dropped) \cup Private
  BY Concat DEF TypeOK, Private
<1>4. /\ dropped' \in Seq(Tasks)
      /\ Len(dropped') = Len(dropped \o m_private_queue) + Len(m_public_queue)
      /\ Range(dropped') = Range(dropped \o m_private_queue) \cup Public
  BY <1>1, <1>3, Concat DEF TypeOK, Public
<1>5. <<>> \in Seq(Tasks) /\ Len(<<>>) = 0 /\ Range(<<>>) = {}
  BY EmptySequence, Elements
<1>6. /\ Private' = {} /\ Public' = {} /\ Hand = {} /\ Hand' = {}
      /\ Done' = Done \cup Private \cup Public
  BY <1>1, <1>2, <1>3, <1>4, <1>5 DEF Private, Public, Hand, Done
<1>7. TypeOK'
  BY <1>1, <1>4, <1>5 DEF TypeOK, aborts
<1>8. Counted'
  <2>1. Private' \cup Public' \cup Hand' \cup Done' = 1 .. made'
    BY <1>1, <1>6 DEF Counted
  <2>2. /\ Len(m_private_queue) \in Nat /\ Len(m_public_queue) \in Nat
        /\ Len(ran) \in Nat /\ Len(dropped) \in Nat
    BY Elements DEF TypeOK
  <2>3. Len(m_private_queue') = 0 /\ Len(m_public_queue') = 0
    BY <1>1, <1>5
  <2> QED
    BY <1>1, <1>2, <1>3, <1>4, <2>1, <2>2, <2>3 DEF Counted
<1>9. Apart' /\ Ordered'
  <2>1. Distinct(m_private_queue)' /\ Distinct(m_public_queue)'
    BY <1>1, <1>5 DEF Distinct
  <2> QED
    BY <1>6, <2>1 DEF Apart, Ordered
<1>10. Refusals'
  BY <1>1, <1>2, <1>6 DEF Refusals, aborts
<1>11. RunsInOrder'
  BY <1>1 DEF RunsInOrder
<1>12. ThreadInv'
  BY <1>1, <1>2 DEF ThreadInv, Places, NoLostWakeUp, PrivateQueueEmptyOnSwap, aborts
<1> QED
  BY <1>7, <1>8, <1>9, <1>10, <1>11, <1>12 DEF ThreadInv

\* The tasks of a call are new: they are in no place yet.
LEMMA NewTasks ==
    ASSUME IInv, NEW n \in 1 .. MaxSpan, Make(n)
    PROVE  /\ NextTasks(n) \in Seq(Tasks) /\ Len(NextTasks(n)) = n /\ n \in Nat
           /\ Range(NextTasks(n)) = made + 1 .. made + n
           /\ Distinct(NextTasks(n))
           /\ \A i, t \in made + 1 .. made + n : i < t => Before(NextTasks(n), i, t)
           /\ (made + 1 .. made + n) \cap (1 .. made) = {}
           /\ (made + 1 .. made + n) \subseteq Tasks
           /\ 1 .. made' = (1 .. made) \cup (made + 1 .. made + n)
           /\ made' \in 0 .. MaxTasks /\ made' = made + n
           /\ \A t \in 1 .. made : \A i \in 1 .. t - 1 : i \in 1 .. made
           /\ \A t \in made + 1 .. made + n : \A i \in 1 .. t - 1 :
                  i < t /\ (i \in 1 .. made \/ i \in made + 1 .. made + n)
           /\ \A k \in DOMAIN ran : ran[k] \in 1 .. made
           /\ /\ Len(m_private_queue) \in Nat /\ Len(m_public_queue) \in Nat
              /\ Len(ran) \in Nat /\ Len(dropped) \in Nat
<1>1. made \in 0 .. MaxTasks /\ MaxTasks \in Nat /\ n \in Nat /\ made' = made + n /\ made + n <= MaxTasks
  BY BoundsAreNat DEF IInv, TypeOK, Make
<1>2. /\ NextTasks(n) \in Seq(Tasks) /\ Len(NextTasks(n)) = n
      /\ Range(NextTasks(n)) = made + 1 .. made + n
      /\ Distinct(NextTasks(n))
      /\ \A i, t \in made + 1 .. made + n : i < t => Before(NextTasks(n), i, t)
  BY <1>1, SpanOfTasks
<1>3. /\ (made + 1 .. made + n) \cap (1 .. made) = {}
      /\ (made + 1 .. made + n) \subseteq Tasks
  BY <1>1 DEF Tasks
<1>4. 1 .. made' = (1 .. made) \cup (made + 1 .. made + n) /\ made' \in 0 .. MaxTasks
  BY <1>1
<1>5. \A t \in 1 .. made : \A i \in 1 .. t - 1 : i \in 1 .. made
  BY <1>1
<1>6. \A t \in made + 1 .. made + n : \A i \in 1 .. t - 1 :
          i < t /\ (i \in 1 .. made \/ i \in made + 1 .. made + n)
  BY <1>1
<1>7. \A k \in DOMAIN ran : ran[k] \in 1 .. made
  <2>1. \A k \in DOMAIN ran : ran[k] \in Range(ran)
    BY DEF Range
  <2> QED
    BY <2>1 DEF IInv, Counted, Done
<1>8. /\ Len(m_private_queue) \in Nat /\ Len(m_public_queue) \in Nat
      /\ Len(ran) \in Nat /\ Len(dropped) \in Nat
  BY Elements DEF IInv, TypeOK
<1> QED
  BY <1>1, <1>2, <1>3, <1>4, <1>5, <1>6, <1>7, <1>8

\* Tasks that are refused are destroyed, in any order with the others.
LEMMA RefusalKeepsTasks ==
    ASSUME IInv, NEW n \in 1 .. MaxSpan, Make(n), m_abort,
           dropped' = dropped \o NextTasks(n),
           \/ local' = local
           \/ m_private_atomic_abort /\ local' = local \cup (made + 1 .. made + n),
           UNCHANGED <<queues, aborts, pc, running, ran>>
    PROVE  TasksInv' /\ dropped' \in Seq(Tasks) /\ local' \subseteq Tasks
<1> USE DEF IInv
<1> DEFINE S == made + 1 .. made + n
<1>1. dropped' \in Seq(Tasks) /\ Len(dropped') = Len(dropped) + n /\ Range(dropped') = Range(dropped) \cup S
  <2>1. NextTasks(n) \in Seq(Tasks) /\ Len(NextTasks(n)) = n /\ Range(NextTasks(n)) = S
    BY NewTasks
  <2>2. dropped \in Seq(Tasks)
    BY DEF TypeOK
  <2>3. /\ dropped \o NextTasks(n) \in Seq(Tasks)
        /\ Len(dropped \o NextTasks(n)) = Len(dropped) + Len(NextTasks(n))
        /\ Range(dropped \o NextTasks(n)) = Range(dropped) \cup Range(NextTasks(n))
    BY ONLY <2>1, <2>2, Concat
  <2> QED
    BY <2>1, <2>3
<1>2. local' \subseteq local \cup S /\ local \subseteq local' /\ (~m_private_atomic_abort => local' = local)
  OBVIOUS
<1>3. S \cap (1 .. made) = {} /\ S \subseteq Tasks /\ 1 .. made' = (1 .. made) \cup S
  BY NewTasks
<1> HIDE DEF S
<1>4. Private' = Private /\ Public' = Public /\ Hand' = Hand /\ Done' = Done \cup S
  BY <1>1 DEF Private, Public, Hand, Done, queues
<1>5. Counted'
  <2>1. Private' \cup Public' \cup Hand' \cup Done' = 1 .. made'
    BY <1>3, <1>4 DEF Counted
  <2>2. /\ Len(m_private_queue) \in Nat /\ Len(m_public_queue) \in Nat
        /\ Len(ran) \in Nat /\ Len(dropped) \in Nat /\ n \in Nat /\ made' = made + n /\ made \in Nat
    BY NewTasks DEF TypeOK
  <2> DEFINE b == IF running = Null THEN 0 ELSE 1
  <2>3. /\ Len(m_private_queue) + Len(m_public_queue) + b + Len(ran) + Len(dropped) = made
        /\ b \in Nat
    BY DEF Counted
  <2>4. Len(m_private_queue) + Len(m_public_queue) + b + Len(ran) + Len(dropped') = made'
    <3> HIDE DEF b
    <3>1. Len(dropped') = Len(dropped) + n
      BY <1>1
    <3> QED
      BY ONLY <2>2, <2>3, <3>1
  <2> QED
    BY <2>1, <2>4 DEF Counted, queues
<1>6. Apart'
  <2>1. Distinct(m_private_queue)' /\ Distinct(m_public_queue)'
    BY DEF Apart, Distinct, queues
  <2> QED
    BY <1>3, <1>4, <2>1 DEF Apart, Counted
<1>7. Refusals'
  <2>1. ~m_private_atomic_abort => Range(dropped') \cap local' = {}
    BY <1>1, <1>2, <1>3 DEF Refusals
  <2>2. Public' \cap local' = {} /\ local' \subseteq 1 .. made'
    BY <1>2, <1>3, <1>4 DEF Refusals, Counted
  <2> QED
    BY <2>1, <2>2 DEF Refusals, aborts
<1>8. \A t \in 1 .. made : t \in local' <=> t \in local
  BY <1>2, <1>3
<1>9. Ordered'
  <2>1. \A i, t : Precedes(i, t) => Precedes(i, t)'
    BY <1>4 DEF Precedes, Before, queues
  <2>2. \A t \in Private' \cup Public' \cup Hand' :
           t \in 1 .. made /\ \A i \in 1 .. t - 1 : i \in 1 .. made
    BY <1>4, NewTasks DEF Counted
  <2> QED
    BY <1>4, <1>8, <2>1, <2>2 DEF Ordered
<1>10. RunsInOrder'
  BY <1>8, NewTasks DEF RunsInOrder
<1>11. local' \subseteq Tasks
  BY <1>2, <1>3 DEF TypeOK
<1> QED
  BY <1>1, <1>5, <1>6, <1>7, <1>9, <1>10, <1>11 DEF TasksInv

\* The running task adds to the private queue, or is refused.
LEMMA LocalKeepsIInv ==
    ASSUME IInv, NEW n \in 1 .. MaxSpan, enqueue_local(n)
    PROVE  IInv'
<1> USE DEF IInv
<1> DEFINE S == made + 1 .. made + n
           s == NextTasks(n)
<1>0. /\ pc = "task" /\ Make(n) /\ local' = local \cup S
      /\ UNCHANGED <<m_public_queue, aborts, sem, pc, running, owes, ran, shut>>
  BY DEF enqueue_local
<1>1. CASE m_private_atomic_abort
  <2>1. dropped' = dropped \o s /\ UNCHANGED m_private_queue
    BY <1>1 DEF enqueue_local
  <2>2. m_abort
    BY <1>1 DEF Places
  <2>3. TasksInv' /\ dropped' \in Seq(Tasks) /\ local' \subseteq Tasks
    BY <1>0, <1>1, <2>1, <2>2, RefusalKeepsTasks DEF queues
  <2>4. TypeOK'
    BY <1>0, <2>1, <2>3, NewTasks DEF TypeOK, aborts
  <2>5. ThreadInv'
    BY <1>0, <2>1 DEF ThreadInv, Places, NoLostWakeUp, PrivateQueueEmptyOnSwap, aborts
  <2> QED
    BY <2>3, <2>4, <2>5 DEF TasksInv, ThreadInv
<1>2. CASE ~m_private_atomic_abort
  <2>1. m_private_queue' = m_private_queue \o s /\ UNCHANGED dropped
    BY <1>2 DEF enqueue_local
  <2>2. S \cap (1 .. made) = {} /\ S \subseteq Tasks /\ 1 .. made' = (1 .. made) \cup S
    BY <1>0, NewTasks
  <2>3. /\ m_private_queue' \in Seq(Tasks) /\ Len(m_private_queue') = Len(m_private_queue) + n
        /\ Range(m_private_queue') = Private \cup S
        /\ Private \cap S = {} => Distinct(m_private_queue')
        /\ \A i, t : Before(m_private_queue, i, t) \/ Before(s, i, t) => Before(m_private_queue', i, t)
        /\ \A i \in Private, t \in S : Before(m_private_queue', i, t)
    <3>1. s \in Seq(Tasks) /\ Len(s) = n /\ Range(s) = S /\ Distinct(s)
      BY <1>0, NewTasks
    <3>2. m_private_queue \in Seq(Tasks) /\ Distinct(m_private_queue)
      BY DEF TypeOK, Apart
    <3> HIDE DEF s, S
    <3> QED
      BY <2>1, <3>1, <3>2, Concat DEF Private
  <2>4. \A i, t \in S : i < t => Before(s, i, t)
    BY <1>0, NewTasks
  <2> HIDE DEF S, s
  <2>5. Private' = Private \cup S /\ Public' = Public /\ Hand' = Hand /\ Done' = Done
    BY <1>0, <2>1, <2>3 DEF Private, Public, Hand, Done
  <2>6. Counted'
    <3>1. Private' \cup Public' \cup Hand' \cup Done' = 1 .. made'
      BY <2>2, <2>5 DEF Counted
    <3>2. /\ Len(m_private_queue) \in Nat /\ Len(m_public_queue) \in Nat
          /\ Len(ran) \in Nat /\ Len(dropped) \in Nat /\ n \in Nat /\ made' = made + n /\ made \in Nat
      BY <1>0, NewTasks DEF TypeOK
    <3>3. running # Null
      BY <1>0 DEF Places
    <3>4. Len(m_private_queue) + Len(m_public_queue) + 1 + Len(ran) + Len(dropped) = made
      BY <3>3 DEF Counted
    <3>5. Len(m_private_queue') + Len(m_public_queue) + 1 + Len(ran) + Len(dropped) = made'
      BY <2>3, <3>2, <3>4
    <3> QED
      BY <1>0, <2>1, <3>1, <3>3, <3>5 DEF Counted
  <2>7. Apart'
    <3>1. Distinct(m_private_queue')
      BY <2>2, <2>3 DEF Counted
    <3>2. Distinct(m_public_queue)'
      BY <1>0 DEF Apart, Distinct
    <3> QED
      BY <2>2, <2>5, <3>1, <3>2 DEF Apart, Counted
  <2>8. Refusals'
    <3>1. Range(dropped') \cap local' = {} /\ Public' \cap local' = {} /\ local' \subseteq 1 .. made'
      BY <1>0, <1>2, <2>1, <2>2, <2>5 DEF Refusals, Counted, Done
    <3> QED
      BY <1>0, <2>1, <3>1 DEF Refusals, aborts
  <2>9. \A t \in 1 .. made : t \in local' <=> t \in local
    BY <1>0, <2>2
  <2>10. Ordered'
    <3> SUFFICES ASSUME NEW t \in Private' \cup Public' \cup Hand', NEW i \in 1 .. t - 1,
                        ~(t \in local' /\ i \notin local'), i \notin Range(ran)
                 PROVE  Precedes(i, t)'
      BY <1>0 DEF Ordered
    <3>1. CASE t \in 1 .. made
      <4>1. i \in 1 .. made /\ t \in Private \cup Public \cup Hand
        BY <1>0, <2>2, <2>5, <3>1, NewTasks
      <4>2. Precedes(i, t)
        BY <1>0, <2>9, <3>1, <4>1 DEF Ordered
      <4> QED
        BY <1>0, <2>3, <2>5, <4>2 DEF Precedes
    <3>2. CASE t \in S
      <4>1. i < t /\ (i \in 1 .. made \/ i \in S)
        BY <1>0, <3>2, NewTasks DEF S
      <4>2. CASE i \in S
        BY <2>3, <2>4, <3>2, <4>1, <4>2 DEF Precedes
      <4>3. CASE i \in 1 .. made
        <5>1. i \in local
          BY <1>0, <2>9, <3>2, <4>3
        <5>2. i \in Private \cup Hand
          BY <1>2, <4>3, <5>1 DEF Refusals, Counted, Done
        <5> QED
          BY <2>3, <2>5, <3>2, <5>2 DEF Precedes
      <4> QED
        BY <4>1, <4>2, <4>3
    <3> QED
      BY <2>5, <3>1, <3>2 DEF Counted
  <2>11. RunsInOrder'
    BY <1>0, <2>9, NewTasks DEF RunsInOrder
  <2>12. TypeOK'
    <3>1. local' \subseteq Tasks /\ made' \in 0 .. MaxTasks
      BY <1>0, <2>2, NewTasks DEF TypeOK
    <3> QED
      BY <1>0, <2>1, <2>3, <3>1 DEF TypeOK, aborts
  <2>13. ThreadInv'
    BY <1>0 DEF ThreadInv, Places, NoLostWakeUp, PrivateQueueEmptyOnSwap, aborts
  <2> QED
    BY <2>6, <2>7, <2>8, <2>10, <2>11, <2>12, <2>13 DEF ThreadInv
<1> QED
  BY <1>1, <1>2

\* Another thread adds to the public queue, or is refused.
LEMMA ForeignKeepsIInv ==
    ASSUME IInv, NEW n \in 1 .. MaxSpan, NEW c \in Clients, enqueue_foreign(c, n)
    PROVE  IInv'
<1> USE DEF IInv
<1> DEFINE S == made + 1 .. made + n
           s == NextTasks(n)
<1>0. /\ Make(n)
      /\ UNCHANGED <<m_private_queue, aborts, sem, running, local, ran, shut>>
  BY DEF enqueue_foreign
<1>1. CASE m_abort
  <2>1. dropped' = dropped \o s /\ UNCHANGED <<m_public_queue, pc, owes>>
    BY <1>1 DEF enqueue_foreign
  <2>2. TasksInv' /\ dropped' \in Seq(Tasks)
    BY <1>0, <1>1, <2>1, RefusalKeepsTasks DEF queues
  <2>3. TypeOK'
    BY <1>0, <2>1, <2>2, NewTasks DEF TypeOK, aborts
  <2>4. ThreadInv'
    BY <1>0, <2>1 DEF ThreadInv, Places, NoLostWakeUp, PrivateQueueEmptyOnSwap, aborts
  <2> QED
    BY <2>2, <2>3, <2>4 DEF TasksInv, ThreadInv
<1>2. CASE ~m_abort
  <2>1. /\ m_public_queue' = m_public_queue \o s /\ UNCHANGED dropped
        /\ pc' = IF pc = "none" THEN "drain" ELSE pc
        /\ owes' = IF pc # "none" /\ m_public_queue = <<>> THEN owes \cup {c} ELSE owes
    BY <1>2 DEF enqueue_foreign
  <2>2. S \cap (1 .. made) = {} /\ S \subseteq Tasks /\ 1 .. made' = (1 .. made) \cup S
    BY <1>0, NewTasks
  <2>3. /\ m_public_queue' \in Seq(Tasks) /\ Len(m_public_queue') = Len(m_public_queue) + n
        /\ Range(m_public_queue') = Public \cup S
        /\ Public \cap S = {} => Distinct(m_public_queue')
        /\ \A i, t : Before(m_public_queue, i, t) \/ Before(s, i, t) => Before(m_public_queue', i, t)
        /\ \A i \in Public, t \in S : Before(m_public_queue', i, t)
    <3>1. s \in Seq(Tasks) /\ Len(s) = n /\ Range(s) = S /\ Distinct(s)
      BY <1>0, NewTasks
    <3>2. m_public_queue \in Seq(Tasks) /\ Distinct(m_public_queue)
      BY DEF TypeOK, Apart
    <3> HIDE DEF s, S
    <3> QED
      BY <2>1, <3>1, <3>2, Concat DEF Public
  <2>4. \A i, t \in S : i < t => Before(s, i, t)
    BY <1>0, NewTasks
  <2> HIDE DEF S, s
  <2>5. Private' = Private /\ Public' = Public \cup S /\ Hand' = Hand /\ Done' = Done
    BY <1>0, <2>1, <2>3 DEF Private, Public, Hand, Done
  <2>6. Counted'
    <3>1. Private' \cup Public' \cup Hand' \cup Done' = 1 .. made'
      BY <2>2, <2>5 DEF Counted
    <3>2. /\ Len(m_private_queue) \in Nat /\ Len(m_public_queue) \in Nat
          /\ Len(ran) \in Nat /\ Len(dropped) \in Nat /\ n \in Nat /\ made' = made + n /\ made \in Nat
      BY <1>0, NewTasks DEF TypeOK
    <3> DEFINE b == IF running = Null THEN 0 ELSE 1
    <3>3. /\ Len(m_private_queue) + Len(m_public_queue) + b + Len(ran) + Len(dropped) = made
          /\ b \in Nat
      BY DEF Counted
    <3>4. Len(m_private_queue) + Len(m_public_queue') + b + Len(ran) + Len(dropped) = made'
      <4> HIDE DEF b
      <4> QED
        BY <2>3, <3>2, <3>3
    <3> QED
      BY <1>0, <2>1, <3>1, <3>4 DEF Counted
  <2>7. Apart'
    <3>1. Distinct(m_public_queue')
      BY <2>2, <2>3 DEF Counted
    <3>2. Distinct(m_private_queue)'
      BY <1>0 DEF Apart, Distinct
    <3> QED
      BY <2>2, <2>5, <3>1, <3>2 DEF Apart, Counted
  <2>8. Refusals' /\ Range(dropped) = {}
    <3>1. Public' \cap local' = {} /\ local' \subseteq 1 .. made'
      BY <1>0, <2>2, <2>5 DEF Refusals
    <3>2. dropped = <<>>
      BY <1>2 DEF Refusals
    <3> QED
      BY <1>0, <2>1, <3>1, <3>2, Elements DEF Refusals, aborts, TypeOK
  <2>9. Ordered'
    <3> SUFFICES ASSUME pc' # "ended",
                        NEW t \in Private' \cup Public' \cup Hand', NEW i \in 1 .. t - 1,
                        ~(t \in local /\ i \notin local), i \notin Range(ran)
                 PROVE  Precedes(i, t)'
      BY <1>0 DEF Ordered
    <3>1. CASE t \in 1 .. made
      <4>1. i \in 1 .. made /\ t \in Private \cup Public \cup Hand
        BY <1>0, <2>2, <2>5, <3>1, NewTasks
      <4>2. Precedes(i, t)
        BY <2>1, <3>1, <4>1 DEF Ordered
      <4> QED
        BY <1>0, <2>3, <2>5, <4>2 DEF Precedes
    <3>2. CASE t \in S
      <4>1. i < t /\ (i \in 1 .. made \/ i \in S)
        BY <1>0, <3>2, NewTasks DEF S
      <4>2. CASE i \in S
        BY <2>3, <2>4, <3>2, <4>1, <4>2 DEF Precedes
      <4>3. CASE i \in 1 .. made
        <5>1. i \in Private \cup Public \cup Hand
          BY <2>8, <4>3 DEF Counted, Done
        <5> QED
          BY <2>3, <2>5, <3>2, <5>1 DEF Precedes
      <4> QED
        BY <4>1, <4>2, <4>3
    <3> QED
      BY <2>5, <3>1, <3>2 DEF Counted
  <2>10. RunsInOrder'
    BY <1>0 DEF RunsInOrder
  <2>11. TypeOK'
    <3>1. made' \in 0 .. MaxTasks
      BY <1>0, NewTasks
    <3> QED
      BY <1>0, <2>1, <2>3, <3>1 DEF TypeOK, aborts
  <2>12. ThreadInv'
    <3>0. shut # "done"
      BY <1>2 DEF Places
    <3>1. Places' /\ PrivateQueueEmptyOnSwap'
      BY <1>0, <2>1, <3>0 DEF Places, PrivateQueueEmptyOnSwap, aborts
    <3>2. NoLostWakeUp'
      BY <1>0, <2>1 DEF NoLostWakeUp, aborts
    <3> QED
      BY <3>1, <3>2 DEF ThreadInv
  <2> QED
    BY <2>6, <2>7, <2>8, <2>9, <2>10, <2>11, <2>12 DEF ThreadInv
<1> QED
  BY <1>1, <1>2

\* Every step keeps the inductive invariant.
LEMMA NextKeepsIInv == IInv /\ [Next]_vars => IInv'
<1> SUFFICES ASSUME IInv, [Next]_vars PROVE IInv'
  OBVIOUS
<1>1. CASE ThreadStep
  <2>1. CASE run_or_abort
    BY <2>1, AbortKeepsIInv, QuietKeepsIInv
  <2> QED
    BY <1>1, <2>1, DrainKeepsIInv, PopKeepsIInv, FinishKeepsIInv, QuietKeepsIInv DEF ThreadStep
<1>2. ASSUME NEW n \in 1 .. MaxSpan, enqueue_local(n) \/ \E c \in Clients : enqueue_foreign(c, n)
      PROVE  IInv'
  BY <1>2, LocalKeepsIInv, ForeignKeepsIInv
<1>3. CASE shutdown \/ ShutdownStep
  BY <1>3, JoinKeepsIInv, QuietKeepsIInv DEF ShutdownStep
<1>4. CASE (\E c \in Clients : release_semaphore(c)) \/ UNCHANGED vars
  BY <1>4, QuietKeepsIInv
<1> QED
  BY <1>1, <1>2, <1>3, <1>4 DEF Next

\* The inductive invariant is one.
LEMMA IInvHolds == Spec => []IInv
<1>1. Init => IInv
  BY InitIInv
<1>2. IInv /\ [Next]_vars => IInv'
  BY NextKeepsIInv
<1> QED
  BY <1>1, <1>2, PTL DEF Spec

\* The number of tasks, and the set of them, make up the list of all of them.
LEMMA CountedIsEverywhere == IInv => EachTaskOnce
<1> SUFFICES ASSUME IInv PROVE EachTaskOnce
  OBVIOUS
<1>1. /\ m_private_queue \in Seq(Tasks) /\ m_public_queue \in Seq(Tasks)
      /\ ran \in Seq(Tasks) /\ dropped \in Seq(Tasks)
  BY DEF IInv, TypeOK
<1>2. /\ InHand \in Seq(Tasks) /\ Len(InHand) = (IF running = Null THEN 0 ELSE 1)
      /\ Range(InHand) = Hand
  <2>1. CASE running = Null
    BY <2>1, EmptySequence, Elements DEF InHand, Hand
  <2>2. CASE running # Null
    <3>1. running \in Tasks /\ InHand = <<running>>
      BY <2>2 DEF IInv, TypeOK, InHand
    <3>2. InHand \in Seq(Tasks) /\ Len(InHand) = 1 /\ InHand[1] = running
      BY <3>1
    <3>3. Range(InHand) = {running}
      BY <3>2, Elements
    <3> QED
      BY <2>2, <3>2, <3>3 DEF Hand
  <2> QED
    BY <2>1, <2>2
<1> DEFINE a == m_private_queue \o m_public_queue
           b == a \o InHand
           d == b \o ran
           e == d \o dropped
<1>3. a \in Seq(Tasks) /\ Len(a) = Len(m_private_queue) + Len(m_public_queue) /\ Range(a) = Private \cup Public
  BY <1>1, Concat DEF Private, Public
<1> HIDE DEF a
<1>4. b \in Seq(Tasks) /\ Len(b) = Len(a) + Len(InHand) /\ Range(b) = Range(a) \cup Hand
  BY <1>2, <1>3, Concat
<1> HIDE DEF b
<1>5. d \in Seq(Tasks) /\ Len(d) = Len(b) + Len(ran) /\ Range(d) = Range(b) \cup Range(ran)
  BY <1>1, <1>4, Concat
<1> HIDE DEF d
<1>6. e \in Seq(Tasks) /\ Len(e) = Len(d) + Len(dropped) /\ Range(e) = Range(d) \cup Range(dropped)
  BY <1>1, <1>5, Concat
<1> HIDE DEF e
<1>7. Everywhere = e
  BY DEF Everywhere, a, b, d, e
<1>8. Range(e) = 1 .. made
  BY <1>3, <1>4, <1>5, <1>6 DEF IInv, Counted, Done
<1>9. Len(e) = made
  BY <1>2, <1>3, <1>4, <1>5, <1>6 DEF IInv, Counted
<1> QED
  BY <1>7, <1>8, <1>9 DEF EachTaskOnce

\* However many clients and tasks there are: every task is in one place at every
\* moment and done once, the thread that waits is going to be woken, and the
\* private queue is empty when the public one is taken.
THEOREM TasksAreKept == Spec => []Inv
<1>1. IInv => Inv
  BY CountedIsEverywhere DEF IInv, Inv
<1> QED
  BY <1>1, IInvHolds, PTL

\* However many clients and tasks there are, tasks run in the order in which they
\* were enqueued, but for those of the executor's own tasks, which come before
\* the ones in the public queue.
THEOREM TasksRunInOrder == Spec => []RunsInOrder
<1>1. IInv => RunsInOrder
  BY DEF IInv
<1> QED
  BY <1>1, IInvHolds, PTL

-----------------------------------------------------------------------------
(* The worker thread is an executor.                                       *)

\* A step of the tasks, as the abstract executor sees it.
LEMMA TasksMoveAsAllowed ==
    ASSUME \A t \in Tasks : TaskState'[t] # TaskState[t]
                               => <<TaskState[t], TaskState'[t]>> \in E!Allowed(Phase)
    PROVE  E!TasksMove
  BY DEF E!TasksMove, E!States, TaskState

\* The queues, the semaphore and the flags are not seen.
LEMMA HiddenSteps ==
    ASSUME IInv,
           \/ drain_queue \/ acquire \/ pop_front \/ (\E c \in Clients : release_semaphore(c))
           \/ shutdown_abort \/ shutdown_private_abort \/ shutdown_release \/ UNCHANGED vars
    PROVE  UNCHANGED E!vars
<1>1. Phase' = Phase
  BY DEF Phase, drain_queue, acquire, pop_front, release_semaphore, shutdown_abort,
         shutdown_private_abort, shutdown_release, ShutGoes, vars
<1>2. made' = made /\ ran' = ran /\ dropped' = dropped
  BY DEF drain_queue, acquire, pop_front, release_semaphore, shutdown_abort,
         shutdown_private_abort, shutdown_release, vars
<1>3. (pc = "task" <=> pc' = "task") /\ (pc = "task" => running' = running)
  BY DEF drain_queue, acquire, pop_front, release_semaphore, shutdown_abort,
         shutdown_private_abort, shutdown_release, vars, Goes
<1>4. TaskState' = TaskState
  BY <1>2, <1>3 DEF TaskState
<1> QED
  BY <1>1, <1>4 DEF E!vars

\* A task that was taken is run, or destroyed when shutdown has begun.
LEMMA BeginIsWork ==
    ASSUME IInv, run_or_abort
    PROVE  E!Work
<1> USE DEF IInv
<1>1. Phase' = Phase
  BY DEF run_or_abort, Phase
<1>2. pc = "popped" /\ running \in Tasks /\ shut # "done"
  BY DEF run_or_abort, Goes, Places, TypeOK
<1>3. running \notin Range(ran) /\ running \notin Range(dropped) /\ running <= made
  <2>1. running \in Hand
    BY <1>2 DEF Places, Hand
  <2> QED
    BY <2>1 DEF Apart, Counted, Done
<1> SUFFICES ASSUME NEW t \in Tasks, TaskState'[t] # TaskState[t]
             PROVE  <<TaskState[t], TaskState'[t]>> \in E!Allowed(Phase)
  BY <1>1, TasksMoveAsAllowed DEF E!Work
<1>4. CASE m_private_atomic_abort
  <2>1. Range(dropped') = Range(dropped) \cup {running} /\ pc' = "ended" /\ ran' = ran /\ made' = made
    <3>1. dropped' = Append(dropped, running) /\ pc' = "ended" /\ ran' = ran /\ made' = made
      BY <1>4 DEF run_or_abort, Goes
    <3>2. Range(Append(dropped, running)) = Range(dropped) \cup {running}
      BY <1>2, Appended DEF TypeOK
    <3> QED
      BY <3>1, <3>2
  <2>2. t = running /\ TaskState[t] = "pending" /\ TaskState'[t] = "dropped"
    BY <1>2, <1>3, <2>1 DEF TaskState
  <2>3. Phase = "closing"
    BY <1>2, <1>4 DEF Places, Phase, TypeOK
  <2> QED
    BY <2>2, <2>3 DEF E!Allowed, E!Destruction
<1>5. CASE ~m_private_atomic_abort
  <2>1. UNCHANGED <<dropped, running, ran, made>> /\ pc' = "task"
    BY <1>5 DEF run_or_abort, Goes
  <2>2. t = running /\ TaskState[t] = "pending" /\ TaskState'[t] = "running"
    BY <1>2, <1>3, <2>1 DEF TaskState
  <2>3. Phase \in {"open", "closing"}
    BY <1>2 DEF Phase
  <2> QED
    BY <2>2, <2>3 DEF E!Allowed, E!Life
<1> QED
  BY <1>4, <1>5

\* The running task ends.
LEMMA FinishIsWork ==
    ASSUME IInv, finish_task
    PROVE  E!Work
<1> USE DEF IInv
<1>1. Phase' = Phase
  BY DEF finish_task, Phase
<1>2. /\ pc = "task" /\ pc' = "pop" /\ running \in Tasks /\ running \in Hand /\ shut # "done"
      /\ dropped' = dropped /\ made' = made
  BY DEF finish_task, Goes, Places, TypeOK, Hand
<1>3. running \notin Range(ran) /\ running \notin Range(dropped)
  BY <1>2 DEF Apart, Done
<1>4. Range(ran') = Range(ran) \cup {running}
  BY <1>2, Appended DEF finish_task, TypeOK
<1> SUFFICES ASSUME NEW t \in Tasks, TaskState'[t] # TaskState[t]
             PROVE  <<TaskState[t], TaskState'[t]>> \in E!Allowed(Phase)
  BY <1>1, TasksMoveAsAllowed DEF E!Work
<1>5. t = running /\ TaskState[t] = "running" /\ TaskState'[t] = "ran"
  BY <1>2, <1>3, <1>4 DEF TaskState
<1>6. Phase \in {"open", "closing"}
  BY <1>2 DEF Phase
<1> QED
  BY <1>5, <1>6 DEF E!Allowed, E!Life

\* enqueue accepts tasks, or destroys them once the flag it reads is set.
LEMMA EnqueueIsWork ==
    ASSUME IInv, NEW n \in 1 .. MaxSpan,
           enqueue_local(n) \/ \E c \in Clients : enqueue_foreign(c, n)
    PROVE  E!Work
<1> USE DEF IInv
<1> DEFINE S == made + 1 .. made + n
<1>0. Make(n) /\ UNCHANGED <<running, ran, shut>>
  BY DEF enqueue_local, enqueue_foreign
<1>1. /\ Phase' = Phase /\ (pc = "task" <=> pc' = "task")
  BY <1>0 DEF Phase, enqueue_local, enqueue_foreign
<1>2. \/ m_abort /\ dropped' = dropped \o NextTasks(n)
      \/ shut # "done" /\ dropped' = dropped
  BY DEF enqueue_local, enqueue_foreign, Places
<1>3. Range(dropped \o NextTasks(n)) = Range(dropped) \cup S
  <2>1. NextTasks(n) \in Seq(Tasks) /\ Range(NextTasks(n)) = S
    BY <1>0, NewTasks
  <2> QED
    BY <2>1, Concat DEF TypeOK
<1>4. /\ S \cap (1 .. made) = {}
      /\ \A t \in S : ~(t <= made) /\ t <= made'
      /\ \A t \in Tasks : t <= made' <=> (t <= made \/ t \in S)
  BY <1>0, BoundsAreNat DEF Make, Tasks, TypeOK
<1> HIDE DEF S
<1>5. S \cap (Range(ran) \cup Range(dropped) \cup Hand) = {}
  BY <1>4 DEF Counted, Done
<1> SUFFICES ASSUME NEW t \in Tasks, TaskState'[t] # TaskState[t]
             PROVE  <<TaskState[t], TaskState'[t]>> \in E!Allowed(Phase)
  BY <1>1, TasksMoveAsAllowed DEF E!Work
<1>6. t \in S
  BY <1>0, <1>1, <1>2, <1>3, <1>4 DEF TaskState
<1>7. TaskState[t] = "none"
  <2>1. ~(t = running /\ pc = "task")
    BY <1>5, <1>6 DEF Hand, Places
  <2> QED
    BY <1>4, <1>5, <1>6, <2>1 DEF TaskState
<1>8. CASE m_abort /\ dropped' = dropped \o NextTasks(n)
  <2>1. TaskState'[t] = "dropped"
    BY <1>0, <1>3, <1>5, <1>6, <1>8 DEF TaskState
  <2>2. Phase \in {"closing", "closed"}
    BY <1>8 DEF Phase, Places
  <2> QED
    BY <1>7, <2>1, <2>2 DEF E!Allowed, E!Refusal
<1>9. CASE shut # "done" /\ dropped' = dropped
  <2>1. ~(t = running' /\ pc' = "task")
    BY <1>0, <1>1, <1>5, <1>6 DEF Hand, Places
  <2>2. TaskState'[t] = "pending"
    BY <1>0, <1>4, <1>5, <1>6, <1>9, <2>1 DEF TaskState
  <2>3. Phase \in {"open", "closing"}
    BY <1>9 DEF Phase
  <2> QED
    BY <1>7, <2>2, <2>3 DEF E!Allowed, E!Life
<1> QED
  BY <1>2, <1>8, <1>9

\* What the queues hold is destroyed before shutdown returns.
LEMMA JoinReturns ==
    ASSUME IInv, shutdown_join
    PROVE  E!ShutdownReturns
<1> USE DEF IInv
<1>1. /\ shut = "join" /\ shut' = "done" /\ pc \in {"none", "ended"}
      /\ dropped' = (dropped \o m_private_queue) \o m_public_queue
      /\ UNCHANGED <<pc, running, made, ran>>
  BY DEF shutdown_join, ShutGoes
<1>2. Range(dropped') = (Range(dropped) \cup Private) \cup Public
  <2>1. /\ dropped \o m_private_queue \in Seq(Tasks)
        /\ Range(dropped \o m_private_queue) = Range(dropped) \cup Private
    BY Concat DEF TypeOK, Private
  <2> QED
    BY <1>1, <2>1, Concat DEF TypeOK, Public
<1>3. Hand = {} /\ Phase = "closing" /\ Phase' = "closed"
  BY <1>1 DEF Places, Hand, Phase
<1>4. \A t \in Tasks : t <= made => t \in Range(ran) \cup Range(dropped')
  <2>1. \A t \in Tasks : t <= made => t \in 1 .. made
    BY BoundsAreNat DEF Tasks, TypeOK
  <2> QED
    BY <1>2, <1>3, <2>1 DEF Counted, Done
<1>5. \A t \in Tasks : TaskState'[t] \notin {"pending", "running"}
  BY <1>1, <1>4 DEF TaskState
<1>6. E!TasksMove
  <2> SUFFICES ASSUME NEW t \in Tasks, TaskState'[t] # TaskState[t]
               PROVE  <<TaskState[t], TaskState'[t]>> \in E!Allowed(Phase)
    BY TasksMoveAsAllowed
  <2>1. t \in Private \cup Public
    BY <1>1, <1>2 DEF TaskState
  <2>2. t \in 1 .. made /\ t \notin Range(ran) /\ t \notin Range(dropped)
    BY <2>1 DEF Counted, Apart, Done
  <2>3. t <= made
    BY <2>2
  <2>4. TaskState[t] = "pending" /\ TaskState'[t] = "dropped"
    BY <1>1, <1>2, <2>1, <2>2, <2>3 DEF TaskState
  <2> QED
    BY <1>3, <2>4 DEF E!Allowed, E!Destruction
<1> QED
  BY <1>3, <1>5, <1>6 DEF E!ShutdownReturns

\* However many clients and tasks there are, the worker thread is an executor:
\* every step of its thread, of enqueue and of shutdown is a step of Executor, or
\* one that it does not see.
THEOREM WorkerImplementsExecutor == Spec => ImplementsExecutor
<1>1. Init => E!Init
  <2> SUFFICES ASSUME Init PROVE E!Init
    OBVIOUS
  <2>0. <<>> \in Seq(Tasks) /\ Range(<<>>) = {} /\ \A t \in Tasks : ~(t <= 0)
    <3>1. <<>> \in Seq(Tasks) /\ Range(<<>>) = {}
      BY EmptySequence, Elements
    <3>2. \A t \in Tasks : ~(t <= 0)
      BY BoundsAreNat DEF Tasks
    <3> QED
      BY <3>1, <3>2
  <2>1. Range(ran) = {} /\ Range(dropped) = {} /\ \A t \in Tasks : ~(t <= made)
    BY <2>0 DEF Init
  <2>2. TaskState = [t \in Tasks |-> "none"] /\ Phase = "open"
    BY <2>1 DEF Init, TaskState, Phase
  <2> QED
    BY <2>2 DEF E!Init
<1>2. IInv /\ [Next]_vars => [E!Next]_(E!vars)
  <2> SUFFICES ASSUME IInv, [Next]_vars PROVE [E!Next]_(E!vars)
    OBVIOUS
  <2>1. CASE ThreadStep
    BY <2>1, HiddenSteps, BeginIsWork, FinishIsWork DEF ThreadStep, E!Next
  <2>2. ASSUME NEW n \in 1 .. MaxSpan, enqueue_local(n) \/ \E c \in Clients : enqueue_foreign(c, n)
        PROVE  E!Next
    BY <2>2, EnqueueIsWork DEF E!Next
  <2>3. CASE shutdown
    <3>1. TaskState' = TaskState
      BY <2>3 DEF shutdown, TaskState
    <3> QED
      BY <2>3, <3>1 DEF shutdown, ShutGoes, Phase, E!Next, E!ShutdownCalled
  <2>4. CASE ShutdownStep
    BY <2>4, HiddenSteps, JoinReturns DEF ShutdownStep, E!Next
  <2>5. CASE (\E c \in Clients : release_semaphore(c)) \/ UNCHANGED vars
    BY <2>5, HiddenSteps
  <2> QED
    BY <2>1, <2>2, <2>3, <2>4, <2>5 DEF Next
<1> QED
  BY <1>1, <1>2, IInvHolds, PTL DEF Spec, ImplementsExecutor, E!Spec

===============================================================================
