----------------------- MODULE ThreadPoolControlProofs -----------------------
(***************************************************************************)
(* The inductive invariant of ThreadPool, and the proof that every step    *)
(* keeps its parts about the control of the workers: the types, the abort  *)
(* flags, each worker's loop and its signals, and the donors' lists.       *)
(* ThreadPoolProofs adds the places of the tasks and states the theorems.  *)
(***************************************************************************)
EXTENDS ThreadPool, TLAPS

\* Where a task may be: with a worker, with a client, or at no thread in particular.
Spots == Threads \cup {NoWorker}

\* A task object is in one place only (task is move-only).
Once ==
    \A t \in Tasks : \A k1, k2 \in Kinds : \A x1, x2 \in Spots :
        IsIn(k1, x1, t) /\ IsIn(k2, x2, t) => k1 = k2 /\ x1 = x2

\* Every task made is somewhere, and no other one is: none is lost on the way.
Somewhere ==
    \A t \in Tasks : t <= made <=> \E k \in Kinds, x \in Spots : IsIn(k, x, t)

\* No deque of a worker holds a task twice.
Queued == \A w \in Workers : NoRepeats(private[w]) /\ NoRepeats(public[w])

\* The calls a thread has still to make carry no task twice; a slot emptied by a
\* move is Null.
ArgumentsApart(x) ==
    \A j, k \in DOMAIN jobs[x] :
        /\ NoRepeats(jobs[x][j].tasks)
        /\ j # k => Range(jobs[x][j].tasks) \cap Range(jobs[x][k].tasks) \subseteq {Null}

\* So it is for every thread but a donor, whose calls name slots of its own queue
\* (Donor says what they hold).
Arguments == \A x \in Threads : ~DonatingTo(x) => ArgumentsApart(x)

\* A donor's queue is dealt in as many slices as it found workers, and one more.
Parts(w) == Len(idle_list[w]) + 1
\* Where the j-th slice of a queue begins (the slots after the From-th) ...
From(q, parts, j) == SliceBegin(Len(q), parts, j)
\* ... and its last slot.
To(q, parts, j) == SliceBegin(Len(q), parts, j + 1)
\* How many of its slices a donor has handed over.
Done(w) == Len(idle_list[w]) - Len(jobs[w])

\* A donor in the middle of donate_work_impl: the slots of the slices it gave away
\* are empty, the calls to come are the slices that follow, one for each worker left
\* in its list, and there are enough tasks for all unless a receiver was aborted.
Donor(w) ==
    /\ Len(jobs[w]) \in 1 .. Len(idle_list[w])
    /\ \A i \in 1 .. From(private[w], Parts(w), Done(w) + 1) : private[w][i] = Null
    /\ \A j \in 1 .. Len(jobs[w]) :
           /\ jobs[w][j].to = idle_list[w][Done(w) + j]
           /\ jobs[w][j].tasks = Slice(private[w], Parts(w), Done(w) + j)
    /\ Parts(w) <= Len(private[w]) \/ \E j \in DOMAIN jobs[w] : m_abort[jobs[w][j].to]

\* After its last donation a worker keeps its list only if a call was refused (the
\* exception left donate_work_impl before the list was cleared).
LeftList(w) == idle_list[w] # <<>> => \E i \in DOMAIN idle_list[w] : m_abort[idle_list[w][i]]

\* What holds of every worker's list and queue, donating or not.
Donors == \A w \in Workers : IF DonatingTo(w) THEN Donor(w) ELSE LeftList(w)

\* Which calls, owed signals and tasks a worker has at which point of its loop.
Caller(w) ==
    /\ jobs[w] # <<>> => pc[w] \in {"donate", "task"}
    /\ pc[w] = "task" => Len(jobs[w]) <= 1
    /\ owes[w] # NoWorker => pc[w] \in {"donate", "pop", "task"}
    /\ running[w] # Null => pc[w] = "task"
    /\ pc[w] \in {"donate", "pop"} => private[w] # <<>>

\* No pool has begun to shut down.
Open == \A p \in Pools : shut[p].step = "no"

\* The abort flags of the workers are those that the shutdown's walk over the
\* workers has set.
Flags ==
    /\ \A p \in Pools :
        /\ shut[p].step = "no" => shut[p].at = 0
        /\ shut[p].step \in {"lock", "announce", "release", "join"} => shut[p].at < Size
    /\ \A w \in Workers :
        /\ m_abort[w] <=> \/ w[2] < shut[w[1]].at
                          \/ w[2] = shut[w[1]].at /\ shut[w[1]].step \in {"announce", "release", "join"}
        /\ m_atomic_abort[w] => shut[w[1]].step # "no"

\* A worker runs into runtime_shutdown only when some pool shuts down.
Aborts == Flags /\ \A w \in Workers : pc[w] = "aborted" => ~Open

\* m_idle says that the worker has no thread.
Active(w) == m_idle[w] <=> pc[w] = "none"

\* A worker that its pool's shutdown has passed has no thread and no tasks.
Quiet(w) ==
    w[2] < shut[w[1]].at => pc[w] = "none" /\ private[w] = <<>> /\ public[w] = <<>>

\* Before any shutdown a worker that looks for tasks, or has no thread, has none
\* in its private queue (what the assert of drain_queue relies on).
EmptyUntilShutdown(w) ==
    Open /\ pc[w] \in {"none", "drain", "mark_idle", "wait", "found", "timed_out"}
        => private[w] = <<>>

\* The worker's semaphore is signalled, or somebody is on the way to signal it.
Announced(w) == sem[w] > 0 \/ \E t \in Threads : owes[t] = w

\* A worker about to wait, or waiting, finds the flag and the signal of every task
\* and of every abort that came since it last looked.
Woken(w) ==
    pc[w] \in {"mark_idle", "wait"} =>
        /\ public[w] # <<>> => m_task_found_or_abort[w] /\ Announced(w)
        /\ m_abort[w] =>
             /\ shut[w[1]].step \in {"release", "join"} => m_task_found_or_abort[w]
             /\ shut[w[1]].step = "join" => sem[w] > 0

\* What holds of each worker's control.
Controlled(w) == Caller(w) /\ Active(w) /\ Quiet(w) /\ EmptyUntilShutdown(w) /\ Woken(w)

\* The inductive invariant: types, the place of every task, the donors, the abort
\* flags, and the control of each worker.
IInv ==
    /\ TypeOK /\ Once /\ Somewhere /\ Queued /\ Arguments /\ Donors /\ Aborts
    /\ \A w \in Workers : Controlled(w)

-----------------------------------------------------------------------------
(* How tasks are dealt.                                                    *)

\* Quotient and remainder.
LEMMA DivMod ==
    ASSUME NEW n \in Nat, NEW d \in Nat \ {0}
    PROVE  /\ n \div d \in Nat /\ n % d \in 0 .. d - 1
           /\ n = d * (n \div d) + (n % d)
  OBVIOUS

\* Products are monotone.
LEMMA Times ==
    ASSUME NEW a \in Nat, NEW b \in Nat, NEW q \in Nat, a <= b
    PROVE  a * q \in Nat /\ b * q \in Nat /\ a * q <= b * q /\ (a + 1) * q = a * q + q
  OBVIOUS

\* A slice begins where the one before it ends.
LEMMA SlicesAdjoin ==
    ASSUME NEW n \in Nat, NEW parts \in Nat \ {0}, NEW j \in 1 .. parts
    PROVE  /\ SliceBegin(n, parts, j) \in Nat /\ SliceLength(n, parts, j) \in Nat
           /\ SliceBegin(n, parts, j + 1) = SliceBegin(n, parts, j) + SliceLength(n, parts, j)
<1> DEFINE q == n \div parts
           r == n % parts
<1>1. q \in Nat /\ r \in Nat
  BY DivMod
<1>2. j - 1 \in Nat /\ (j - 1) * q \in Nat /\ j * q = (j - 1) * q + q
  BY <1>1
<1> HIDE DEF q, r
<1>3. SliceBegin(n, parts, j) = (j - 1) * q + Smaller(j - 1, r)
  BY Zenon DEF SliceBegin, q, r
<1>4. SliceLength(n, parts, j) = q + IF j <= r THEN 1 ELSE 0
  BY Zenon DEF SliceLength, q, r
<1>5. SliceBegin(n, parts, j + 1) = j * q + Smaller(j, r)
  <2>1. (j + 1) - 1 = j
    OBVIOUS
  <2> QED
    BY Zenon, <2>1 DEF SliceBegin, q, r
<1> QED
  BY <1>1, <1>2, <1>3, <1>4, <1>5 DEF Smaller

\* The first slice begins at the first task, and the last one ends at the last.
LEMMA SlicesCover ==
    ASSUME NEW n \in Nat, NEW parts \in Nat \ {0}
    PROVE  SliceBegin(n, parts, 1) = 0 /\ SliceBegin(n, parts, parts + 1) = n
<1> DEFINE q == n \div parts
           r == n % parts
<1>1. q \in Nat /\ r \in 0 .. parts - 1 /\ n = parts * q + r
  BY Zenon, DivMod
<1> HIDE DEF q, r
<1>2. SliceBegin(n, parts, 1) = 0 * q + Smaller(0, r)
  BY DEF SliceBegin, q, r
<1>3. SliceBegin(n, parts, parts + 1) = parts * q + Smaller(parts, r)
  <2>1. (parts + 1) - 1 = parts
    OBVIOUS
  <2> QED
    BY Zenon, <2>1 DEF SliceBegin, q, r
<1> QED
  BY <1>1, <1>2, <1>3 DEF Smaller

\* Later slices begin later.
LEMMA SlicesInOrder ==
    ASSUME NEW n \in Nat, NEW parts \in Nat \ {0}, NEW j \in 1 .. parts, NEW k \in 1 .. parts + 1,
           j < k
    PROVE  /\ SliceBegin(n, parts, k) \in Nat
           /\ SliceBegin(n, parts, j) + SliceLength(n, parts, j) <= SliceBegin(n, parts, k)
<1> DEFINE q == n \div parts
           r == n % parts
<1>1. q \in Nat /\ r \in Nat
  BY DivMod
<1> HIDE DEF q, r
<1>2. j \in Nat /\ k - 1 \in Nat /\ j <= k - 1
  OBVIOUS
<1>3. j * q <= (k - 1) * q /\ j * q \in Nat /\ (k - 1) * q \in Nat
  BY Zenon, <1>1, <1>2, Times
<1>4. SliceBegin(n, parts, k) = (k - 1) * q + Smaller(k - 1, r)
  BY Zenon DEF SliceBegin, q, r
<1>5. SliceBegin(n, parts, j + 1) = j * q + Smaller(j, r)
  <2>1. (j + 1) - 1 = j
    OBVIOUS
  <2> QED
    BY Zenon, <2>1 DEF SliceBegin, q, r
<1>6. Smaller(j, r) \in Nat /\ Smaller(k - 1, r) \in Nat /\ Smaller(j, r) <= Smaller(k - 1, r)
  BY <1>1, <1>2 DEF Smaller
<1>7. SliceBegin(n, parts, k) \in Nat /\ SliceBegin(n, parts, j + 1) <= SliceBegin(n, parts, k)
  BY <1>3, <1>4, <1>5, <1>6
<1> QED
  BY Zenon, <1>7, SlicesAdjoin

\* If there are not more slices than tasks, the last slice is not empty.
LEMMA LastSlice ==
    ASSUME NEW n \in Nat, NEW parts \in Nat \ {0}, parts <= n
    PROVE  SliceBegin(n, parts, parts) < n
<1> DEFINE q == n \div parts
           r == n % parts
<1>1. q \in Nat /\ r \in 0 .. parts - 1 /\ n = parts * q + r
  BY Zenon, DivMod
<1> HIDE DEF q, r
<1>2. q # 0
  BY <1>1
<1>3. SliceBegin(n, parts, parts) = (parts - 1) * q + Smaller(parts - 1, r)
  BY Zenon DEF SliceBegin, q, r
<1>4. parts - 1 \in Nat /\ parts * q = (parts - 1) * q + q /\ (parts - 1) * q \in Nat
  BY <1>1
<1>5. Smaller(parts - 1, r) = r
  BY <1>1 DEF Smaller
<1> QED
  BY <1>1, <1>2, <1>3, <1>4, <1>5

\* Every task is in a slice.
LEMMA SlicesHaveAll ==
    ASSUME NEW n \in Nat, NEW parts \in Nat \ {0}, NEW i \in 1 .. n
    PROVE  \E j \in 1 .. parts :
               i \in SliceBegin(n, parts, j) + 1 ..
                     SliceBegin(n, parts, j) + SliceLength(n, parts, j)
<1> DEFINE q == n \div parts
           r == n % parts
<1>1. q \in Nat /\ r \in 0 .. parts - 1 /\ n = parts * q + r
  BY Zenon, DivMod
<1> HIDE DEF q, r
<1>2. \A j \in Nat : /\ SliceBegin(n, parts, j + 1) = j * q + Smaller(j, r)
                     /\ SliceLength(n, parts, j + 1) = q + IF j < r THEN 1 ELSE 0
  <2> SUFFICES ASSUME NEW j \in Nat
               PROVE  /\ SliceBegin(n, parts, j + 1) = j * q + Smaller(j, r)
                      /\ SliceLength(n, parts, j + 1) = q + IF j < r THEN 1 ELSE 0
    BY Zenon
  <2>1. (j + 1) - 1 = j /\ (j + 1 <= r <=> j < r)
    BY <1>1
  <2> QED
    BY Zenon, <2>1 DEF SliceBegin, SliceLength, q, r
<1>3. SUFFICES \E j \in 0 .. parts - 1 :
                  /\ j * q + Smaller(j, r) < i
                  /\ i <= j * q + Smaller(j, r) + q + IF j < r THEN 1 ELSE 0
  <2>1. PICK j \in 0 .. parts - 1 : /\ j * q + Smaller(j, r) < i
                                    /\ i <= j * q + Smaller(j, r) + q + IF j < r THEN 1 ELSE 0
    BY Zenon, <1>3
  <2>2. j \in Nat /\ j * q \in Nat /\ Smaller(j, r) \in Nat /\ j + 1 \in 1 .. parts
    BY <1>1 DEF Smaller
  <2>3. i \in SliceBegin(n, parts, j + 1) + 1 ..
              SliceBegin(n, parts, j + 1) + SliceLength(n, parts, j + 1)
    BY <1>1, <1>2, <2>1, <2>2
  <2> QED
    BY Zenon, <2>2, <2>3
<1>4. CASE i <= r * (q + 1)
  <2> DEFINE j == (i - 1) \div (q + 1)
             m == (i - 1) % (q + 1)
  <2>1. i - 1 \in Nat /\ q + 1 \in Nat \ {0}
    BY <1>1
  <2>2. j \in Nat /\ m \in 0 .. (q + 1) - 1 /\ i - 1 = (q + 1) * j + m
    BY Zenon, <2>1, DivMod
  <2> HIDE DEF j, m
  <2>3. j * q \in Nat /\ (q + 1) * j = j * q + j
    BY <1>1, <2>2
  <2>4. j < r
    <3> SUFFICES ASSUME r <= j PROVE FALSE
      BY <1>1, <2>2
    <3>1. r * (q + 1) <= j * (q + 1)
      BY <1>1, <2>1, <2>2, Times
    <3>2. j * (q + 1) = (q + 1) * j
      BY <1>1, <2>2
    <3> QED
      BY <1>1, <1>4, <2>2, <2>3, <3>1, <3>2
  <2>5. Smaller(j, r) = j
    BY <1>1, <2>2, <2>4 DEF Smaller
  <2>6. j \in 0 .. parts - 1
    BY <1>1, <2>2, <2>4
  <2>7. j * q + j < i /\ i <= j * q + j + q + 1
    BY <1>1, <2>2, <2>3
  <2> QED
    BY Zenon, <2>4, <2>5, <2>6, <2>7, <1>1
<1>5. CASE ~(i <= r * (q + 1))
  <2>0. r * (q + 1) \in Nat /\ r * (q + 1) = r * q + r /\ r * q \in Nat
    BY <1>1
  <2>1. q # 0
    BY <1>1, <1>5, <2>0
  <2> DEFINE x == (i - 1) - r * (q + 1)
             a == x \div q
             m == x % q
             j == r + a
  <2>2. x \in Nat
    BY <1>5, <2>0
  <2>3. a \in Nat /\ m \in 0 .. q - 1 /\ x = q * a + m
    BY Zenon, <1>1, <2>1, <2>2, DivMod
  <2> HIDE DEF a, m
  <2>4. q * a \in Nat /\ j \in Nat /\ j * q = r * q + q * a
    BY <1>1, <2>3
  <2>5. j * q + r < i /\ i <= j * q + r + q
    BY <1>1, <2>0, <2>3, <2>4
  <2>6. j < parts
    <3> SUFFICES ASSUME parts <= j PROVE FALSE
      BY <1>1, <2>4
    <3>1. parts * q <= j * q
      BY Zenon, <1>1, <2>4, Times
    <3> QED
      BY <1>1, <2>4, <2>5, <3>1
  <2>7. Smaller(j, r) = r /\ ~(j < r) /\ j \in 0 .. parts - 1
    BY <1>1, <2>3, <2>4, <2>6 DEF Smaller
  <2> QED
    BY <1>1, <2>5, <2>7
<1> QED
  BY Zenon, <1>4, <1>5

-----------------------------------------------------------------------------
(* Sequences of tasks.                                                     *)

\* The elements of a sequence are those at its indices.
LEMMA Elements ==
    ASSUME NEW S, NEW q \in Seq(S)
    PROVE  /\ Len(q) \in Nat /\ DOMAIN q = 1 .. Len(q)
           /\ \A x : x \in Range(q) <=> \E i \in 1 .. Len(q) : q[i] = x
           /\ Range(q) \subseteq S /\ \A i \in 1 .. Len(q) : q[i] \in S
           /\ q = <<>> <=> Len(q) = 0
           /\ q = <<>> <=> Range(q) = {}
<1>1. Len(q) \in Nat /\ q \in [1 .. Len(q) -> S] /\ DOMAIN q = 1 .. Len(q)
  OBVIOUS
<1>2. \A x : x \in Range(q) <=> \E i \in 1 .. Len(q) : q[i] = x
  BY Zenon, <1>1 DEF Range
<1>3. q # <<>> => Len(q) \in Nat \ {0}
  OBVIOUS
<1>4. q = <<>> => Len(q) = 0
  OBVIOUS
<1>5. q # <<>> => q[1] \in Range(q)
  BY <1>2, <1>3
<1>6. q = <<>> => Range(q) = {}
  BY <1>1, <1>2, <1>4
<1>7. \A i \in 1 .. Len(q) : q[i] \in S
  BY Zenon, <1>1
<1>8. Range(q) \subseteq S
  BY Zenon, <1>2, <1>7
<1> QED
  BY Zenon, <1>1, <1>2, <1>3, <1>4, <1>5, <1>6, <1>7, <1>8

\* The empty sequence.
LEMMA NoElements ==
    /\ \A S : <<>> \in Seq(S)
    /\ Len(<<>>) = 0 /\ Range(<<>>) = {} /\ DOMAIN <<>> = {} /\ NoRepeats(<<>>)
<1>1. \A S : <<>> \in Seq(S)
  OBVIOUS
<1>2. Len(<<>>) = 0 /\ Range(<<>>) = {} /\ DOMAIN <<>> = 1 .. 0
  <2>1. <<>> \in Seq({})
    BY Zenon, <1>1
  <2> QED
    BY Zenon, <2>1, Elements
<1>3. DOMAIN <<>> = {}
  BY <1>2
<1> QED
  BY Zenon, <1>1, <1>2, <1>3 DEF NoRepeats

\* What a concatenation is made of.
LEMMA Concat ==
    ASSUME NEW S, NEW q \in Seq(S), NEW s \in Seq(S)
    PROVE  /\ q \o s \in Seq(S) /\ Len(q \o s) = Len(q) + Len(s)
           /\ \A i \in 1 .. Len(q) : (q \o s)[i] = q[i]
           /\ Range(q \o s) = Range(q) \cup Range(s)
           /\ NoRepeats(q) /\ NoRepeats(s) /\ Range(q) \cap Range(s) \subseteq {Null}
                => NoRepeats(q \o s)
<1> DEFINE c == q \o s
<1>1. /\ c \in Seq(S) /\ Len(c) = Len(q) + Len(s)
      /\ \A i \in 1 .. Len(q) + Len(s) : c[i] = IF i <= Len(q) THEN q[i] ELSE s[i - Len(q)]
  OBVIOUS
<1>2. Len(q) \in Nat /\ Len(s) \in Nat
  BY Zenon, Elements
<1> HIDE DEF c
<1>3. \A i \in 1 .. Len(q) : i \in 1 .. Len(c) /\ c[i] = q[i]
  BY <1>1, <1>2
<1>4. \A i \in 1 .. Len(s) : Len(q) + i \in 1 .. Len(c) /\ c[Len(q) + i] = s[i]
  <2> SUFFICES ASSUME NEW i \in 1 .. Len(s) PROVE Len(q) + i \in 1 .. Len(c) /\ c[Len(q) + i] = s[i]
    BY Zenon
  <2>1. /\ Len(q) + i \in 1 .. Len(q) + Len(s) /\ ~(Len(q) + i <= Len(q))
        /\ (Len(q) + i) - Len(q) = i
    BY <1>2
  <2> QED
    BY Zenon, <1>1, <2>1
<1>5. \A k \in 1 .. Len(c) : \/ k \in 1 .. Len(q) /\ c[k] = q[k]
                             \/ \E i \in 1 .. Len(s) : k = Len(q) + i /\ c[k] = s[i]
  <2> SUFFICES ASSUME NEW k \in 1 .. Len(c), k \notin 1 .. Len(q)
               PROVE  \E i \in 1 .. Len(s) : k = Len(q) + i /\ c[k] = s[i]
    BY Zenon, <1>3
  <2>0. /\ k \in 1 .. Len(q) + Len(s) /\ ~(k <= Len(q))
        /\ k - Len(q) \in 1 .. Len(s) /\ k = Len(q) + (k - Len(q))
    BY <1>1, <1>2
  <2>1. k - Len(q) \in 1 .. Len(s) /\ k = Len(q) + (k - Len(q)) /\ c[k] = s[k - Len(q)]
    BY Zenon, <1>1, <2>0
  <2> QED
    BY Zenon, <2>1
<1>6. /\ \A x : x \in Range(c) <=> \E k \in 1 .. Len(c) : c[k] = x
      /\ \A x : x \in Range(q) <=> \E k \in 1 .. Len(q) : q[k] = x
      /\ \A x : x \in Range(s) <=> \E k \in 1 .. Len(s) : s[k] = x
      /\ DOMAIN c = 1 .. Len(c) /\ DOMAIN q = 1 .. Len(q) /\ DOMAIN s = 1 .. Len(s)
  BY Zenon, <1>1, Elements
<1>7. Range(c) = Range(q) \cup Range(s)
  <2>4. \A x \in Range(c) : x \in Range(q) \cup Range(s)
    BY Zenon, <1>5, <1>6
  <2>5. \A x \in Range(q) : x \in Range(c)
    BY Zenon, <1>3, <1>6
  <2>6. \A x \in Range(s) : x \in Range(c)
    BY Zenon, <1>4, <1>6
  <2> QED
    BY Zenon, <2>4, <2>5, <2>6
<1>8. ASSUME NoRepeats(q), NoRepeats(s), Range(q) \cap Range(s) \subseteq {Null}
      PROVE  NoRepeats(c)
  <2> SUFFICES ASSUME NEW i \in 1 .. Len(c), NEW k \in 1 .. Len(c), c[i] = c[k], c[i] # Null
               PROVE  i = k
    BY Zenon, <1>6 DEF NoRepeats
  <2>1. \A a, b \in 1 .. Len(q) : q[a] = q[b] /\ q[a] # Null => a = b
    BY Zenon, <1>6, <1>8 DEF NoRepeats
  <2>2. \A a, b \in 1 .. Len(s) : s[a] = s[b] /\ s[a] # Null => a = b
    BY Zenon, <1>6, <1>8 DEF NoRepeats
  <2>3. \A a \in 1 .. Len(q), b \in 1 .. Len(s) : q[a] = s[b] => q[a] = Null
    BY Zenon, <1>6, <1>8
  <2>4. CASE i \in 1 .. Len(q) /\ c[i] = q[i]
    BY Zenon, <1>5, <2>1, <2>3, <2>4
  <2>5. CASE \E a \in 1 .. Len(s) : i = Len(q) + a /\ c[i] = s[a]
    BY Zenon, <1>5, <2>2, <2>3, <2>5
  <2> QED
    BY Zenon, <1>5, <2>4, <2>5
<1> QED
  BY Zenon, <1>1, <1>3, <1>7, <1>8 DEF c

\* Sequence s is the part of q behind a and up to b.
IsPart(s, q, a, b) ==
    /\ a \in Nat /\ b \in Nat /\ a <= b /\ b <= Len(q)
    /\ Len(s) = b - a /\ \A i \in 1 .. b - a : s[i] = q[a + i]

\* The elements of a part of a sequence.
LEMMA ElementsOfPart ==
    ASSUME NEW S, NEW q \in Seq(S), NEW s \in Seq(S), NEW a, NEW b, IsPart(s, q, a, b)
    PROVE  \A x : x \in Range(s) <=> \E i \in a + 1 .. b : q[i] = x
<1>1. /\ a \in Nat /\ b \in Nat /\ a <= b /\ b <= Len(q) /\ Len(q) \in Nat
      /\ \A i \in 1 .. b - a : s[i] = q[a + i]
  BY Zenon, Elements DEF IsPart
<1>2. \A x : x \in Range(s) <=> \E i \in 1 .. b - a : s[i] = x
  BY Zenon, Elements DEF IsPart
<1>3. \A i \in 1 .. b - a : a + i \in a + 1 .. b
  BY <1>1
<1>4. \A i \in a + 1 .. b : i - a \in 1 .. b - a /\ a + (i - a) = i
  BY <1>1
<1>5. ASSUME NEW x, x \in Range(s) PROVE \E i \in a + 1 .. b : q[i] = x
  BY Zenon, <1>1, <1>2, <1>3, <1>5
<1>6. ASSUME NEW i \in a + 1 .. b PROVE q[i] \in Range(s)
  <2>1. i - a \in 1 .. b - a /\ s[i - a] = q[i]
    BY Zenon, <1>1, <1>4
  <2> QED
    BY Zenon, <1>2, <2>1
<1> QED
  BY Zenon, <1>5, <1>6

\* A part of a sequence without repetitions has none.
LEMMA NoRepeatsInPart ==
    ASSUME NEW S, NEW q \in Seq(S), NEW s \in Seq(S), NEW a, NEW b, IsPart(s, q, a, b),
           NoRepeats(q)
    PROVE  NoRepeats(s)
<1>1. /\ a \in Nat /\ b \in Nat /\ a <= b /\ b <= Len(q) /\ Len(q) \in Nat
      /\ \A i \in 1 .. b - a : s[i] = q[a + i]
  BY Zenon, Elements DEF IsPart
<1>2. DOMAIN q = 1 .. Len(q) /\ DOMAIN s = 1 .. b - a
  BY Zenon, Elements DEF IsPart
<1>3. \A i \in 1 .. b - a : a + i \in 1 .. Len(q)
  BY <1>1
<1> SUFFICES ASSUME NEW i \in 1 .. b - a, NEW k \in 1 .. b - a, s[i] = s[k], s[i] # Null
             PROVE  i = k
  BY Zenon, <1>2 DEF NoRepeats
<1>4. a + i = a + k
  BY Zenon, <1>1, <1>2, <1>3 DEF NoRepeats
<1> QED
  BY <1>1, <1>4

\* SubSeq yields a part of a sequence.
LEMMA SubSeqIsPart ==
    ASSUME NEW S, NEW q \in Seq(S), NEW a \in Nat, NEW b \in Nat, a <= b, b <= Len(q)
    PROVE  SubSeq(q, a + 1, b) \in Seq(S) /\ IsPart(SubSeq(q, a + 1, b), q, a, b)
<1> DEFINE s == SubSeq(q, a + 1, b)
<1>0. Len(q) \in Nat /\ \A i \in 1 .. Len(q) : q[i] \in S
  BY Zenon, Elements
<1>1. s = [i \in 1 .. b - a |-> q[a + i]]
  <2>1. (b - (a + 1)) + 1 = b - a
    OBVIOUS
  <2>2. \A i \in 1 .. b - a : (i + (a + 1)) - 1 = a + i
    OBVIOUS
  <2>3. s = [i \in 1 .. (b - (a + 1)) + 1 |-> q[(i + (a + 1)) - 1]]
    BY <1>0
  <2> QED
    BY Zenon, <2>1, <2>2, <2>3
<1> HIDE DEF s
<1>2. b - a \in Nat /\ \A i \in 1 .. b - a : a + i \in 1 .. Len(q)
  BY <1>0
<1>3. s \in Seq(S) /\ Len(s) = b - a
  <2>1. \A i \in 1 .. b - a : q[a + i] \in S
    BY Zenon, <1>0, <1>2
  <2> QED
    BY <1>1, <1>2, <2>1
<1>4. \A i \in 1 .. b - a : s[i] = q[a + i]
  BY Zenon, <1>1
<1>5. s \in Seq(S) /\ IsPart(s, q, a, b)
  BY Zenon, <1>3, <1>4 DEF IsPart
<1> QED
  BY Zenon, <1>5 DEF s

\* A sequence without its last element.
LEMMA WithoutLast ==
    ASSUME NEW S, NEW q \in Seq(S), q # <<>>
    PROVE  /\ SubSeq(q, 1, Len(q) - 1) \in Seq(S) /\ q[Len(q)] \in S
           /\ Range(q) = Range(SubSeq(q, 1, Len(q) - 1)) \cup {q[Len(q)]}
           /\ NoRepeats(q) => /\ NoRepeats(SubSeq(q, 1, Len(q) - 1))
                              /\ \/ q[Len(q)] = Null
                                 \/ q[Len(q)] \notin Range(SubSeq(q, 1, Len(q) - 1))
<1> DEFINE n == Len(q)
           s == SubSeq(q, 1, n - 1)
<1>1. n \in Nat /\ n # 0 /\ DOMAIN q = 1 .. n /\ q[n] \in S
  BY Elements
<1>2. 0 \in Nat /\ n - 1 \in Nat /\ 0 <= n - 1 /\ n - 1 <= n /\ 0 + 1 = 1
  BY <1>1
<1>3. PICK a \in Nat, b \in Nat : a <= b /\ b <= Len(q) /\ a + 1 = 1 /\ b = n - 1
  BY Zenon, <1>2
<1>9. s \in Seq(S) /\ IsPart(s, q, a, b)
  <2>1. SubSeq(q, a + 1, b) \in Seq(S) /\ IsPart(SubSeq(q, a + 1, b), q, a, b)
    BY Zenon, <1>3, SubSeqIsPart
  <2>2. s = SubSeq(q, a + 1, b)
    BY Zenon, <1>3
  <2> QED
    BY Zenon, <2>1, <2>2
<1> HIDE DEF n, s
<1>10. \A y : y \in Range(s) <=> \E i \in a + 1 .. b : q[i] = y
  BY <1>9, ElementsOfPart
<1>11. NoRepeats(q) => NoRepeats(s)
  BY Zenon, <1>9, NoRepeatsInPart
<1>12. \A y : y \in Range(s) <=> \E i \in 1 .. n - 1 : q[i] = y
  BY Zenon, <1>3, <1>10
<1>4. \A y : y \in Range(q) <=> \E i \in 1 .. n : q[i] = y
  BY Zenon, Elements DEF n
<1>5. \A i \in 1 .. n : i \in 1 .. n - 1 \/ i = n
  BY <1>1
<1>6. n \in 1 .. n /\ \A i \in 1 .. n - 1 : i \in 1 .. n /\ i # n
  BY <1>1
<1>7. Range(q) = Range(s) \cup {q[n]}
  BY Zenon, <1>12, <1>4, <1>5, <1>6
<1>8. NoRepeats(q) => q[n] = Null \/ q[n] \notin Range(s)
  BY Zenon, <1>1, <1>12, <1>6 DEF NoRepeats
<1> QED
  BY Zenon, <1>1, <1>9, <1>11, <1>7, <1>8 DEF n, s

\* The first element of a sequence and the others.
LEMMA FirstAndRest ==
    ASSUME NEW S, NEW q \in Seq(S), q # <<>>
    PROVE  /\ Head(q) = q[1] /\ Head(q) \in S /\ 1 \in DOMAIN q
           /\ Tail(q) \in Seq(S) /\ Len(Tail(q)) = Len(q) - 1
           /\ \A i \in 1 .. Len(q) - 1 : Tail(q)[i] = q[i + 1]
<1>1. Len(q) \in Nat /\ Len(q) # 0 /\ DOMAIN q = 1 .. Len(q)
  BY Zenon, Elements
<1> QED
  BY <1>1, Elements

\* A slice is a part of the queue.
LEMMA SliceIsPart ==
    ASSUME NEW S, NEW q \in Seq(S), NEW parts \in Nat \ {0}, NEW j \in 1 .. parts
    PROVE  /\ Slice(q, parts, j) \in Seq(S)
           /\ IsPart(Slice(q, parts, j), q, From(q, parts, j), To(q, parts, j))
<1> DEFINE n == Len(q)
           l == SliceLength(n, parts, j)
           b == From(q, parts, j)
           e == To(q, parts, j)
<1>1. n \in Nat
  BY Zenon, Elements
<1>2. b \in Nat /\ l \in Nat /\ e = b + l
  BY Zenon, <1>1, SlicesAdjoin DEF From, To
<1>3. e <= n
  <2>1. SliceBegin(n, parts, parts + 1) = n
    BY Zenon, <1>1, SlicesCover
  <2>2. parts + 1 \in 1 .. parts + 1 /\ j < parts + 1
    OBVIOUS
  <2>3. b + l <= SliceBegin(n, parts, parts + 1)
    BY Zenon, <1>1, <2>2, SlicesInOrder DEF From
  <2> QED
    BY Zenon, <1>2, <2>1, <2>3
<1>4. b \in Nat /\ e \in Nat /\ b <= e
  BY <1>2
<1>5. Slice(q, parts, j) = SubSeq(q, b + 1, e)
  BY Zenon, <1>2 DEF Slice, From
<1> HIDE DEF b, e
<1>6. SubSeq(q, b + 1, e) \in Seq(S) /\ IsPart(SubSeq(q, b + 1, e), q, b, e)
  BY Zenon, <1>3, <1>4, SubSeqIsPart
<1> QED
  BY Zenon, <1>5, <1>6 DEF b, e

\* Later slices begin where earlier ones end, or behind.
LEMMA SlicesAscend ==
    ASSUME NEW S, NEW q \in Seq(S), NEW parts \in Nat \ {0},
           NEW j \in 1 .. parts, NEW k \in 1 .. parts, j < k
    PROVE  To(q, parts, j) <= From(q, parts, k)
<1>1. Len(q) \in Nat /\ k \in 1 .. parts + 1
  BY Elements
<1>2. From(q, parts, j) + SliceLength(Len(q), parts, j) <= From(q, parts, k)
  BY Zenon, <1>1, SlicesInOrder DEF From
<1>3. To(q, parts, j) = From(q, parts, j) + SliceLength(Len(q), parts, j)
  BY Zenon, <1>1, SlicesAdjoin DEF From, To
<1> QED
  BY Zenon, <1>2, <1>3

\* Two slices of a queue have no task in common.
LEMMA SlicesApart ==
    ASSUME NEW S, NEW q \in Seq(S), NEW parts \in Nat \ {0}, NoRepeats(q),
           NEW j \in 1 .. parts, NEW k \in 1 .. parts, j # k
    PROVE  Range(Slice(q, parts, j)) \cap Range(Slice(q, parts, k)) \subseteq {Null}
<1>1. ASSUME NEW c \in 1 .. parts, NEW d \in 1 .. parts, c < d
      PROVE  Range(Slice(q, parts, c)) \cap Range(Slice(q, parts, d)) \subseteq {Null}
  <2> DEFINE bc == From(q, parts, c)
             ec == To(q, parts, c)
             bd == From(q, parts, d)
             ed == To(q, parts, d)
  <2>1. /\ Slice(q, parts, c) \in Seq(S) /\ IsPart(Slice(q, parts, c), q, bc, ec)
        /\ Slice(q, parts, d) \in Seq(S) /\ IsPart(Slice(q, parts, d), q, bd, ed)
    BY Zenon, SliceIsPart
  <2>2. ec <= bd
    BY Zenon, <1>1, SlicesAscend
  <2> HIDE DEF bc, ec, bd, ed
  <2>3. /\ Len(q) \in Nat /\ DOMAIN q = 1 .. Len(q)
        /\ bc \in Nat /\ ec \in Nat /\ ec <= Len(q) /\ bd \in Nat /\ ed \in Nat /\ ed <= Len(q)
    BY Zenon, <2>1, Elements DEF IsPart
  <2>4. \A i \in bc + 1 .. ec, m \in bd + 1 .. ed :
            i \in 1 .. Len(q) /\ m \in 1 .. Len(q) /\ i # m
    BY <2>2, <2>3
  <2>5. \A i \in bc + 1 .. ec, m \in bd + 1 .. ed : q[i] = q[m] => q[i] = Null
    BY Zenon, <2>3, <2>4 DEF NoRepeats
  <2>6. \A x \in Range(Slice(q, parts, c)) : \E i \in bc + 1 .. ec : q[i] = x
    BY <2>1, ElementsOfPart
  <2>7. \A x \in Range(Slice(q, parts, d)) : \E i \in bd + 1 .. ed : q[i] = x
    BY <2>1, ElementsOfPart
  <2> QED
    BY Zenon, <2>5, <2>6, <2>7
<1>2. j < k \/ k < j
  OBVIOUS
<1> QED
  BY Zenon, <1>1, <1>2

\* Queues that agree from where a slice begins have the same slice.
LEMMA SameSlice ==
    ASSUME NEW S, NEW q \in Seq(S), NEW r \in Seq(S), Len(r) = Len(q),
           NEW parts \in Nat \ {0}, NEW j \in 1 .. parts,
           NEW a \in Nat, a <= From(q, parts, j),
           \A i \in a + 1 .. Len(q) : r[i] = q[i]
    PROVE  Slice(r, parts, j) = Slice(q, parts, j)
<1> DEFINE b == From(q, parts, j)
           e == To(q, parts, j)
           s == Slice(q, parts, j)
           z == Slice(r, parts, j)
<1>1. s \in Seq(S) /\ IsPart(s, q, b, e)
  BY Zenon, SliceIsPart
<1>2. z \in Seq(S) /\ IsPart(z, r, b, e)
  <2>1. b = From(r, parts, j) /\ e = To(r, parts, j)
    BY Zenon DEF From, To
  <2>2. z \in Seq(S) /\ IsPart(z, r, From(r, parts, j), To(r, parts, j))
    BY Zenon, SliceIsPart
  <2> QED
    BY Zenon, <2>1, <2>2
<1>3. a <= b
  BY Zenon
<1> HIDE DEF s, z, b, e
<1>4. Len(q) \in Nat
  BY Zenon, Elements
<1>5. /\ b \in Nat /\ e \in Nat /\ e <= Len(q) /\ Len(s) = e - b /\ Len(z) = e - b
      /\ \A i \in 1 .. e - b : s[i] = q[b + i] /\ z[i] = r[b + i]
  BY Zenon, <1>1, <1>2 DEF IsPart
<1>6. \A i \in 1 .. e - b : b + i \in a + 1 .. Len(q)
  BY <1>3, <1>4, <1>5
<1>7. \A i \in 1 .. e - b : z[i] = s[i]
  BY Zenon, <1>5, <1>6
<1>8. z = s
  BY <1>1, <1>2, <1>5, <1>7
<1> QED
  BY Zenon, <1>8 DEF s, z

\* The slice that a donor donates when `left` donations are left afterwards.
Donation(t, left) == Parts(t) - left - 1

\* The first e tasks of a queue were moved from.
MovedFrom(d, q, e) ==
    /\ Len(d) = Len(q)
    /\ \A i \in 1 .. e : d[i] = Null
    /\ \A i \in e + 1 .. Len(q) : d[i] = q[i]

\* The queue of a donor after a donation: what is behind the donated slice is
\* still there, and nothing else.
LEMMA DonatedQueue ==
    ASSUME NEW S, Null \in S, NEW t, private[t] \in Seq(S), idle_list[t] \in Seq(Workers),
           NEW left \in Nat, left < Len(idle_list[t]),
           NEW e, e = To(private[t], Parts(t), Donation(t, left)),
           NEW n, n = Len(private[t])
    PROVE  /\ Parts(t) \in Nat \ {0} /\ Donation(t, left) \in 1 .. Parts(t) - 1
           /\ Donated(t, left) \in Seq(S)
           /\ \A x \in S \ {Null} : x \in Range(Donated(t, left)) <=>
                                    \E i \in e + 1 .. n : private[t][i] = x
           /\ NoRepeats(private[t]) => NoRepeats(Donated(t, left))
           /\ left # 0 => MovedFrom(Donated(t, left), private[t], e)
           /\ left = 0 /\ Parts(t) <= n => Donated(t, left) # <<>>
<1> DEFINE q == private[t]
           p == Parts(t)
           j == Donation(t, left)
           d == Donated(t, left)
<1>1. Len(idle_list[t]) \in Nat /\ n \in Nat /\ \A i \in 1 .. n : q[i] \in S
  BY Zenon, Elements
<1>2. p \in Nat \ {0} /\ j \in 1 .. p - 1 /\ j + 1 = p - left
  BY <1>1 DEF Parts, Donation
<1>3. e \in Nat /\ e <= n
  <2>1. j \in 1 .. p
    BY <1>2
  <2>2. IsPart(Slice(q, p, j), q, From(q, p, j), To(q, p, j))
    BY Zenon, <1>2, <2>1, SliceIsPart
  <2> QED
    BY Zenon, <2>2 DEF IsPart
<1>4. e = SliceBegin(n, p, p - left)
  BY Zenon, <1>2 DEF To
<1>5. d = IF left = 0 THEN SubSeq(q, e + 1, n)
          ELSE [i \in 1 .. n |-> IF i <= e THEN Null ELSE q[i]]
  BY Zenon, <1>4 DEF Donated, Parts
<1>6. q \in Seq(S) /\ n = Len(q)
  BY Zenon
<1> HIDE DEF q, p, j, d
<1>7. \A x : x \in Range(q) <=> \E i \in 1 .. n : q[i] = x
  BY Zenon, <1>6, Elements
<1>8. CASE left = 0
  <2>1. SubSeq(q, e + 1, n) \in Seq(S) /\ IsPart(SubSeq(q, e + 1, n), q, e, n)
    BY <1>1, <1>3, <1>6, SubSeqIsPart
  <2>2. d \in Seq(S) /\ IsPart(d, q, e, n)
    BY Zenon, <1>5, <1>8, <2>1
  <2>3. \A x : x \in Range(d) <=> \E i \in e + 1 .. n : q[i] = x
    BY <1>6, <2>2, ElementsOfPart
  <2>4. NoRepeats(q) => NoRepeats(d)
    BY Zenon, <1>6, <2>2, NoRepeatsInPart
  <2>5. ASSUME p <= n PROVE d # <<>>
    <3>1. SliceBegin(n, p, p) < n
      BY Zenon, <1>1, <1>2, <2>5, LastSlice
    <3>2. e < n
      BY <1>2, <1>4, <1>8, <3>1
    <3>3. Len(d) = n - e
      BY Zenon, <2>2 DEF IsPart
    <3> QED
      BY <1>1, <1>3, <2>2, <3>2, <3>3, Elements
  <2> QED
    BY Zenon, <1>2, <1>8, <2>2, <2>3, <2>4, <2>5 DEF q, p, j, d
<1>9. CASE left # 0
  <2>1. d = [i \in 1 .. n |-> IF i <= e THEN Null ELSE q[i]]
    BY Zenon, <1>5, <1>9
  <2>2. \A i \in 1 .. n : (IF i <= e THEN Null ELSE q[i]) \in S
    BY Zenon, <1>1 DEF q
  <2>3. d \in Seq(S) /\ Len(d) = n
    BY <1>1, <2>1, <2>2
  <2>4. \A i \in 1 .. n : d[i] = IF i <= e THEN Null ELSE q[i]
    BY Zenon, <2>1
  <2>5. (\A i \in 1 .. e : d[i] = Null) /\ \A i \in e + 1 .. n : d[i] = q[i]
    BY <1>1, <1>3, <2>4
  <2>6. \A x : x \in Range(d) <=> \E i \in 1 .. n : d[i] = x
    BY Zenon, <2>3, Elements
  <2>7. \A i \in 1 .. n : i \in 1 .. e \/ i \in e + 1 .. n
    BY <1>1, <1>3
  <2>8. \A i \in e + 1 .. n : i \in 1 .. n
    BY <1>1, <1>3
  <2>9. \A x : x # Null => (x \in Range(d) <=> \E i \in e + 1 .. n : q[i] = x)
    <3>1. ASSUME NEW x, x # Null, x \in Range(d) PROVE \E i \in e + 1 .. n : q[i] = x
      BY Zenon, <2>5, <2>6, <2>7, <3>1
    <3>2. ASSUME NEW i \in e + 1 .. n PROVE q[i] \in Range(d)
      BY Zenon, <2>5, <2>6, <2>8
    <3> QED
      BY Zenon, <3>1, <3>2
  <2>10. NoRepeats(q) => NoRepeats(d)
    <3>1. DOMAIN d = 1 .. n /\ DOMAIN q = 1 .. n
      BY Zenon, <1>6, <2>3, Elements
    <3> QED
      BY Zenon, <2>5, <2>7, <3>1 DEF NoRepeats
  <2>11. MovedFrom(d, q, e)
    BY Zenon, <1>6, <2>3, <2>5 DEF MovedFrom
  <2> QED
    BY Zenon, <1>2, <1>9, <2>3, <2>9, <2>10, <2>11 DEF q, p, j, d
<1> QED
  BY Zenon, <1>8, <1>9

-----------------------------------------------------------------------------
(* Types.                                                                  *)

\* What a queue's slot holds, and a call to a worker's enqueue_foreign.
Items == Tasks \cup {Null}
Call == [to : Workers, tasks : Seq(Items)]

\* The types of the queues and of the calls, one by one.
LEMMA Types ==
    ASSUME TypeOK
    PROVE  /\ \A w \in Workers : private[w] \in Seq(Items) /\ public[w] \in Seq(Items)
           /\ \A w \in Workers : idle_list[w] \in Seq(Workers) /\ running[w] \in Items
           /\ \A x \in Threads : jobs[x] \in Seq(Call) /\ owes[x] \in Workers \cup {NoWorker}
           /\ made \in Nat /\ made <= MaxTasks
<1>1. \A w \in Workers : private[w] \in Seq(Items) /\ public[w] \in Seq(Items)
  BY Zenon DEF TypeOK, Items
<1>2. \A w \in Workers : idle_list[w] \in Seq(Workers) /\ running[w] \in Items
  BY Zenon DEF TypeOK, Items
<1>3. \A x \in Threads : jobs[x] \in Seq(Call) /\ owes[x] \in Workers \cup {NoWorker}
  BY Zenon DEF TypeOK, Items, Call
<1>4. made \in Nat /\ made <= MaxTasks
  BY MaxTasksIsNat DEF TypeOK
<1> QED
  BY Zenon, <1>1, <1>2, <1>3, <1>4

\* Tasks are numbers from 1.
LEMMA TasksAreItems ==
    /\ Tasks \subseteq Items /\ Null \in Items /\ Null \notin Tasks /\ Items \ {Null} = Tasks
    /\ Tasks \subseteq Nat
  BY MaxTasksIsNat DEF Tasks, Items, Null

\* The next tasks to be made.
LEMMA NextTasksTyped ==
    ASSUME TypeOK, NEW n \in Nat, made + n <= MaxTasks
    PROVE  /\ NextTasks(n) \in Seq(Tasks) /\ NextTasks(n) \in Seq(Items) /\ Len(NextTasks(n)) = n
           /\ \A t : t \in Range(NextTasks(n)) <=> t \in made + 1 .. made + n
           /\ NoRepeats(NextTasks(n))
<1> DEFINE s == NextTasks(n)
<1>1. made \in Nat /\ made <= MaxTasks
  BY Zenon, Types
<1>2. s = [i \in 1 .. n |-> made + i]
  BY Zenon DEF NextTasks
<1> HIDE DEF s
<1>3. \A i \in 1 .. n : made + i \in Tasks /\ made + i \in Items
  BY <1>1, MaxTasksIsNat DEF Tasks, Items
<1>4. s \in Seq(Tasks) /\ s \in Seq(Items) /\ Len(s) = n /\ DOMAIN s = 1 .. n
  BY <1>2, <1>3
<1>5. \A i \in 1 .. n : s[i] = made + i
  BY Zenon, <1>2
<1>6. \A t : t \in Range(s) <=> \E i \in 1 .. n : s[i] = t
  BY Zenon, <1>4, Elements
<1>7. \A t : t \in Range(s) <=> t \in made + 1 .. made + n
  <2>1. ASSUME NEW t, t \in Range(s) PROVE t \in made + 1 .. made + n
    BY <1>1, <1>5, <1>6, <2>1
  <2>2. ASSUME NEW t \in made + 1 .. made + n PROVE t \in Range(s)
    <3>1. t - made \in 1 .. n /\ s[t - made] = t
      BY <1>1, <1>5
    <3> QED
      BY Zenon, <1>6, <3>1
  <2> QED
    BY Zenon, <2>1, <2>2
<1>8. NoRepeats(s)
  BY <1>1, <1>4, <1>5 DEF NoRepeats
<1> QED
  BY Zenon, <1>4, <1>7, <1>8 DEF s

\* A worker is a pool and an index.
LEMMA WorkerIsPair ==
    /\ \A w \in Workers : w[1] \in Pools /\ w[2] \in 0 .. Size - 1 /\ w = <<w[1], w[2]>>
    /\ \A p \in Pools, i \in 0 .. Size - 1 : <<p, i>> \in Workers
    /\ NoWorker \notin Workers
<1>1. \A w \in Workers : w[1] \in Pools /\ w[2] \in 0 .. Size - 1 /\ w = <<w[1], w[2]>>
  BY DEF Workers
<1>2. \A p \in Pools, i \in 0 .. Size - 1 : <<p, i>> \in Workers
  BY Zenon DEF Workers
<1>3. NoWorker \notin Workers
  BY DEF Workers, NoWorker
<1> QED
  BY Zenon, <1>1, <1>2, <1>3

\* Dealt tasks are calls to the receivers.
LEMMA DealTyped ==
    ASSUME NEW s \in Seq(Items), NEW receivers \in Seq(Workers), NEW parts \in Nat \ {0},
           Len(receivers) <= parts
    PROVE  /\ Deal(s, receivers, parts) \in Seq(Call)
           /\ Len(Deal(s, receivers, parts)) = Len(receivers)
           /\ \A j \in 1 .. Len(receivers) :
                 /\ Deal(s, receivers, parts)[j].to = receivers[j]
                 /\ Deal(s, receivers, parts)[j].tasks = Slice(s, parts, j)
<1> DEFINE d == Deal(s, receivers, parts)
           n == Len(receivers)
           call(j) == [to |-> receivers[j], tasks |-> Slice(s, parts, j)]
<1>1. n \in Nat /\ \A j \in 1 .. n : receivers[j] \in Workers /\ j \in 1 .. parts
  BY Elements
<1>2. \A j \in 1 .. n : call(j) \in Call
  BY Zenon, <1>1, SliceIsPart DEF Call
<1>3. d = [j \in 1 .. n |-> call(j)]
  BY Zenon DEF Deal
<1> HIDE DEF d, n, call
<1>4. d \in Seq(Call) /\ Len(d) = n
  BY <1>1, <1>2, <1>3
<1>5. \A j \in 1 .. n : d[j] = call(j)
  BY Zenon, <1>3
<1>6. \A j \in 1 .. n : d[j].to = receivers[j] /\ d[j].tasks = Slice(s, parts, j)
  <2> SUFFICES ASSUME NEW j \in 1 .. n
               PROVE  d[j].to = receivers[j] /\ d[j].tasks = Slice(s, parts, j)
    BY Zenon
  <2>1. d[j] = [to |-> receivers[j], tasks |-> Slice(s, parts, j)]
    BY Zenon, <1>5 DEF call
  <2> QED
    BY <2>1
<1> QED
  BY Zenon, <1>4, <1>6 DEF d, n

\* A task that is in a place other than these two was neither run nor destroyed.
LEMMA NotYet ==
    ASSUME TypeOK, Once, NEW t \in Tasks, NEW k, NEW x, IsIn(k, x, t), k \notin {"ran", "dropped"}
    PROVE  ran[t] = 0 /\ dropped[t] = 0
<1>1. k \in Kinds /\ x \in Spots
  BY Zenon DEF IsIn, Kinds, Spots, Threads
<1>2. NoWorker \in Spots /\ "ran" \in Kinds /\ "dropped" \in Kinds
  BY Zenon DEF Spots, Kinds
<1>3. ~IsIn("ran", NoWorker, t) /\ ~IsIn("dropped", NoWorker, t)
  BY Zenon, <1>1, <1>2 DEF Once
<1>4. ~(ran[t] > 0) /\ ~(dropped[t] > 0)
  BY Zenon, <1>3 DEF IsIn
<1> QED
  BY <1>4 DEF TypeOK

\* The end of a task.
LEMMA RanOnce ==
    ASSUME TypeOK, Once, NEW w \in Workers, Ran(w)
    PROVE  /\ ran' \in [Tasks -> {0, 1}]
           /\ \A t \in Tasks : ran'[t] > 0 <=> ran[t] > 0 \/ running[w] = t
<1>1. ran \in [Tasks -> {0, 1}] /\ running[w] \in Tasks \cup {Null} /\ Null \notin Tasks
  BY Zenon, TasksAreItems DEF TypeOK
<1>2. CASE running[w] = Null
  BY Zenon, <1>1, <1>2 DEF Ran
<1>3. CASE running[w] # Null
  <2>1. running[w] \in Tasks /\ ran' = [ran EXCEPT ![running[w]] = @ + 1]
    BY Zenon, <1>1, <1>3 DEF Ran
  <2>2. IsIn("running", w, running[w])
    BY Zenon DEF IsIn
  <2>3. ran[running[w]] = 0
    BY <2>1, <2>2, NotYet
  <2> QED
    BY <1>1, <2>1, <2>3
<1> QED
  BY Zenon, <1>2, <1>3

\* The destruction of tasks that are in other places.
LEMMA DroppedOnce ==
    ASSUME TypeOK, NEW D, \A t \in Tasks : t \in D => dropped[t] = 0, Drop(D)
    PROVE  /\ dropped' \in [Tasks -> {0, 1}]
           /\ \A t \in Tasks : dropped'[t] > 0 <=> dropped[t] > 0 \/ t \in D
<1>1. \A t \in Tasks : dropped[t] \in {0, 1}
  BY Zenon DEF TypeOK
<1>2. dropped' = [t \in Tasks |-> dropped[t] + IF t \in D THEN 1 ELSE 0]
  BY Zenon DEF Drop
<1>3. \A t \in Tasks : dropped'[t] = dropped[t] + IF t \in D THEN 1 ELSE 0
  BY Zenon, <1>2
<1>4. \A t \in Tasks : dropped'[t] = IF t \in D THEN 1 ELSE dropped[t]
  BY <1>1, <1>3
<1>5. dropped' \in [Tasks -> {0, 1}]
  BY Zenon, <1>1, <1>2, <1>4
<1> QED
  BY <1>1, <1>4, <1>5

\* The type invariant without the counts.
Typed ==
    /\ private \in [Workers -> Seq(Items)] /\ public \in [Workers -> Seq(Items)]
    /\ m_idle \in [Workers -> BOOLEAN] /\ m_abort \in [Workers -> BOOLEAN]
    /\ m_atomic_abort \in [Workers -> BOOLEAN]
    /\ m_task_found_or_abort \in [Workers -> BOOLEAN]
    /\ sem \in [Workers -> 0 .. MaxTokens]
    /\ idle_list \in [Workers -> Seq(Workers)]
    /\ pc \in [Workers -> Labels]
    /\ running \in [Workers -> Items]
    /\ idle_flags \subseteq Workers
    /\ cursor \in [Pools -> 0 .. Size - 1]
    /\ jobs \in [Threads -> Seq(Call)]
    /\ owes \in [Threads -> Workers \cup {NoWorker}]
    /\ made \in 0 .. MaxTasks
    /\ shut \in [Pools -> [at : 0 .. Size,
                           step : {"no", "atomic", "lock", "announce", "release", "join"}]]

\* The type invariant is Typed with the two counters' ranges.
LEMMA TypedIs == TypeOK <=> Typed /\ ran \in [Tasks -> {0, 1}] /\ dropped \in [Tasks -> {0, 1}]
  BY Zenon DEF TypeOK, Typed, Items, Call

\* The worker's own steps that hand no task around keep the types.
LEMMA TypedWorkers ==
    ASSUME Typed, NEW w \in Workers,
           \/ drain_queue(w) \/ mark_worker_idle(w) \/ try_acquire(w) \/ wait_for_task(w)
           \/ give_up(w) \/ time_out(w) \/ queue_drained(w) \/ finish_task(w) \/ abort_exit(w)
    PROVE  Typed'
<1> USE DEF Goes, Labels
<1>1. CASE drain_queue(w)
  BY Zenon, <1>1 DEF Typed, drain_queue, TakeQueue, Exit, queues, flags, calls, tasks
<1>2. CASE mark_worker_idle(w)
  BY Zenon, <1>2 DEF Typed, mark_worker_idle, queues, flags, calls, tasks
<1>3. CASE try_acquire(w)
  BY <1>3 DEF Typed, try_acquire, queues, flags, calls, tasks, MaxTokens
<1>4. CASE wait_for_task(w)
  BY Zenon, <1>4 DEF Typed, wait_for_task, TakeQueue, Exit, queues, flags, calls, tasks
<1>5. CASE give_up(w)
  BY Zenon, <1>5 DEF Typed, give_up, Exit, queues, flags, calls, tasks
<1>6. CASE time_out(w)
  BY Zenon, <1>6 DEF Typed, time_out, queues, flags, calls, tasks
<1>7. CASE queue_drained(w)
  BY Zenon, <1>7 DEF Typed, queue_drained, queues, flags, calls, tasks
<1>8. CASE finish_task(w)
  BY Zenon, <1>8, TasksAreItems DEF Typed, finish_task, queues, flags, calls
<1>9. CASE abort_exit(w)
  BY Zenon, <1>9 DEF Typed, abort_exit, Exit, queues, flags, calls, tasks
<1> QED
  BY Zenon, <1>1, <1>2, <1>3, <1>4, <1>5, <1>6, <1>7, <1>8, <1>9

\* balance_work chooses receivers among the workers, and not more than it may.
LEMMA ScanTyped ==
    ASSUME Typed, NEW w \in Workers, NEW most \in Nat, NEW found \in InScanOrder(w, most)
    PROVE  found \in Seq(Workers) /\ Len(found) <= most /\ Range(found) \subseteq idle_flags
<1>1. PICK n \in 0 .. most : found \in [1 .. n -> IdleBut(w[1], w[2])]
  BY Zenon DEF InScanOrder
<1>2. IdleBut(w[1], w[2]) \subseteq idle_flags /\ idle_flags \subseteq Workers
  BY Zenon DEF IdleBut, Typed
<1>3. found \in Seq(IdleBut(w[1], w[2])) /\ Len(found) = n
  BY <1>1
<1>4. Range(found) \subseteq IdleBut(w[1], w[2])
  BY Zenon, <1>3, Elements
<1>5. found \in [1 .. n -> Workers] /\ n \in Nat
  BY <1>1, <1>2
<1> QED
  BY <1>1, <1>2, <1>3, <1>4, <1>5

\* What balance_work does to a worker with at least one task.
LEMMA Balance ==
    ASSUME Typed, NEW w \in Workers, balance_work(w)
    PROVE  /\ private[w] # <<>> /\ pc[w] = "run" /\ idle_flags' \subseteq idle_flags
           /\ UNCHANGED <<queues, flags, running, cursor, owes, tasks, shut>>
           /\ \/ pc' = [pc EXCEPT ![w] = "pop"] /\ UNCHANGED <<idle_list, jobs>>
              \/ \E receivers \in Seq(Workers) :
                    /\ receivers # <<>> /\ pc' = [pc EXCEPT ![w] = "donate"]
                    /\ idle_list' = [idle_list EXCEPT ![w] = receivers]
                    /\ jobs' = [jobs EXCEPT ![w] = Deal(private[w], receivers, Len(receivers) + 1)]
                    /\ \/ Len(receivers) < Len(private[w])
                       \/ /\ idle_list[w] # <<>>
                          /\ \A i \in DOMAIN idle_list[w] :
                                i \in DOMAIN receivers /\ receivers[i] = idle_list[w][i]
<1> DEFINE most == Smaller(Size, Len(private[w])) - 1
<1>1. private[w] \in Seq(Items) /\ idle_list[w] \in Seq(Workers)
  BY Zenon DEF Typed
<1>2. private[w] # <<>> /\ UNCHANGED <<queues, flags, running, cursor, owes, tasks, shut>>
  BY Zenon DEF balance_work
<1>3. Len(private[w]) \in Nat \ {0} /\ most \in Nat /\ most < Len(private[w])
  BY <1>1, <1>2, Elements, SizeIsPositive DEF Smaller
<1>4. PICK found \in InScanOrder(w, most) :
        LET receivers == IF most = 0 THEN <<>> ELSE idle_list[w] \o found
        IN  /\ idle_flags' = idle_flags \ Range(found)
            /\ IF receivers = <<>>
               THEN Goes(w, "run", "pop") /\ UNCHANGED <<idle_list, jobs>>
               ELSE /\ Goes(w, "run", "donate")
                    /\ idle_list' = [idle_list EXCEPT ![w] = receivers]
                    /\ jobs' = [jobs EXCEPT ![w] =
                                  Deal(private[w], receivers, Len(receivers) + 1)]
  BY Zenon DEF balance_work
<1> HIDE DEF most
<1>5. found \in Seq(Workers) /\ Len(found) <= most /\ Len(found) \in Nat
  BY Zenon, <1>3, ScanTyped, Elements
<1> DEFINE receivers == IF most = 0 THEN <<>> ELSE idle_list[w] \o found
<1>6. pc[w] = "run" /\ idle_flags' \subseteq idle_flags
  BY Zenon, <1>4 DEF Goes
<1>7. CASE receivers = <<>>
  <2>1. pc' = [pc EXCEPT ![w] = "pop"] /\ UNCHANGED <<idle_list, jobs>>
    BY Zenon, <1>4, <1>7 DEF Goes
  <2> QED
    BY Zenon, <1>2, <1>6, <2>1
<1>8. CASE receivers # <<>>
  <2>1. /\ pc' = [pc EXCEPT ![w] = "donate"]
        /\ idle_list' = [idle_list EXCEPT ![w] = receivers]
        /\ jobs' = [jobs EXCEPT ![w] = Deal(private[w], receivers, Len(receivers) + 1)]
    BY Zenon, <1>4, <1>8 DEF Goes
  <2>2. receivers = idle_list[w] \o found
    BY Zenon, <1>8
  <2> HIDE DEF receivers
  <2>3. /\ receivers \in Seq(Workers) /\ Len(receivers) = Len(idle_list[w]) + Len(found)
        /\ \A i \in 1 .. Len(idle_list[w]) : receivers[i] = idle_list[w][i]
    BY Zenon, <1>1, <1>5, <2>2, Concat
  <2>4. /\ Len(idle_list[w]) \in Nat /\ DOMAIN idle_list[w] = 1 .. Len(idle_list[w])
        /\ DOMAIN receivers = 1 .. Len(receivers)
        /\ idle_list[w] = <<>> <=> Len(idle_list[w]) = 0
    BY Zenon, <1>1, <2>3, Elements
  <2>5. Len(receivers) < Len(private[w]) \/ idle_list[w] # <<>>
    BY <1>3, <1>5, <2>3, <2>4
  <2>6. \A i \in DOMAIN idle_list[w] : i \in DOMAIN receivers /\ receivers[i] = idle_list[w][i]
    BY <1>5, <2>3, <2>4
  <2> QED
    BY Zenon, <1>2, <1>6, <1>8, <2>1, <2>3, <2>5, <2>6 DEF receivers
<1> QED
  BY Zenon, <1>7, <1>8

\* The call that a thread makes next, and those that it has still to make.
LEMMA CallTyped ==
    ASSUME Typed, NEW t \in Threads, jobs[t] # <<>>
    PROVE  /\ Head(jobs[t]) \in Call /\ Head(jobs[t]) = jobs[t][1] /\ 1 \in DOMAIN jobs[t]
           /\ Head(jobs[t]).to \in Workers /\ Head(jobs[t]).tasks \in Seq(Items)
           /\ Tail(jobs[t]) \in Seq(Call) /\ Len(jobs[t]) \in Nat \ {0}
           /\ Len(Tail(jobs[t])) = Len(jobs[t]) - 1
           /\ \A j \in 1 .. Len(jobs[t]) - 1 : Tail(jobs[t])[j] = jobs[t][j + 1]
<1>1. jobs[t] \in Seq(Call)
  BY Zenon DEF Typed
<1>2. /\ Head(jobs[t]) \in Call /\ Head(jobs[t]) = jobs[t][1] /\ 1 \in DOMAIN jobs[t]
      /\ Tail(jobs[t]) \in Seq(Call) /\ Len(Tail(jobs[t])) = Len(jobs[t]) - 1
      /\ \A j \in 1 .. Len(jobs[t]) - 1 : Tail(jobs[t])[j] = jobs[t][j + 1]
  BY Zenon, <1>1, FirstAndRest
<1>3. Head(jobs[t]).to \in Workers /\ Head(jobs[t]).tasks \in Seq(Items)
  BY Zenon, <1>2 DEF Call
<1>4. Len(jobs[t]) \in Nat \ {0}
  BY <1>1, Elements
<1> QED
  BY Zenon, <1>2, <1>3, <1>4

\* How many donations a donor has still to make.
DonationsLeft == \A w \in Workers : DonatingTo(w) => Len(jobs[w]) \in 1 .. Len(idle_list[w])

\* What a worker that accepts a call assigns has the right types.
LEMMA TypedAccept ==
    ASSUME Typed, DonationsLeft, NEW t \in Threads, jobs[t] # <<>>, AcceptForeign(t)
    PROVE  /\ jobs' \in [Threads -> Seq(Call)] /\ owes' \in [Threads -> Workers \cup {NoWorker}]
           /\ m_task_found_or_abort' \in [Workers -> BOOLEAN] /\ m_idle' \in [Workers -> BOOLEAN]
           /\ public' \in [Workers -> Seq(Items)] /\ private' \in [Workers -> Seq(Items)]
           /\ idle_list' \in [Workers -> Seq(Workers)] /\ pc' \in [Workers -> Labels]
<1> DEFINE w == Head(jobs[t]).to
           s == Head(jobs[t]).tasks
           rest == Tail(jobs[t])
<1>1. w \in Workers /\ s \in Seq(Items) /\ rest \in Seq(Call) /\ Len(rest) = Len(jobs[t]) - 1
  BY Zenon, CallTyped
<1>2. /\ jobs' = [jobs EXCEPT ![t] = rest]
      /\ m_task_found_or_abort' = [m_task_found_or_abort EXCEPT ![w] = TRUE]
      /\ public' = [public EXCEPT ![w] = @ \o s]
      /\ private' = IF DonatingTo(t) THEN [private EXCEPT ![t] = Donated(t, Len(rest))]
                    ELSE private
      /\ idle_list' = IF DonatingTo(t) /\ rest = <<>> THEN [idle_list EXCEPT ![t] = <<>>]
                      ELSE idle_list
      /\ owes' = [owes EXCEPT ![t] =
                    IF ~m_idle[w] /\ public[w] = <<>> THEN w ELSE NoWorker]
      /\ m_idle' = [m_idle EXCEPT ![w] = FALSE]
      /\ pc' = [x \in Workers |-> IF x = w /\ m_idle[w] THEN "drain"
                                  ELSE IF (DonatingTo(t) /\ rest = <<>>) /\ x = t THEN "pop"
                                  ELSE pc[x]]
  BY Zenon DEF AcceptForeign
<1>3. public[w] \o s \in Seq(Items)
  BY Zenon, <1>1, Concat DEF Typed
<1>4. DonatingTo(t) => t \in Workers /\ Donated(t, Len(rest)) \in Seq(Items)
  <2> SUFFICES ASSUME DonatingTo(t) PROVE t \in Workers /\ Donated(t, Len(rest)) \in Seq(Items)
    BY Zenon
  <2>1. t \in Workers /\ private[t] \in Seq(Items) /\ idle_list[t] \in Seq(Workers)
    BY Zenon DEF DonatingTo, Typed
  <2>2. Len(jobs[t]) \in 1 .. Len(idle_list[t]) /\ Len(idle_list[t]) \in Nat
    BY Zenon, <2>1, Elements DEF DonationsLeft
  <2>3. Len(rest) \in Nat /\ Len(rest) < Len(idle_list[t])
    BY <1>1, <2>2
  <2>4. Null \in Items
    BY Zenon, TasksAreItems
  <2> QED
    BY Zenon, <2>1, <2>3, <2>4, DonatedQueue
<1> HIDE DEF w, s, rest
<1>5. jobs' \in [Threads -> Seq(Call)] /\ owes' \in [Threads -> Workers \cup {NoWorker}]
  BY Zenon, <1>1, <1>2 DEF Typed
<1>6. m_task_found_or_abort' \in [Workers -> BOOLEAN] /\ m_idle' \in [Workers -> BOOLEAN]
  BY Zenon, <1>1, <1>2 DEF Typed
<1>7. public' \in [Workers -> Seq(Items)] /\ private' \in [Workers -> Seq(Items)]
  BY Zenon, <1>2, <1>3, <1>4 DEF Typed
<1>8. idle_list' \in [Workers -> Seq(Workers)]
  BY Zenon, <1>2, <1>4, NoElements DEF Typed
<1>9. pc' \in [Workers -> Labels]
  BY Zenon, <1>2 DEF Typed, Labels
<1> QED
  BY Zenon, <1>5, <1>6, <1>7, <1>8, <1>9

\* Releasing a semaphore.
LEMMA ReleaseTyped ==
    ASSUME Typed, NEW w \in Workers, Release(w)
    PROVE  /\ sem' \in [Workers -> 0 .. MaxTokens] /\ sem'[w] > 0
           /\ \A x \in Workers : x # w => sem'[x] = sem[x]
<1>1. sem \in [Workers -> 0 .. 2]
  BY Zenon DEF Typed, MaxTokens
<1>2. CASE sem' = [sem EXCEPT ![w] = 1]
  BY <1>1, <1>2 DEF MaxTokens
<1>3. CASE sem[w] \in 1 .. MaxTokens - 1 /\ sem' = [sem EXCEPT ![w] = @ + 1]
  BY <1>1, <1>3 DEF MaxTokens
<1> QED
  BY Zenon, <1>2, <1>3 DEF Release

\* So have the results of the two halves of enqueue_foreign.
LEMMA TypedCalls ==
    ASSUME Typed, DonationsLeft, NEW t \in Threads, enqueue_foreign(t) \/ release_semaphore(t)
    PROVE  Typed'
<1>1. CASE release_semaphore(t)
  <2>1. sem' \in [Workers -> 0 .. MaxTokens]
    <3>1. owes[t] \in Workers /\ Release(owes[t])
      BY Zenon, <1>1 DEF Typed, release_semaphore
    <3> QED
      BY Zenon, <3>1, ReleaseTyped
  <2>2. owes' \in [Threads -> Workers \cup {NoWorker}]
    BY Zenon, <1>1 DEF Typed, release_semaphore
  <2> QED
    BY Zenon, <1>1, <2>1, <2>2 DEF Typed, release_semaphore, queues, tasks
<1>2. CASE enqueue_foreign(t)
  <2>1. jobs[t] # <<>> /\ UNCHANGED <<m_abort, m_atomic_abort, sem, idle_flags, cursor, made, shut>>
    BY Zenon, <1>2 DEF enqueue_foreign
  <2>2. CASE AcceptForeign(t)
    <3>1. UNCHANGED running
      BY Zenon, <2>2 DEF AcceptForeign
    <3> QED
      BY Zenon, <2>1, <2>2, <3>1, TypedAccept DEF Typed
  <2>3. CASE RefuseForeign(t)
    <3>1. jobs' = [jobs EXCEPT ![t] = <<>>] /\ UNCHANGED <<queues, m_idle, m_task_found_or_abort, owes, idle_list>>
      BY Zenon, <2>3 DEF RefuseForeign
    <3>2. jobs' \in [Threads -> Seq(Call)]
      BY Zenon, <3>1, NoElements DEF Typed
    <3>3. running' \in [Workers -> Items] /\ pc' \in [Workers -> Labels]
      <4>1. \/ UNCHANGED running
            \/ t \in Workers /\ running' = [running EXCEPT ![t] = Null]
        BY Zenon, <2>3 DEF RefuseForeign
      <4>2. UNCHANGED pc \/ pc' = [pc EXCEPT ![t] = "aborted"]
        BY Zenon, <2>3 DEF RefuseForeign, Goes
      <4>3. running' \in [Workers -> Items]
        BY Zenon, <4>1, TasksAreItems DEF Typed
      <4>4. pc' \in [Workers -> Labels]
        BY Zenon, <4>2 DEF Typed, Labels
      <4> QED
        BY Zenon, <4>3, <4>4
    <3> QED
      BY Zenon, <2>1, <3>1, <3>2, <3>3 DEF Typed, queues
  <2> QED
    BY Zenon, <1>2, <2>2, <2>3 DEF enqueue_foreign
<1> QED
  BY Zenon, <1>1, <1>2

\* Balancing and popping keep the types.
LEMMA TypedTasks ==
    ASSUME Typed, NEW w \in Workers, pc[w] = "pop" => private[w] # <<>>,
           balance_work(w) \/ pop_task(w)
    PROVE  Typed'
<1>1. CASE balance_work(w)
  <2>1. UNCHANGED <<queues, flags, running, cursor, owes, tasks, shut>>
    BY Zenon, <1>1, Balance
  <2>2. idle_flags' \subseteq Workers
    BY Zenon, <1>1, Balance DEF Typed
  <2>3. pc' \in [Workers -> Labels]
    <3>1. pc' = [pc EXCEPT ![w] = "pop"] \/ pc' = [pc EXCEPT ![w] = "donate"]
      BY Zenon, <1>1, Balance
    <3> QED
      BY Zenon, <3>1 DEF Typed, Labels
  <2>4. idle_list' \in [Workers -> Seq(Workers)] /\ jobs' \in [Threads -> Seq(Call)]
    <3>1. CASE UNCHANGED <<idle_list, jobs>>
      BY Zenon, <3>1 DEF Typed
    <3>2. ASSUME NEW receivers \in Seq(Workers),
                 idle_list' = [idle_list EXCEPT ![w] = receivers],
                 jobs' = [jobs EXCEPT ![w] = Deal(private[w], receivers, Len(receivers) + 1)]
          PROVE  idle_list' \in [Workers -> Seq(Workers)] /\ jobs' \in [Threads -> Seq(Call)]
      <4>1. Len(receivers) \in Nat
        BY Zenon, Elements
      <4>2. Len(receivers) + 1 \in Nat \ {0} /\ Len(receivers) <= Len(receivers) + 1
        BY <4>1
      <4>3. Deal(private[w], receivers, Len(receivers) + 1) \in Seq(Call)
        BY Zenon, <4>2, DealTyped DEF Typed
      <4> QED
        BY Zenon, <3>2, <4>3 DEF Typed
    <3> QED
      BY Zenon, <1>1, <3>1, <3>2, Balance
  <2> QED
    BY Zenon, <2>1, <2>2, <2>3, <2>4 DEF Typed, queues, flags, tasks
<1>2. CASE pop_task(w)
  <2>1. UNCHANGED <<public, flags, idle_list, idle_flags, cursor, calls, tasks, shut>>
    BY Zenon, <1>2 DEF pop_task
  <2>2. private[w] # <<>> /\ private[w] \in Seq(Items)
    BY Zenon, <1>2 DEF pop_task, Goes, Typed
  <2>3. SubSeq(private[w], 1, Len(private[w]) - 1) \in Seq(Items)
    BY Zenon, <2>2, WithoutLast
  <2>4. private[w][Len(private[w])] \in Items
    BY Zenon, <2>2, WithoutLast
  <2>5. private' \in [Workers -> Seq(Items)]
    <3>1. \/ UNCHANGED private
          \/ private' = [private EXCEPT ![w] = SubSeq(private[w], 1, Len(private[w]) - 1)]
      BY Zenon, <1>2 DEF pop_task
    <3> DEFINE s == SubSeq(private[w], 1, Len(private[w]) - 1)
    <3> HIDE DEF s
    <3>2. UNCHANGED private \/ private' = [private EXCEPT ![w] = s]
      BY Zenon, <3>1 DEF s
    <3>3. s \in Seq(Items)
      BY Zenon, <2>3 DEF s
    <3> QED
      BY Zenon, <3>2, <3>3 DEF Typed
  <2>6. running' \in [Workers -> Items] /\ pc' \in [Workers -> Labels]
    BY Zenon, <1>2, <2>4 DEF pop_task, Goes, Typed, Labels
  <2> QED
    BY Zenon, <2>1, <2>5, <2>6 DEF Typed, flags, calls, tasks
<1> QED
  BY Zenon, <1>1, <1>2

\* Enqueuing through the executor keeps the types.
LEMMA TypedEnqueue ==
    ASSUME Typed, EnqueueCall
    PROVE  Typed'
<1>0. made \in Nat /\ made \in 0 .. MaxTasks
  BY MaxTasksIsNat DEF Typed
<1>1. ASSUME NEW n \in Nat, Make(n)
      PROVE  /\ made' \in 0 .. MaxTasks /\ NextTasks(n) \in Seq(Items) /\ Len(NextTasks(n)) = n
  <2>1. made + n <= MaxTasks /\ made' = made + n
    BY Zenon, <1>1 DEF Make
  <2>2. \A i \in 1 .. n : made + i \in Items
    BY <1>0, <2>1, MaxTasksIsNat DEF Items, Tasks
  <2> QED
    BY <1>0, <2>1, <2>2, MaxTasksIsNat DEF NextTasks
<1>2. ASSUME NEW x \in Threads, NEW w \in Workers, NEW s \in Seq(Items),
             jobs' = [jobs EXCEPT ![x] = <<[to |-> w, tasks |-> s]>>]
      PROVE  jobs' \in [Threads -> Seq(Call)]
  <2>1. <<[to |-> w, tasks |-> s]>> \in Seq(Call)
    BY DEF Call
  <2> QED
    BY Zenon, <1>2, <2>1 DEF Typed
<1>3. ASSUME NEW c \in Clients, NEW p \in Pools, client_enqueue(c, p)
      PROVE  Typed'
  <2>1. /\ Make(1) /\ UNCHANGED <<queues, flags, idle_list, pc, running, owes, ran, dropped, shut>>
        /\ \/ \E w \in IdleBut(p, Size) :
                /\ idle_flags' = idle_flags \ {w}
                /\ jobs' = [jobs EXCEPT ![c] = <<[to |-> w, tasks |-> NextTasks(1)]>>]
                /\ UNCHANGED cursor
           \/ /\ jobs' = [jobs EXCEPT ![c] = <<[to |-> <<p, cursor[p]>>, tasks |-> NextTasks(1)]>>]
              /\ cursor' = [cursor EXCEPT ![p] = (@ + 1) % Size]
              /\ UNCHANGED idle_flags
    BY Zenon, <1>3 DEF client_enqueue
  <2>2. made' \in 0 .. MaxTasks /\ NextTasks(1) \in Seq(Items) /\ c \in Threads
    BY Zenon, <1>1, <2>1 DEF Threads
  <2>3. IdleBut(p, Size) \subseteq Workers /\ <<p, cursor[p]>> \in Workers
    BY Zenon, WorkerIsPair DEF Typed, IdleBut
  <2>4. jobs' \in [Threads -> Seq(Call)]
    BY Zenon, <1>2, <2>1, <2>2, <2>3
  <2>5. idle_flags' \subseteq Workers /\ cursor' \in [Pools -> 0 .. Size - 1]
    <3>1. \A i \in 0 .. Size - 1 : (i + 1) % Size \in 0 .. Size - 1
      BY SizeIsPositive
    <3>2. UNCHANGED cursor \/ cursor' = [cursor EXCEPT ![p] = (cursor[p] + 1) % Size]
      BY Zenon, <2>1
    <3>3. (cursor[p] + 1) % Size \in 0 .. Size - 1
      BY Zenon, <3>1 DEF Typed
    <3>4. cursor' \in [Pools -> 0 .. Size - 1]
      BY Zenon, <3>2, <3>3 DEF Typed
    <3>5. idle_flags' \subseteq idle_flags
      BY Zenon, <2>1
    <3> QED
      BY Zenon, <3>4, <3>5 DEF Typed
  <2> QED
    BY Zenon, <2>1, <2>2, <2>4, <2>5 DEF Typed, queues, flags
<1>4. ASSUME NEW c \in Clients, NEW p \in Pools, NEW n \in 1 .. MaxTasks, client_bulk_enqueue(c, p, n)
      PROVE  Typed'
  <2> DEFINE all == [j \in 1 .. Size |-> <<p, j - 1>>]
  <2>1. /\ Make(n) /\ jobs' = [jobs EXCEPT ![c] = Deal(NextTasks(n), all, Size)]
        /\ UNCHANGED <<queues, flags, idle_list, pc, running, idle_flags, cursor, owes, shut>>
    BY Zenon, <1>4 DEF client_bulk_enqueue
  <2>2. made' \in 0 .. MaxTasks /\ NextTasks(n) \in Seq(Items) /\ c \in Threads
    BY <1>1, <2>1 DEF Threads
  <2>3. all \in Seq(Workers) /\ Len(all) = Size
    <3>1. \A j \in 1 .. Size : <<p, j - 1>> \in Workers
      BY SizeIsPositive, WorkerIsPair
    <3> QED
      BY <3>1, SizeIsPositive
  <2> HIDE DEF all
  <2>4. Deal(NextTasks(n), all, Size) \in Seq(Call)
    BY <2>2, <2>3, SizeIsPositive, DealTyped
  <2>5. jobs' \in [Threads -> Seq(Call)]
    BY Zenon, <2>1, <2>2, <2>4 DEF Typed
  <2> QED
    BY Zenon, <2>1, <2>2, <2>5 DEF Typed, queues, flags
<1>5. ASSUME NEW w \in Workers, NEW n \in Nat, Make(n), enqueue_local(w, n)
      PROVE  /\ idle_flags' \subseteq Workers /\ jobs' \in [Threads -> Seq(Call)]
             /\ private' \in [Workers -> Seq(Items)] /\ running' \in [Workers -> Items]
             /\ pc' \in [Workers -> Labels] /\ made' \in 0 .. MaxTasks
  <2>1. NextTasks(n) \in Seq(Items) /\ private[w] \in Seq(Items) /\ made' \in 0 .. MaxTasks
    BY Zenon, <1>1, <1>5 DEF Typed
  <2>2. private[w] \o NextTasks(n) \in Seq(Items)
    BY Zenon, <2>1, Concat
  <2>3. private' \in [Workers -> Seq(Items)]
    <3>1. UNCHANGED private \/ private' = [private EXCEPT ![w] = @ \o NextTasks(n)]
      BY Zenon, <1>5 DEF enqueue_local
    <3> QED
      BY Zenon, <2>2, <3>1 DEF Typed
  <2>4. running' \in [Workers -> Items]
    <3>1. UNCHANGED running \/ running' = [running EXCEPT ![w] = Null]
      BY Zenon, <1>5 DEF enqueue_local
    <3> QED
      BY Zenon, <3>1, TasksAreItems DEF Typed
  <2>5. pc' \in [Workers -> Labels]
    <3>1. UNCHANGED pc \/ pc' = [pc EXCEPT ![w] = "aborted"]
      BY Zenon, <1>5 DEF enqueue_local, Goes
    <3> QED
      BY Zenon, <3>1 DEF Typed, Labels
  <2>6. idle_flags' \subseteq Workers /\ jobs' \in [Threads -> Seq(Call)]
    BY Zenon, <1>5 DEF enqueue_local, Typed
  <2> QED
    BY Zenon, <2>1, <2>3, <2>4, <2>5, <2>6
<1>6. ASSUME NEW w \in Workers, NEW p \in Pools, worker_enqueue(w, p)
      PROVE  Typed'
  <2>1. Make(1) /\ UNCHANGED <<public, flags, idle_list, cursor, owes, shut>>
    BY Zenon, <1>6 DEF worker_enqueue
  <2>2. CASE enqueue_local(w, 1)
    BY Zenon, <1>5, <2>1, <2>2 DEF Typed, flags
  <2>3. CASE /\ \E x \in IdleBut(p, w[2]) :
                   /\ idle_flags' = idle_flags \ {x}
                   /\ jobs' = [jobs EXCEPT ![w] = <<[to |-> x, tasks |-> NextTasks(1)]>>]
             /\ UNCHANGED <<private, dropped, ran, running, pc>>
    <3>1. made' \in 0 .. MaxTasks /\ NextTasks(1) \in Seq(Items) /\ w \in Threads
      BY Zenon, <1>1, <2>1 DEF Threads
    <3>2. IdleBut(p, w[2]) \subseteq Workers
      BY Zenon DEF Typed, IdleBut
    <3>3. jobs' \in [Threads -> Seq(Call)]
      BY Zenon, <1>2, <2>3, <3>1, <3>2
    <3>4. idle_flags' \subseteq Workers
      BY Zenon, <2>3 DEF Typed
    <3> QED
      BY Zenon, <2>1, <2>3, <3>1, <3>3, <3>4 DEF Typed, flags
  <2> QED
    BY Zenon, <1>6, <2>2, <2>3 DEF worker_enqueue
<1>7. ASSUME NEW w \in Workers, NEW p \in Pools, NEW n \in 1 .. MaxTasks, worker_bulk_enqueue(w, p, n)
      PROVE  Typed'
  <2>1. /\ Make(n) /\ UNCHANGED <<public, flags, idle_list, cursor, owes, shut>>
        /\ enqueue_local(w, n)
    BY Zenon, <1>7 DEF worker_bulk_enqueue
  <2> QED
    BY <1>5, <2>1 DEF Typed, flags
<1> QED
  BY Zenon, <1>3, <1>4, <1>6, <1>7 DEF EnqueueCall

\* Shutting a pool down keeps the types.
LEMMA TypedShutdown ==
    ASSUME Typed, NEW p \in Pools, shutdown(p) \/ ShutdownStep(p),
           shut[p].step \in {"lock", "announce", "release", "join"} => shut[p].at < Size
    PROVE  Typed'
<1>0. shut[p] \in [at : 0 .. Size, step : {"no", "atomic", "lock", "announce", "release", "join"}]
  BY Zenon DEF Typed
<1>1. ASSUME NEW from, NEW to \in {"no", "atomic", "lock", "announce", "release", "join"},
             ShutGoes(p, from, to)
      PROVE  shut' \in [Pools -> [at : 0 .. Size,
                                  step : {"no", "atomic", "lock", "announce", "release", "join"}]]
  BY Zenon, <1>0, <1>1 DEF Typed, ShutGoes
<1>2. ASSUME shut[p].at < Size
      PROVE  Shutting(p) \in Workers
  BY <1>0, <1>2, SizeIsPositive DEF Shutting, Workers
<1>3. CASE shutdown(p)
  <2>1. ShutGoes(p, "no", "atomic")
    BY Zenon, <1>3 DEF shutdown
  <2> QED
    BY Zenon, <1>1, <1>3, <2>1 DEF Typed, shutdown, queues, flags, calls, tasks
<1>4. CASE shutdown_atomic_abort(p)
  <2>1. ShutGoes(p, "atomic", "lock")
    BY Zenon, <1>4 DEF shutdown_atomic_abort
  <2> QED
    BY Zenon, <1>1, <1>4, <2>1 DEF Typed, shutdown_atomic_abort, queues, flags, calls, tasks
<1>5. CASE shutdown_abort(p)
  <2>1. ShutGoes(p, "lock", "announce")
    BY Zenon, <1>5 DEF shutdown_abort
  <2> QED
    BY Zenon, <1>1, <1>5, <2>1 DEF Typed, shutdown_abort, queues, flags, calls, tasks
<1>6. CASE shutdown_announce(p)
  <2>1. ShutGoes(p, "announce", "release")
    BY Zenon, <1>6 DEF shutdown_announce
  <2> QED
    BY Zenon, <1>1, <1>6, <2>1 DEF Typed, shutdown_announce, queues, flags, calls, tasks
<1>7. CASE shutdown_release(p)
  <2>1. ShutGoes(p, "release", "join")
    BY Zenon, <1>7 DEF shutdown_release
  <2>2. sem' \in [Workers -> 0 .. MaxTokens]
    <3>1. Shutting(p) \in Workers /\ Release(Shutting(p))
      BY Zenon, <1>2, <1>7, <2>1 DEF shutdown_release, ShutGoes
    <3> QED
      BY Zenon, <3>1, ReleaseTyped
  <2> QED
    BY Zenon, <1>1, <1>7, <2>1, <2>2 DEF Typed, shutdown_release, queues, flags, calls, tasks
<1>8. CASE shutdown_join(p)
  <2>1. shut' \in [Pools -> [at : 0 .. Size,
                             step : {"no", "atomic", "lock", "announce", "release", "join"}]]
    <3>1. shut' = [shut EXCEPT ![p] = [at |-> shut[p].at + 1, step |-> "atomic"]]
      BY Zenon, <1>8 DEF shutdown_join
    <3>2. shut[p].at + 1 \in 0 .. Size
      BY <1>0, <1>8, SizeIsPositive DEF shutdown_join
    <3> QED
      BY Zenon, <3>1, <3>2 DEF Typed
  <2>2. private' \in [Workers -> Seq(Items)] /\ public' \in [Workers -> Seq(Items)]
    <3>1. /\ private' = [private EXCEPT ![Shutting(p)] = <<>>]
          /\ public' = [public EXCEPT ![Shutting(p)] = <<>>]
      BY Zenon, <1>8 DEF shutdown_join
    <3>2. <<>> \in Seq(Items) /\ Typed
      OBVIOUS
    <3>3. private' \in [Workers -> Seq(Items)]
      BY Zenon, <3>1, <3>2 DEF Typed
    <3>4. public' \in [Workers -> Seq(Items)]
      BY Zenon, <3>1, <3>2 DEF Typed
    <3> QED
      BY Zenon, <3>3, <3>4
  <2> QED
    BY Zenon, <1>8, <2>1, <2>2 DEF Typed, shutdown_join, flags, calls
<1> QED
  BY Zenon, <1>3, <1>4, <1>5, <1>6, <1>7, <1>8 DEF ShutdownStep

\* What the type of the next state needs of the invariants.
LEMMA TypedNext ==
    ASSUME Typed, DonationsLeft, [Next]_vars,
           \A w \in Workers : pc[w] = "pop" => private[w] # <<>>,
           \A p \in Pools :
               shut[p].step \in {"lock", "announce", "release", "join"} => shut[p].at < Size
    PROVE  Typed'
<1>1. ASSUME NEW w \in Workers, WorkerStep(w) \/ time_out(w)
      PROVE  Typed'
  BY Zenon, <1>1, TypedWorkers, TypedTasks DEF WorkerStep
<1>2. ASSUME NEW t \in Threads, CallStep(t)
      PROVE  Typed'
  BY Zenon, <1>2, TypedCalls DEF CallStep
<1>3. ASSUME NEW p \in Pools, shutdown(p) \/ ShutdownStep(p)
      PROVE  Typed'
  BY Zenon, <1>3, TypedShutdown
<1>4. CASE UNCHANGED vars
  BY Zenon, <1>4 DEF Typed, vars, queues, flags, calls, tasks
<1> QED
  BY Zenon, <1>1, <1>2, <1>3, <1>4, TypedEnqueue DEF Next

-----------------------------------------------------------------------------
(* Threads, flags and shutdown.                                            *)

\* Only shutdown changes the flags that tell a worker to abort.
LEMMA OnlyShutdownAborts ==
    ASSUME [Next]_vars
    PROVE  \/ UNCHANGED <<m_abort, m_atomic_abort, shut>>
           \/ \E p \in Pools : shutdown(p) \/ ShutdownStep(p)
<1>1. ASSUME NEW w \in Workers, WorkerStep(w) \/ time_out(w)
      PROVE  UNCHANGED <<m_abort, m_atomic_abort, shut>>
  BY Zenon, <1>1 DEF WorkerStep, time_out, drain_queue, mark_worker_idle, try_acquire, wait_for_task,
     give_up, queue_drained, balance_work, pop_task, finish_task, abort_exit, TakeQueue, Exit, flags
<1>2. ASSUME NEW t \in Threads, CallStep(t)
      PROVE  UNCHANGED <<m_abort, m_atomic_abort, shut>>
  BY Zenon, <1>2 DEF CallStep, enqueue_foreign, release_semaphore
<1>3. CASE EnqueueCall
  BY Zenon, <1>3 DEF EnqueueCall, client_enqueue, client_bulk_enqueue, worker_enqueue,
     worker_bulk_enqueue, flags
<1>4. CASE UNCHANGED vars
  BY Zenon, <1>4 DEF vars, flags
<1> QED
  BY Zenon, <1>1, <1>2, <1>3, <1>4 DEF Next

\* How far shutdown is.
Steps == {"no", "atomic", "lock", "announce", "release", "join"}

\* What a step of shutdown does to the flags.
LEMMA ShutdownFlags ==
    ASSUME Typed, Flags, NEW p \in Pools, shutdown(p) \/ ShutdownStep(p)
    PROVE  /\ Flags' /\ (\A w \in Workers : m_abort[w] => m_abort'[w]) /\ shut'[p].step # "no"
           /\ \A x \in Pools : shut[x].step # "no" => shut'[x].step # "no"
<1>0. /\ shut \in [Pools -> [at : 0 .. Size, step : Steps]]
      /\ m_abort \in [Workers -> BOOLEAN] /\ m_atomic_abort \in [Workers -> BOOLEAN]
  BY Zenon DEF Typed, Steps
<1>1. /\ shut[p] = [at |-> shut[p].at, step |-> shut[p].step]
      /\ shut[p].at \in 0 .. Size /\ shut[p].step \in Steps
  BY Zenon, <1>0
<1>2. \A w \in Workers : w[1] \in Pools /\ w[2] \in 0 .. Size - 1
  BY Zenon, WorkerIsPair
<1>3. Size \in Nat
  BY Zenon, SizeIsPositive
<1>4. \A w \in Workers : w = Shutting(p) <=> w[1] = p /\ w[2] = shut[p].at
  BY Zenon, WorkerIsPair DEF Shutting
<1>5. ASSUME NEW from, NEW to \in Steps \ {"no"}, ShutGoes(p, from, to)
      PROVE  /\ shut[p].step = from /\ shut'[p].step = to /\ shut'[p].at = shut[p].at
             /\ \A x \in Pools : x # p => shut'[x] = shut[x]
  BY Zenon, <1>0, <1>1, <1>5 DEF ShutGoes
<1> HIDE DEF Steps
<1>6. CASE shutdown(p)
  <2>1. ShutGoes(p, "no", "atomic") /\ UNCHANGED <<m_abort, m_atomic_abort>>
    BY Zenon, <1>6 DEF shutdown, flags
  <2>2. /\ shut[p].step = "no" /\ shut'[p].step = "atomic" /\ shut'[p].at = shut[p].at
        /\ \A x \in Pools : x # p => shut'[x] = shut[x]
    BY Zenon, <1>5, <2>1 DEF Steps
  <2> QED
    BY <1>2, <2>1, <2>2 DEF Flags
<1>7. CASE shutdown_atomic_abort(p)
  <2>1. /\ ShutGoes(p, "atomic", "lock") /\ shut[p].at < Size /\ UNCHANGED m_abort
        /\ m_atomic_abort' = [m_atomic_abort EXCEPT ![Shutting(p)] = TRUE]
    BY Zenon, <1>7 DEF shutdown_atomic_abort
  <2>2. /\ shut[p].step = "atomic" /\ shut'[p].step = "lock" /\ shut'[p].at = shut[p].at
        /\ \A x \in Pools : x # p => shut'[x] = shut[x]
    BY Zenon, <1>5, <2>1 DEF Steps
  <2>3. \A w \in Workers : m_atomic_abort'[w] => m_atomic_abort[w] \/ w[1] = p
    BY Zenon, <1>0, <1>4, <2>1
  <2> QED
    BY <1>2, <2>1, <2>2, <2>3 DEF Flags
<1>8. CASE shutdown_abort(p)
  <2>1. /\ ShutGoes(p, "lock", "announce") /\ UNCHANGED m_atomic_abort
        /\ m_abort' = [m_abort EXCEPT ![Shutting(p)] = TRUE]
    BY Zenon, <1>8 DEF shutdown_abort
  <2>2. /\ shut[p].step = "lock" /\ shut'[p].step = "announce" /\ shut'[p].at = shut[p].at
        /\ \A x \in Pools : x # p => shut'[x] = shut[x]
    BY Zenon, <1>5, <2>1 DEF Steps
  <2>3. \A w \in Workers : m_abort'[w] <=> m_abort[w] \/ (w[1] = p /\ w[2] = shut[p].at)
    BY Zenon, <1>0, <1>4, <2>1
  <2> QED
    BY <1>2, <2>1, <2>2, <2>3 DEF Flags
<1>9. CASE shutdown_announce(p)
  <2>1. ShutGoes(p, "announce", "release") /\ UNCHANGED <<m_abort, m_atomic_abort>>
    BY Zenon, <1>9 DEF shutdown_announce
  <2>2. /\ shut[p].step = "announce" /\ shut'[p].step = "release" /\ shut'[p].at = shut[p].at
        /\ \A x \in Pools : x # p => shut'[x] = shut[x]
    BY Zenon, <1>5, <2>1 DEF Steps
  <2> QED
    BY <1>2, <2>1, <2>2 DEF Flags
<1>10. CASE shutdown_release(p)
  <2>1. ShutGoes(p, "release", "join") /\ UNCHANGED <<m_abort, m_atomic_abort>>
    BY Zenon, <1>10 DEF shutdown_release
  <2>2. /\ shut[p].step = "release" /\ shut'[p].step = "join" /\ shut'[p].at = shut[p].at
        /\ \A x \in Pools : x # p => shut'[x] = shut[x]
    BY Zenon, <1>5, <2>1 DEF Steps
  <2> QED
    BY <1>2, <2>1, <2>2 DEF Flags
<1>11. CASE shutdown_join(p)
  <2>1. /\ shut[p].step = "join" /\ UNCHANGED <<m_abort, m_atomic_abort>>
        /\ shut' = [shut EXCEPT ![p] = [at |-> shut[p].at + 1, step |-> "atomic"]]
    BY Zenon, <1>11 DEF shutdown_join, flags
  <2>2. /\ shut'[p].step = "atomic" /\ shut'[p].at = shut[p].at + 1
        /\ \A x \in Pools : x # p => shut'[x] = shut[x]
    BY Zenon, <1>0, <2>1
  <2> QED
    BY <1>1, <1>2, <1>3, <2>1, <2>2 DEF Flags
<1> QED
  BY Zenon, <1>6, <1>7, <1>8, <1>9, <1>10, <1>11 DEF ShutdownStep

\* An abort flag that is set tells of a shutdown.
LEMMA AbortMeansShutdown ==
    ASSUME Typed, Flags, NEW w \in Workers, m_abort[w] \/ m_atomic_abort[w]
    PROVE  ~Open
<1>1. w[1] \in Pools /\ w[2] \in 0 .. Size - 1
  BY Zenon, WorkerIsPair
<1>2. shut[w[1]].step = "no" => shut[w[1]].at = 0 /\ ~m_abort[w] /\ ~m_atomic_abort[w]
  BY <1>1, SizeIsPositive DEF Flags
<1> QED
  BY Zenon, <1>1, <1>2 DEF Open

\* A thread leaves work_loop with tasks in its hands only at a shutdown.
LEMMA AbortsStep ==
    ASSUME Typed, Typed', Aborts, [Next]_vars
    PROVE  Aborts' /\ (\A w \in Workers : m_abort[w] => m_abort'[w]) /\ (~Open => ~Open')
<1>1. Flags /\ \A w \in Workers : pc[w] = "aborted" => ~Open
  BY Zenon DEF Aborts
<1>2. Flags' /\ (\A w \in Workers : m_abort[w] => m_abort'[w]) /\ (~Open => ~Open')
  <2>1. CASE UNCHANGED <<m_abort, m_atomic_abort, shut>>
    BY Zenon, <1>1, <2>1 DEF Flags, Open
  <2>2. ASSUME NEW p \in Pools, shutdown(p) \/ ShutdownStep(p)
        PROVE  Flags' /\ (\A w \in Workers : m_abort[w] => m_abort'[w]) /\ (~Open => ~Open')
    BY Zenon, <1>1, <2>2, ShutdownFlags DEF Open
  <2> QED
    BY Zenon, <2>1, <2>2, OnlyShutdownAborts
<1>3. ASSUME NEW x \in Workers, pc'[x] = "aborted"
      PROVE  pc[x] = "aborted" \/ ~Open
  <2>0. pc \in [Workers -> Labels]
    BY Zenon DEF Typed
  <2>1. ASSUME NEW w \in Workers, NEW from, NEW to, to # "aborted", Goes(w, from, to)
        PROVE  pc[x] = "aborted"
    BY Zenon, <1>3, <2>0, <2>1 DEF Goes
  <2>2. ASSUME NEW w \in Workers, WorkerStep(w) \/ time_out(w)
        PROVE  pc[x] = "aborted" \/ ~Open
    <3>1. CASE pop_task(w)
      <4>1. CASE m_atomic_abort[w]
        BY Zenon, <1>1, <4>1, AbortMeansShutdown
      <4>2. CASE Goes(w, "pop", "task")
        BY Zenon, <2>1, <4>2
      <4> QED
        BY Zenon, <3>1, <4>1, <4>2 DEF pop_task
    <3>2. CASE balance_work(w)
      <4>1. Goes(w, "run", "pop") \/ Goes(w, "run", "donate")
        BY Zenon, <3>2 DEF balance_work
      <4> QED
        BY Zenon, <2>1, <4>1
    <3>3. CASE try_acquire(w)
      <4>1. Goes(w, "wait", "found") \/ Goes(w, "wait", "wait")
        BY Zenon, <3>3 DEF try_acquire
      <4> QED
        BY Zenon, <2>1, <4>1
    <3>4. CASE drain_queue(w) \/ wait_for_task(w)
      <4>1. \/ Goes(w, "drain", "none") \/ Goes(w, "drain", "run") \/ Goes(w, "drain", "mark_idle")
            \/ Goes(w, "found", "none") \/ Goes(w, "found", "run") \/ Goes(w, "found", "wait")
        BY Zenon, <3>4 DEF drain_queue, wait_for_task, TakeQueue, Exit
      <4> QED
        BY Zenon, <2>1, <4>1
    <3>5. CASE \/ mark_worker_idle(w) \/ time_out(w) \/ give_up(w) \/ queue_drained(w)
               \/ finish_task(w) \/ abort_exit(w)
      <4>1. \/ Goes(w, "mark_idle", "wait") \/ Goes(w, "wait", "timed_out")
            \/ Goes(w, "timed_out", "none") \/ Goes(w, "run", "drain") \/ Goes(w, "task", "run")
            \/ Goes(w, "aborted", "none")
        BY Zenon, <3>5 DEF mark_worker_idle, time_out, give_up, queue_drained, finish_task,
           abort_exit, Exit
      <4> QED
        BY Zenon, <2>1, <4>1
    <3> QED
      BY Zenon, <2>2, <3>1, <3>2, <3>3, <3>4, <3>5 DEF WorkerStep
  <2>3. ASSUME NEW t \in Threads, CallStep(t)
        PROVE  pc[x] = "aborted" \/ ~Open
    <3>1. CASE release_semaphore(t)
      BY Zenon, <1>3, <3>1 DEF release_semaphore
    <3>2. CASE enqueue_foreign(t)
      <4>1. Head(jobs[t]).to \in Workers
        BY Zenon, <3>2, CallTyped DEF enqueue_foreign
      <4>2. CASE m_abort[Head(jobs[t]).to]
        BY Zenon, <1>1, <4>1, <4>2, AbortMeansShutdown
      <4>3. CASE AcceptForeign(t)
        <5>1. pc' = [y \in Workers |-> IF y = Head(jobs[t]).to /\ m_idle[Head(jobs[t]).to] THEN "drain"
                                       ELSE IF (DonatingTo(t) /\ Tail(jobs[t]) = <<>>) /\ y = t
                                            THEN "pop" ELSE pc[y]]
          BY Zenon, <4>3 DEF AcceptForeign
        <5> QED
          BY Zenon, <1>3, <5>1
      <4> QED
        BY Zenon, <3>2, <4>2, <4>3 DEF enqueue_foreign
    <3> QED
      BY Zenon, <2>3, <3>1, <3>2 DEF CallStep
  <2>4. CASE EnqueueCall
    <3>1. \/ UNCHANGED pc
          \/ \E w \in Workers : m_atomic_abort[w]
      BY Zenon, <2>4 DEF EnqueueCall, client_enqueue, client_bulk_enqueue, worker_enqueue,
         worker_bulk_enqueue, enqueue_local
    <3> QED
      BY Zenon, <1>1, <1>3, <3>1, AbortMeansShutdown
  <2>5. ASSUME NEW p \in Pools, shutdown(p) \/ ShutdownStep(p)
        PROVE  pc[x] = "aborted" \/ ~Open
    BY Zenon, <1>3, <2>5 DEF shutdown, ShutdownStep, shutdown_atomic_abort, shutdown_abort,
       shutdown_announce, shutdown_release, shutdown_join
  <2>6. CASE UNCHANGED vars
    BY Zenon, <1>3, <2>6 DEF vars
  <2> QED
    BY Zenon, <2>2, <2>3, <2>4, <2>5, <2>6 DEF Next
<1> QED
  BY Zenon, <1>1, <1>2, <1>3 DEF Aborts

\* What a step of a worker's thread leaves alone.
LEMMA OtherWorkers ==
    ASSUME Typed, NEW w \in Workers, WorkerStep(w) \/ time_out(w)
    PROVE  /\ UNCHANGED <<owes, m_abort, m_atomic_abort, shut>>
           /\ \A x \in Workers : x # w =>
                /\ pc'[x] = pc[x] /\ private'[x] = private[x] /\ public'[x] = public[x]
                /\ m_idle'[x] = m_idle[x] /\ sem'[x] = sem[x] /\ running'[x] = running[x]
                /\ m_task_found_or_abort'[x] = m_task_found_or_abort[x]
                /\ jobs'[x] = jobs[x] /\ idle_list'[x] = idle_list[x]
<1>1. /\ UNCHANGED pc \/ \E v : pc' = [pc EXCEPT ![w] = v]
      /\ UNCHANGED private \/ \E v : private' = [private EXCEPT ![w] = v]
      /\ UNCHANGED public \/ \E v : public' = [public EXCEPT ![w] = v]
      /\ UNCHANGED m_idle \/ \E v : m_idle' = [m_idle EXCEPT ![w] = v]
      /\ UNCHANGED sem \/ \E v : sem' = [sem EXCEPT ![w] = v]
      /\ UNCHANGED running \/ \E v : running' = [running EXCEPT ![w] = v]
      /\ \/ UNCHANGED m_task_found_or_abort
         \/ \E v : m_task_found_or_abort' = [m_task_found_or_abort EXCEPT ![w] = v]
      /\ UNCHANGED jobs \/ \E v : jobs' = [jobs EXCEPT ![w] = v]
      /\ UNCHANGED idle_list \/ \E v : idle_list' = [idle_list EXCEPT ![w] = v]
      /\ UNCHANGED <<owes, m_abort, m_atomic_abort, shut>>
  BY Zenon DEF WorkerStep, time_out, drain_queue, mark_worker_idle, try_acquire, wait_for_task,
     give_up, queue_drained, balance_work, pop_task, finish_task, abort_exit, TakeQueue, Exit, Goes,
     flags, queues, calls
<1>2. \A x \in Workers : x \in Threads
  BY Zenon DEF Threads
<1>3. /\ pc \in [Workers -> Labels] /\ private \in [Workers -> Seq(Items)]
      /\ public \in [Workers -> Seq(Items)] /\ m_idle \in [Workers -> BOOLEAN]
      /\ sem \in [Workers -> 0 .. MaxTokens] /\ running \in [Workers -> Items]
      /\ m_task_found_or_abort \in [Workers -> BOOLEAN] /\ jobs \in [Threads -> Seq(Call)]
      /\ idle_list \in [Workers -> Seq(Workers)]
  BY Zenon DEF Typed
<1> QED
  BY Zenon, <1>1, <1>2, <1>3

\* A worker to which nothing happens.
LEMMA Untouched ==
    ASSUME NEW x \in Workers, Controlled(x), UNCHANGED <<m_abort, shut>>,
           /\ pc'[x] = pc[x] /\ private'[x] = private[x] /\ public'[x] = public[x]
           /\ m_idle'[x] = m_idle[x] /\ running'[x] = running[x]
           /\ m_task_found_or_abort'[x] = m_task_found_or_abort[x]
           /\ jobs'[x] = jobs[x] /\ owes'[x] = owes[x],
           sem[x] > 0 => sem'[x] > 0, Announced(x) => Announced(x)'
    PROVE  Controlled(x)'
<1>1. Caller(x)'
  BY Zenon DEF Controlled, Caller
<1>2. Active(x)' /\ Quiet(x)' /\ EmptyUntilShutdown(x)'
  BY Zenon DEF Controlled, Active, Quiet, EmptyUntilShutdown, Open
<1>3. Woken(x)'
  BY Zenon DEF Controlled, Woken
<1> QED
  BY Zenon, <1>1, <1>2, <1>3 DEF Controlled

\* Whatever the thread of a worker does next, it stays under control.
LEMMA ControlledThread ==
    ASSUME Typed, Flags, NEW w \in Workers, Controlled(w), WorkerStep(w) \/ time_out(w),
           pc[w] = "aborted" => ~Open
    PROVE  Controlled(w)'
<1>0. /\ pc \in [Workers -> Labels] /\ private \in [Workers -> Seq(Items)]
      /\ public \in [Workers -> Seq(Items)] /\ m_idle \in [Workers -> BOOLEAN]
      /\ sem \in [Workers -> 0 .. MaxTokens] /\ running \in [Workers -> Items]
      /\ m_task_found_or_abort \in [Workers -> BOOLEAN] /\ jobs \in [Threads -> Seq(Call)]
      /\ w \in Threads
  BY Zenon DEF Typed, Threads
<1>1. w[2] < shut[w[1]].at => m_abort[w] /\ pc[w] = "none"
  BY Zenon DEF Flags, Controlled, Quiet
<1>2. UNCHANGED <<owes, m_abort, m_atomic_abort, shut>>
  BY Zenon, OtherWorkers
<1>3. (Announced(w)' <=> sem'[w] > 0 \/ \E t \in Threads : owes[t] = w) /\ (Open' <=> Open)
  BY Zenon, <1>2 DEF Announced, Open
<1> USE <1>0, <1>1, <1>2, <1>3
<1> DEFINE Rest == UNCHANGED <<queues, running, calls>>
<1>4. ASSUME NEW from \in {"drain", "found", "timed_out", "aborted"}, Exit(w, from), Rest,
             from = "aborted" => ~Open
      PROVE  Controlled(w)'
  <2>1. /\ pc[w] = from /\ pc'[w] = "none" /\ m_idle'[w]
        /\ UNCHANGED <<private, public, running, jobs, owes>>
    BY Zenon, <1>4 DEF Exit, Goes, queues, calls
  <2> QED
    BY Zenon, <1>4, <2>1 DEF Controlled, Caller, Active, Quiet, EmptyUntilShutdown, Woken
<1>5. CASE drain_queue(w)
  <2>1. CASE Exit(w, "drain") /\ Rest
    BY Zenon, <1>4, <2>1
  <2>2. CASE /\ Goes(w, "drain", "run") /\ UNCHANGED <<m_idle, running, jobs>>
    BY Zenon, <2>2 DEF Goes, Controlled, Caller, Active, Quiet, EmptyUntilShutdown, Woken
  <2>3. CASE /\ public[w] = <<>> /\ ~m_abort[w] /\ Goes(w, "drain", "mark_idle")
             /\ UNCHANGED <<private, public, m_idle, running, jobs>>
    BY Zenon, <2>3 DEF Goes, Controlled, Caller, Active, Quiet, EmptyUntilShutdown, Woken
  <2> QED
    BY Zenon, <1>5, <2>1, <2>2, <2>3 DEF drain_queue, TakeQueue, queues, flags, calls
<1>6. CASE mark_worker_idle(w)
  <2>1. /\ Goes(w, "mark_idle", "wait")
        /\ UNCHANGED <<private, public, m_idle, m_task_found_or_abort, sem, running, jobs>>
    BY Zenon, <1>6 DEF mark_worker_idle, queues, flags, calls
  <2> QED
    BY Zenon, <2>1 DEF Goes, Controlled, Caller, Active, Quiet, EmptyUntilShutdown, Woken, Announced
<1>7. CASE try_acquire(w)
  <2>1. /\ pc[w] = "wait" /\ pc'[w] = IF m_task_found_or_abort[w] THEN "found" ELSE "wait"
        /\ UNCHANGED <<private, public, m_idle, m_task_found_or_abort, running, jobs>>
    BY Zenon, <1>7 DEF try_acquire, queues, calls, Goes
  <2> QED
    BY Zenon, <2>1 DEF Controlled, Caller, Active, Quiet, EmptyUntilShutdown, Woken
<1>8. CASE wait_for_task(w)
  <2>1. CASE Exit(w, "found") /\ Rest
    BY Zenon, <1>4, <2>1
  <2>2. CASE Goes(w, "found", "run") /\ UNCHANGED <<m_idle, running, jobs>>
    BY Zenon, <2>2 DEF Goes, Controlled, Caller, Active, Quiet, EmptyUntilShutdown, Woken
  <2>3. CASE /\ public[w] = <<>> /\ ~m_abort[w] /\ Goes(w, "found", "wait")
             /\ UNCHANGED <<private, public, m_idle, running, jobs>>
    BY Zenon, <2>3 DEF Goes, Controlled, Caller, Active, Quiet, EmptyUntilShutdown, Woken
  <2> QED
    BY Zenon, <1>8, <2>1, <2>2, <2>3 DEF wait_for_task, TakeQueue, queues, flags, calls
<1>9. CASE time_out(w)
  <2>1. /\ Goes(w, "wait", "timed_out")
        /\ UNCHANGED <<private, public, m_idle, running, jobs>>
    BY Zenon, <1>9 DEF time_out, queues, flags, calls
  <2> QED
    BY Zenon, <2>1 DEF Goes, Controlled, Caller, Active, Quiet, EmptyUntilShutdown, Woken
<1>10. CASE give_up(w)
  <2>1. Exit(w, "timed_out") /\ Rest
    BY Zenon, <1>10 DEF give_up
  <2> QED
    BY Zenon, <1>4, <2>1
<1>11. CASE abort_exit(w)
  <2>1. Exit(w, "aborted") /\ Rest /\ pc[w] = "aborted"
    BY Zenon, <1>11 DEF abort_exit, Exit, Goes
  <2> QED
    BY Zenon, <1>4, <2>1
<1>12. CASE queue_drained(w)
  <2>1. /\ private[w] = <<>> /\ Goes(w, "run", "drain")
        /\ UNCHANGED <<private, public, m_idle, running, jobs>>
    BY Zenon, <1>12 DEF queue_drained, queues, flags, calls
  <2> QED
    BY Zenon, <2>1 DEF Goes, Controlled, Caller, Active, Quiet, EmptyUntilShutdown, Woken
<1>13. CASE balance_work(w)
  <2>1. /\ private[w] # <<>> /\ pc[w] = "run" /\ UNCHANGED <<private, public, m_idle, running>>
        /\ \/ pc' = [pc EXCEPT ![w] = "pop"] /\ UNCHANGED jobs
           \/ pc' = [pc EXCEPT ![w] = "donate"]
    BY Zenon, <1>13, Balance DEF queues, flags
  <2> QED
    BY Zenon, <2>1 DEF Controlled, Caller, Active, Quiet, EmptyUntilShutdown, Woken
<1>14. CASE pop_task(w)
  <2>1. /\ owes[w] = NoWorker /\ UNCHANGED <<m_idle, jobs>>
        /\ \/ Goes(w, "pop", "aborted") /\ UNCHANGED running
           \/ Goes(w, "pop", "task")
    BY Zenon, <1>14 DEF pop_task, flags, calls
  <2> QED
    BY <2>1 DEF Goes, Controlled, Caller, Active, Quiet, EmptyUntilShutdown, Woken
<1>15. CASE finish_task(w)
  <2>1. /\ jobs[w] = <<>> /\ owes[w] = NoWorker /\ Goes(w, "task", "run")
        /\ running'[w] = Null /\ UNCHANGED <<m_idle, jobs>>
    BY Zenon, <1>15 DEF finish_task, flags, calls
  <2> QED
    BY Zenon, <2>1 DEF Goes, Controlled, Caller, Active, Quiet, EmptyUntilShutdown, Woken
<1> QED
  BY Zenon, <1>5, <1>6, <1>7, <1>8, <1>9, <1>10, <1>11, <1>12, <1>13, <1>14, <1>15 DEF WorkerStep

\* A donor keeps a task of its queue.
LEMMA DonorKeepsTask ==
    ASSUME Typed, NEW t \in Workers, DonatingTo(t), Donor(t), private[t] # <<>>,
           ~m_abort[Head(jobs[t]).to]
    PROVE  Donated(t, Len(Tail(jobs[t]))) # <<>>
<1>1. /\ private[t] \in Seq(Items) /\ idle_list[t] \in Seq(Workers) /\ t \in Threads
      /\ jobs[t] \in Seq(Call) /\ Null \in Items
  BY Zenon, TasksAreItems DEF Typed, Threads
<1>2. Len(idle_list[t]) \in Nat /\ Len(jobs[t]) \in 1 .. Len(idle_list[t]) /\ jobs[t] # <<>>
  BY <1>1, Elements DEF Donor
<1> DEFINE left == Len(Tail(jobs[t]))
<1>3. /\ Head(jobs[t]) = jobs[t][1] /\ left = Len(jobs[t]) - 1 /\ left \in Nat
      /\ left < Len(idle_list[t])
  BY <1>2, CallTyped
<1> HIDE DEF left
<1>4. /\ left # 0 => Len(Donated(t, left)) = Len(private[t])
      /\ left = 0 /\ Parts(t) <= Len(private[t]) => Donated(t, left) # <<>>
      /\ Donated(t, left) \in Seq(Items)
  <2>1. PICK e, n : e = To(private[t], Parts(t), Donation(t, left)) /\ n = Len(private[t])
    BY Zenon
  <2>2. /\ private[t] \in Seq(Items) /\ idle_list[t] \in Seq(Workers) /\ Null \in Items
        /\ left \in Nat /\ left < Len(idle_list[t])
    BY Zenon, <1>1, <1>3
  <2>3. left # 0 => MovedFrom(Donated(t, left), private[t], e)
    BY Zenon, <2>1, <2>2, DonatedQueue
  <2>4. left = 0 /\ Parts(t) <= n => Donated(t, left) # <<>>
    BY <2>1, <2>2, DonatedQueue
  <2>5. Donated(t, left) \in Seq(Items)
    BY Zenon, <2>1, <2>2, DonatedQueue
  <2> QED
    BY Zenon, <2>1, <2>3, <2>4, <2>5 DEF MovedFrom
<1>5. left = 0 => Parts(t) <= Len(private[t])
  <2>1. Parts(t) <= Len(private[t]) \/ \E j \in DOMAIN jobs[t] : m_abort[jobs[t][j].to]
    BY Zenon DEF Donor, Parts
  <2>2. left = 0 => \A j \in DOMAIN jobs[t] : j = 1
    BY <1>1, <1>2, <1>3, Elements
  <2> QED
    BY Zenon, <1>3, <2>1, <2>2
<1>6. Len(private[t]) \in Nat \ {0}
  BY <1>1, Elements
<1> QED
  BY Zenon, <1>1, <1>4, <1>5, <1>6, Elements DEF left

\* What the workers look like after a call: their threads, their queues and the
\* calls that they are in.
LEMMA ControlledCalls ==
    ASSUME Typed, Flags, Donors, \A x \in Workers : Controlled(x), NEW t \in Threads, CallStep(t)
    PROVE  \A x \in Workers : Controlled(x)'
<1>0. /\ pc \in [Workers -> Labels] /\ private \in [Workers -> Seq(Items)]
      /\ public \in [Workers -> Seq(Items)] /\ m_idle \in [Workers -> BOOLEAN]
      /\ sem \in [Workers -> 0 .. MaxTokens] /\ running \in [Workers -> Items]
      /\ m_task_found_or_abort \in [Workers -> BOOLEAN] /\ jobs \in [Threads -> Seq(Call)]
      /\ owes \in [Threads -> Workers \cup {NoWorker}] /\ Workers \subseteq Threads
  BY Zenon DEF Typed, Threads
<1>1. UNCHANGED <<m_abort, m_atomic_abort, shut>>
  BY Zenon DEF CallStep, enqueue_foreign, release_semaphore
<1>2. CASE release_semaphore(t)
  <2>1. /\ owes[t] \in Workers /\ Release(owes[t]) /\ owes' = [owes EXCEPT ![t] = NoWorker]
        /\ UNCHANGED <<private, public, m_idle, m_task_found_or_abort, pc, running, jobs>>
    BY Zenon, <1>0, <1>2 DEF release_semaphore, queues
  <2>2. sem'[owes[t]] > 0 /\ \A x \in Workers : x # owes[t] => sem'[x] = sem[x]
    BY Zenon, <2>1, ReleaseTyped
  <2>3. ASSUME NEW x \in Workers
        PROVE  Controlled(x)'
    <3>1. (sem[x] > 0 => sem'[x] > 0) /\ (Announced(x) => Announced(x)')
      BY Zenon, <1>0, <2>1, <2>2 DEF Announced
    <3>2. owes'[x] = owes[x] \/ owes'[x] = NoWorker
      BY Zenon, <1>0, <2>1
    <3>3. Controlled(x)
      BY Zenon
    <3> QED
      BY Zenon, <1>1, <2>1, <3>1, <3>2, <3>3
      DEF Controlled, Caller, Active, Quiet, EmptyUntilShutdown, Woken, Open
  <2> QED
    BY Zenon, <2>3
<1>3. CASE enqueue_foreign(t) /\ RefuseForeign(t)
  <2>1. /\ jobs' = [jobs EXCEPT ![t] = <<>>]
        /\ UNCHANGED <<private, public, m_idle, m_task_found_or_abort, owes, sem>>
    BY Zenon, <1>3 DEF enqueue_foreign, RefuseForeign, queues
  <2>2. \/ UNCHANGED <<pc, running>>
        \/ t \in Workers /\ Goes(t, "donate", "aborted") /\ UNCHANGED running
        \/ t \in Workers /\ Goes(t, "task", "aborted") /\ running' = [running EXCEPT ![t] = Null]
    BY Zenon, <1>3 DEF RefuseForeign, DonatingTo
  <2>3. ASSUME NEW x \in Workers
        PROVE  Controlled(x)'
    <3>1. Announced(x) => Announced(x)'
      BY Zenon, <2>1 DEF Announced
    <3>2. jobs'[x] = jobs[x] \/ jobs'[x] = <<>>
      BY Zenon, <1>0, <2>1
    <3>3. \/ pc'[x] = pc[x] /\ running'[x] = running[x]
          \/ pc[x] = "donate" /\ pc'[x] = "aborted" /\ running'[x] = running[x] /\ jobs'[x] = <<>>
          \/ pc[x] = "task" /\ pc'[x] = "aborted" /\ running'[x] = Null /\ jobs'[x] = <<>>
      BY Zenon, <1>0, <2>1, <2>2 DEF Goes
    <3>4. Controlled(x) /\ (jobs[x] \in Seq(Call)) /\ owes[t] = NoWorker
      BY Zenon, <1>0, <1>3 DEF enqueue_foreign
    <3>5. pc'[x] # pc[x] => x = t
      BY Zenon, <1>0, <2>2 DEF Goes
    <3>6. Len(<<>>) = 0
      BY Zenon
    <3> QED
      BY <1>1, <2>1, <3>1, <3>2, <3>3, <3>4, <3>5, <3>6
      DEF Controlled, Caller, Active, Quiet, EmptyUntilShutdown, Woken, Open
  <2> QED
    BY Zenon, <2>3
<1>4. CASE enqueue_foreign(t) /\ AcceptForeign(t) /\ ~m_abort[Head(jobs[t]).to]
  <2> DEFINE w == Head(jobs[t]).to
             s == Head(jobs[t]).tasks
             rest == Tail(jobs[t])
             kept == Donated(t, Len(rest))
  <2>1. /\ w \in Workers /\ s \in Seq(Items) /\ rest \in Seq(Call) /\ jobs[t] # <<>>
        /\ owes[t] = NoWorker /\ Len(rest) = Len(jobs[t]) - 1 /\ Len(jobs[t]) \in Nat \ {0}
    BY Zenon, <1>4, CallTyped DEF enqueue_foreign
  <2>2. DonatingTo(t) => kept # <<>> /\ t \in Workers
    <3>1. ASSUME DonatingTo(t) PROVE t \in Workers /\ Donor(t) /\ private[t] # <<>>
      BY Zenon, <3>1 DEF DonatingTo, Donors, Controlled, Caller
    <3> QED
      BY Zenon, <1>4, <3>1, DonorKeepsTask
  <2>3. /\ jobs' = [jobs EXCEPT ![t] = rest]
        /\ m_task_found_or_abort' = [m_task_found_or_abort EXCEPT ![w] = TRUE]
        /\ public' = [public EXCEPT ![w] = @ \o s]
        /\ private' = IF DonatingTo(t) THEN [private EXCEPT ![t] = kept] ELSE private
        /\ owes' = [owes EXCEPT ![t] = IF ~m_idle[w] /\ public[w] = <<>> THEN w ELSE NoWorker]
        /\ m_idle' = [m_idle EXCEPT ![w] = FALSE]
        /\ pc' = [x \in Workers |-> IF x = w /\ m_idle[w] THEN "drain"
                                    ELSE IF (DonatingTo(t) /\ rest = <<>>) /\ x = t THEN "pop"
                                    ELSE pc[x]]
        /\ UNCHANGED <<running, sem>>
    BY Zenon, <1>4 DEF enqueue_foreign, AcceptForeign
  <2>4. ~m_abort[w]
    BY Zenon, <1>4
  <2> HIDE DEF w, s, rest, kept
  <2>5. ASSUME NEW x \in Workers
        PROVE  Controlled(x)'
    <3>0. Controlled(x) /\ x \in Threads /\ jobs[x] \in Seq(Call)
      BY Zenon, <1>0
    <3>1. x = t => pc[x] \in {"donate", "task"} /\ (pc[x] = "task" => rest = <<>>)
      <4>1. x = t => pc[x] \in {"donate", "task"} /\ (pc[x] = "task" => Len(jobs[x]) <= 1)
        BY Zenon, <2>1, <3>0 DEF Controlled, Caller
      <4>2. Len(jobs[t]) <= 1 => rest = <<>>
        BY <2>1, Elements
      <4> QED
        BY Zenon, <4>1, <4>2
    <3>2. /\ jobs'[x] = IF x = t THEN rest ELSE jobs[x]
          /\ owes'[x] = IF x = t THEN IF ~m_idle[w] /\ public[w] = <<>> THEN w ELSE NoWorker ELSE owes[x]
          /\ private'[x] = IF x = t /\ pc[t] = "donate" THEN kept ELSE private[x]
          /\ running'[x] = running[x]
      BY Zenon, <1>0, <2>3, <3>0 DEF DonatingTo
    <3>3. /\ m_idle'[x] = IF x = w THEN FALSE ELSE m_idle[x]
          /\ pc'[x] = IF x = w /\ m_idle[w] THEN "drain"
                      ELSE IF x = t /\ pc[t] = "donate" /\ rest = <<>> THEN "pop" ELSE pc[x]
          /\ m_task_found_or_abort'[x] = IF x = w THEN TRUE ELSE m_task_found_or_abort[x]
          /\ sem'[x] = sem[x] /\ (x # w => public'[x] = public[x])
      BY Zenon, <1>0, <2>1, <2>3, <3>0 DEF DonatingTo
    <3>4. Active(x)'
      BY Zenon, <3>0, <3>1, <3>3 DEF Controlled, Active
    <3>5. m_idle[x] => pc[x] = "none" /\ x # t /\ jobs[x] = <<>> /\ owes[x] = NoWorker
                       /\ running[x] = Null
      BY Zenon, <3>0, <3>1 DEF Controlled, Active, Caller
    <3>6. Caller(x)'
      <4>1. Len(<<>>) = 0
        BY Zenon
      <4>2. x = t /\ pc[t] = "donate" => kept # <<>>
        BY Zenon, <2>2, <3>0 DEF DonatingTo
      <4> QED
        BY <3>0, <3>1, <3>2, <3>3, <3>5, <4>1, <4>2 DEF Controlled, Caller
    <3>7. w[2] < shut[w[1]].at => m_abort[w]
      BY Zenon, <2>1 DEF Flags
    <3>8. Quiet(x)' /\ EmptyUntilShutdown(x)'
      BY Zenon, <1>1, <2>4, <3>0, <3>1, <3>2, <3>3, <3>5, <3>7
      DEF Controlled, Quiet, EmptyUntilShutdown, Open
    <3>9. Woken(x)'
      <4>0. Announced(x) => Announced(x)'
        <5>1. \A u \in Threads : owes[u] = x => u # t
          BY Zenon, <2>1, WorkerIsPair
        <5>2. \A u \in Threads : u # t => owes'[u] = owes[u]
          BY Zenon, <1>0, <2>3
        <5> QED
          BY Zenon, <3>3, <5>1, <5>2 DEF Announced
      <4>1. CASE x # w
        BY Zenon, <1>1, <3>0, <3>1, <3>3, <4>0, <4>1 DEF Controlled, Woken
      <4>2. CASE x = w
        <5>1. ~m_idle[x] /\ public[x] = <<>> => owes'[t] = x
          BY Zenon, <1>0, <2>3, <4>2
        <5>2. ~m_idle[x] /\ public[x] = <<>> => Announced(x)'
          BY Zenon, <5>1 DEF Announced
        <5>3. ASSUME pc'[x] \in {"mark_idle", "wait"}
              PROVE  pc[x] = pc'[x] /\ ~m_idle[x]
          BY Zenon, <3>1, <3>3, <4>2, <5>3
        <5>4. ASSUME pc'[x] \in {"mark_idle", "wait"}
              PROVE  Announced(x)' /\ m_task_found_or_abort'[x] /\ ~m_abort'[x]
          BY Zenon, <1>1, <2>4, <3>0, <3>3, <4>0, <4>2, <5>2, <5>3, <5>4 DEF Controlled, Woken
        <5> QED
          BY Zenon, <5>4 DEF Woken
      <4> QED
        BY Zenon, <4>1, <4>2
    <3> QED
      BY Zenon, <3>4, <3>6, <3>8, <3>9 DEF Controlled
  <2> QED
    BY Zenon, <2>5
<1> QED
  BY Zenon, <1>2, <1>3, <1>4 DEF CallStep, enqueue_foreign

\* A task that enqueues, and a thread of no pool.
LEMMA ControlledEnqueue ==
    ASSUME Typed, Flags, \A x \in Workers : Controlled(x), EnqueueCall
    PROVE  \A x \in Workers : Controlled(x)'
<1>0. /\ pc \in [Workers -> Labels] /\ private \in [Workers -> Seq(Items)]
      /\ running \in [Workers -> Items] /\ jobs \in [Threads -> Seq(Call)]
      /\ Workers \subseteq Threads
  BY Zenon DEF Typed, Threads
<1>1. UNCHANGED <<public, m_idle, m_abort, m_atomic_abort, m_task_found_or_abort, sem, owes, shut>>
  BY Zenon DEF EnqueueCall, client_enqueue, client_bulk_enqueue, worker_enqueue, worker_bulk_enqueue,
     flags, queues
<1>2. \A x \in Workers : (Announced(x) => Announced(x)') /\ (sem[x] > 0 => sem'[x] > 0)
  BY Zenon, <1>1 DEF Announced
<1>3. ASSUME NEW w, UNCHANGED <<pc, private, running>> \/ w \in Workers,
             UNCHANGED jobs \/ \E v : jobs' = [jobs EXCEPT ![w] = v],
             UNCHANGED private \/ \E v : private' = [private EXCEPT ![w] = v],
             UNCHANGED running \/ \E v : running' = [running EXCEPT ![w] = v],
             UNCHANGED pc \/ \E v : pc' = [pc EXCEPT ![w] = v],
             NEW x \in Workers, x # w
      PROVE  Controlled(x)'
  <2>1. /\ jobs'[x] = jobs[x] /\ private'[x] = private[x] /\ running'[x] = running[x]
        /\ pc'[x] = pc[x]
    BY Zenon, <1>0, <1>3
  <2> QED
    BY Zenon, <1>1, <1>2, <2>1, Untouched
<1>4. ASSUME NEW c \in Clients, NEW p \in Pools,
             client_enqueue(c, p) \/ \E n \in 1 .. MaxTasks : client_bulk_enqueue(c, p, n)
      PROVE  \A x \in Workers : Controlled(x)'
  <2>1. UNCHANGED <<pc, private, running>> /\ \E v : jobs' = [jobs EXCEPT ![c] = v]
    BY Zenon, <1>4 DEF client_enqueue, client_bulk_enqueue, queues
  <2>2. c \notin Workers
    BY Zenon, ClientsAreNoWorkers
  <2> QED
    BY Zenon, <1>3, <2>1, <2>2
<1>5. ASSUME NEW w \in Workers, pc[w] = "task", jobs[w] = <<>>, owes[w] = NoWorker,
             \/ \E n \in Nat : enqueue_local(w, n)
             \/ \E call : /\ jobs' = [jobs EXCEPT ![w] = <<call>>]
                          /\ UNCHANGED <<private, running, pc>>
      PROVE  \A x \in Workers : Controlled(x)'
  <2>1. /\ UNCHANGED jobs \/ \E v : jobs' = [jobs EXCEPT ![w] = v]
        /\ UNCHANGED private \/ \E v : private' = [private EXCEPT ![w] = v]
        /\ UNCHANGED running \/ \E v : running' = [running EXCEPT ![w] = v]
        /\ UNCHANGED pc \/ \E v : pc' = [pc EXCEPT ![w] = v]
    BY Zenon, <1>5 DEF enqueue_local, Goes
  <2>2. \A x \in Workers : x # w => Controlled(x)'
    BY Zenon, <1>3, <2>1
  <2>3. /\ jobs'[w] = <<>> \/ \E call : jobs'[w] = <<call>>
        /\ \/ pc'[w] = "task" /\ running'[w] = running[w]
           \/ pc'[w] = "aborted" /\ running'[w] = Null /\ jobs'[w] = <<>>
    <3>1. CASE \E n \in Nat : enqueue_local(w, n)
      <4>1. /\ UNCHANGED jobs
            /\ \/ UNCHANGED <<pc, running>>
               \/ running' = [running EXCEPT ![w] = Null] /\ pc' = [pc EXCEPT ![w] = "aborted"]
        BY Zenon, <3>1 DEF enqueue_local, Goes
      <4> QED
        BY Zenon, <1>0, <1>5, <4>1
    <3>2. CASE \E call : /\ jobs' = [jobs EXCEPT ![w] = <<call>>]
                         /\ UNCHANGED <<private, running, pc>>
      BY Zenon, <1>0, <1>5, <3>2
    <3> QED
      BY Zenon, <1>5, <3>1, <3>2
  <2>4. Len(jobs'[w]) <= 1
    <3>1. Len(<<>>) = 0 /\ \A call : Len(<<call>>) = 1
      BY Zenon
    <3>2. Len(jobs'[w]) = 0 \/ Len(jobs'[w]) = 1
      BY Zenon, <2>3, <3>1
    <3>3. 0 <= 1 /\ 1 <= 1
      OBVIOUS
    <3> QED
      BY Zenon, <3>2, <3>3
  <2>5. Controlled(w)
    BY Zenon
  <2>6. Controlled(w)'
    BY Zenon, <1>1, <1>5, <2>3, <2>4, <2>5
    DEF Controlled, Caller, Active, Quiet, EmptyUntilShutdown, Woken
  <2> QED
    BY Zenon, <2>2, <2>6
<1>6. ASSUME NEW w \in Workers, NEW p \in Pools, worker_enqueue(w, p)
      PROVE  \A x \in Workers : Controlled(x)'
  <2>1. /\ pc[w] = "task" /\ jobs[w] = <<>> /\ owes[w] = NoWorker
        /\ \/ enqueue_local(w, 1)
           \/ \E call : /\ jobs' = [jobs EXCEPT ![w] = <<call>>]
                        /\ UNCHANGED <<private, running, pc>>
    BY Zenon, <1>6 DEF worker_enqueue
  <2>2. 1 \in Nat
    BY Zenon
  <2> QED
    BY Zenon, <1>5, <2>1, <2>2
<1>7. ASSUME NEW w \in Workers, NEW p \in Pools, NEW n \in 1 .. MaxTasks, worker_bulk_enqueue(w, p, n)
      PROVE  \A x \in Workers : Controlled(x)'
  <2>1. /\ pc[w] = "task" /\ jobs[w] = <<>> /\ owes[w] = NoWorker /\ enqueue_local(w, n)
    BY Zenon, <1>7 DEF worker_bulk_enqueue
  <2>2. n \in Nat
    OBVIOUS
  <2> QED
    BY Zenon, <1>5, <2>1, <2>2
<1> QED
  BY Zenon, <1>4, <1>6, <1>7 DEF EnqueueCall

\* The steps of shutdown: the worker that is aborted is announced and released,
\* and no worker before it is left.
LEMMA ControlledShutdown ==
    ASSUME Typed, Flags, \A x \in Workers : Controlled(x), NEW p \in Pools,
           shutdown(p) \/ ShutdownStep(p)
    PROVE  \A x \in Workers : Controlled(x)'
<1>0. /\ shut \in [Pools -> [at : 0 .. Size, step : Steps]] /\ shut[p].at \in Nat
      /\ m_abort \in [Workers -> BOOLEAN] /\ m_task_found_or_abort \in [Workers -> BOOLEAN]
      /\ private \in [Workers -> Seq(Items)] /\ public \in [Workers -> Seq(Items)]
      /\ sem \in [Workers -> 0 .. MaxTokens]
  BY SizeIsPositive DEF Typed, Steps
<1>1. \A w \in Workers : w[1] \in Pools /\ w[2] \in Nat /\ (w = Shutting(p) <=> w[1] = p /\ w[2] = shut[p].at)
  BY WorkerIsPair, SizeIsPositive DEF Shutting
<1>2. UNCHANGED <<m_idle, pc, running, jobs, owes>>
  BY Zenon DEF shutdown, ShutdownStep, shutdown_atomic_abort, shutdown_abort, shutdown_announce,
     shutdown_release, shutdown_join, flags, calls
<1>3. Flags' /\ ~Open'
  BY Zenon, ShutdownFlags DEF Open
<1>4. ASSUME NEW from, NEW to \in Steps \ {"no"}, ShutGoes(p, from, to)
      PROVE  /\ shut[p].step = from /\ shut'[p].step = to /\ shut'[p].at = shut[p].at
             /\ \A x \in Pools : x # p => shut'[x] = shut[x]
  BY Zenon, <1>0, <1>4 DEF ShutGoes
<1>5. \A w \in Workers : EmptyUntilShutdown(w)'
  BY Zenon, <1>3 DEF EmptyUntilShutdown
<1>6. \A w \in Workers : Active(w)'
  BY Zenon, <1>2 DEF Controlled, Active
<1>7. \A w \in Workers : pc[w] # "none" => ~(w[2] < shut[w[1]].at)
  BY Zenon DEF Controlled, Quiet
<1>8. ASSUME NEW from, NEW to \in Steps \ {"no"}, ShutGoes(p, from, to), UNCHANGED queues,
             \A w \in Workers : Woken(w)'
      PROVE  \A x \in Workers : Controlled(x)'
  <2>1. \A x \in Workers : Caller(x)'
    BY Zenon, <1>2, <1>8 DEF Controlled, Caller, queues
  <2>2. \A x \in Workers : shut'[x[1]].at = shut[x[1]].at
    BY Zenon, <1>1, <1>4, <1>8
  <2>3. \A x \in Workers : Quiet(x)'
    BY Zenon, <1>2, <1>8, <2>2 DEF Controlled, Quiet, queues
  <2> QED
    BY Zenon, <1>5, <1>6, <1>8, <2>1, <2>3 DEF Controlled
<1>9. ASSUME NEW from, NEW to \in Steps \ {"no"}, ShutGoes(p, from, to), UNCHANGED queues,
             NEW x \in Workers, pc'[x] \in {"mark_idle", "wait"},
             m_task_found_or_abort[x] => m_task_found_or_abort'[x], sem[x] > 0 => sem'[x] > 0,
             x[1] # p => m_abort'[x] = m_abort[x]
      PROVE  /\ public'[x] # <<>> => m_task_found_or_abort'[x] /\ Announced(x)'
             /\ x[1] # p => Woken(x)'
             /\ m_abort'[x] /\ x[1] = p => x = Shutting(p) /\ to \in {"announce", "release", "join"}
  <2>1. pc[x] \in {"mark_idle", "wait"} /\ pc[x] # "none" /\ Woken(x)
    BY Zenon, <1>2, <1>9 DEF Controlled
  <2>2. Announced(x) => Announced(x)'
    BY Zenon, <1>2, <1>9 DEF Announced
  <2>3. public'[x] # <<>> => m_task_found_or_abort'[x] /\ Announced(x)'
    BY Zenon, <1>9, <2>1, <2>2 DEF Woken, queues
  <2>4. x[1] # p => shut'[x[1]] = shut[x[1]]
    BY Zenon, <1>1, <1>4, <1>9
  <2>5. x[1] # p => Woken(x)'
    BY Zenon, <1>9, <2>1, <2>3, <2>4 DEF Woken
  <2>6. m_abort'[x] /\ x[1] = p => x = Shutting(p) /\ to \in {"announce", "release", "join"}
    BY <1>1, <1>3, <1>4, <1>7, <1>9, <2>1 DEF Flags
  <2> QED
    BY Zenon, <2>3, <2>5, <2>6
<1>10. CASE shutdown(p) \/ shutdown_atomic_abort(p)
  <2>1. PICK from \in {"no", "atomic"}, to \in {"atomic", "lock"} :
            /\ ShutGoes(p, from, to) /\ UNCHANGED <<queues, m_abort, m_task_found_or_abort, sem>>
    <3>1. \/ ShutGoes(p, "no", "atomic") \/ ShutGoes(p, "atomic", "lock")
      BY Zenon, <1>10 DEF shutdown, shutdown_atomic_abort
    <3>2. UNCHANGED <<queues, m_abort, m_task_found_or_abort, sem>>
      BY Zenon, <1>10 DEF shutdown, shutdown_atomic_abort, flags
    <3> QED
      BY Zenon, <3>1, <3>2
  <2>2. to \in Steps \ {"no"} /\ to \notin {"announce", "release", "join"}
    BY Zenon, <2>1 DEF Steps
  <2>3. ASSUME NEW x \in Workers, pc'[x] \in {"mark_idle", "wait"}
        PROVE  Woken(x)'
    BY Zenon, <1>9, <2>1, <2>2, <2>3 DEF Woken
  <2>4. \A x \in Workers : Woken(x)'
    BY Zenon, <2>3 DEF Woken
  <2> QED
    BY Zenon, <1>8, <2>1, <2>2, <2>4
<1>11. CASE shutdown_abort(p)
  <2>1. /\ ShutGoes(p, "lock", "announce") /\ UNCHANGED <<queues, m_task_found_or_abort, sem>>
        /\ m_abort' = [m_abort EXCEPT ![Shutting(p)] = TRUE] /\ "announce" \in Steps \ {"no"}
    BY Zenon, <1>11 DEF shutdown_abort, Steps
  <2>2. \A x \in Workers : x[1] # p => m_abort'[x] = m_abort[x]
    BY Zenon, <1>0, <1>1, <2>1
  <2>3. shut'[p].step = "announce"
    BY Zenon, <1>4, <2>1
  <2>4. ASSUME NEW x \in Workers, pc'[x] \in {"mark_idle", "wait"}
        PROVE  Woken(x)'
    BY Zenon, <1>9, <2>1, <2>2, <2>3, <2>4 DEF Woken
  <2>5. \A x \in Workers : Woken(x)'
    BY Zenon, <2>4 DEF Woken
  <2> QED
    BY Zenon, <1>8, <2>1, <2>5
<1>12. CASE shutdown_announce(p)
  <2>1. /\ ShutGoes(p, "announce", "release") /\ UNCHANGED <<queues, m_abort, sem>>
        /\ m_task_found_or_abort' = [m_task_found_or_abort EXCEPT ![Shutting(p)] = TRUE]
        /\ "release" \in Steps \ {"no"}
    BY Zenon, <1>12 DEF shutdown_announce, Steps
  <2>2. \A x \in Workers : /\ m_task_found_or_abort[x] => m_task_found_or_abort'[x]
                           /\ x = Shutting(p) => m_task_found_or_abort'[x]
    BY Zenon, <1>0, <2>1
  <2>3. shut'[p].step = "release"
    BY Zenon, <1>4, <2>1
  <2>4. ASSUME NEW x \in Workers, pc'[x] \in {"mark_idle", "wait"}
        PROVE  Woken(x)'
    BY Zenon, <1>9, <2>1, <2>2, <2>3, <2>4 DEF Woken
  <2>5. \A x \in Workers : Woken(x)'
    BY Zenon, <2>4 DEF Woken
  <2> QED
    BY Zenon, <1>8, <2>1, <2>5
<1>13. CASE shutdown_release(p)
  <2>1. /\ ShutGoes(p, "release", "join") /\ UNCHANGED <<queues, m_abort, m_task_found_or_abort>>
        /\ Release(Shutting(p)) /\ "join" \in Steps \ {"no"} /\ shut[p].step = "release"
    BY Zenon, <1>13 DEF shutdown_release, Steps, ShutGoes
  <2>2. Shutting(p) \in Workers
    BY <1>0, <2>1, SizeIsPositive DEF Flags, Shutting, Workers
  <2>3. sem'[Shutting(p)] > 0 /\ \A x \in Workers : x # Shutting(p) => sem'[x] = sem[x]
    BY Zenon, <2>1, <2>2, ReleaseTyped
  <2>4. ASSUME NEW x \in Workers, pc'[x] \in {"mark_idle", "wait"}
        PROVE  Woken(x)'
    <3>1. \A y \in Workers : sem[y] > 0 => sem'[y] > 0
      BY Zenon, <2>3
    <3>2. m_abort[x] /\ x[1] = p => m_task_found_or_abort'[x]
      BY Zenon, <1>2, <2>1, <2>4 DEF Controlled, Woken
    <3> QED
      BY Zenon, <1>9, <2>1, <2>3, <2>4, <3>1, <3>2 DEF Woken
  <2>5. \A x \in Workers : Woken(x)'
    BY Zenon, <2>4 DEF Woken
  <2> QED
    BY Zenon, <1>8, <2>1, <2>5
<1>14. CASE shutdown_join(p)
  <2>1. /\ shut[p].step = "join" /\ pc[Shutting(p)] = "none"
        /\ private' = [private EXCEPT ![Shutting(p)] = <<>>]
        /\ public' = [public EXCEPT ![Shutting(p)] = <<>>]
        /\ shut' = [shut EXCEPT ![p] = [at |-> shut[p].at + 1, step |-> "atomic"]]
        /\ UNCHANGED <<m_abort, m_task_found_or_abort, sem>>
    BY Zenon, <1>14 DEF shutdown_join, flags
  <2>2. /\ shut'[p].step = "atomic" /\ shut'[p].at = shut[p].at + 1
        /\ \A x \in Pools : x # p => shut'[x] = shut[x]
    BY Zenon, <1>0, <2>1
  <2>3. ASSUME NEW x \in Workers
        PROVE  Controlled(x)'
    <3>0. Controlled(x) /\ x[1] \in Pools /\ x[2] \in Nat
      BY Zenon, <1>1
    <3>1. CASE x = Shutting(p)
      <4>1. pc'[x] = "none" /\ private'[x] = <<>> /\ public'[x] = <<>>
        BY Zenon, <1>0, <1>2, <2>1, <3>1
      <4>2. Caller(x)' /\ Quiet(x)' /\ Woken(x)'
        BY Zenon, <1>2, <3>0, <4>1 DEF Controlled, Caller, Quiet, Woken
      <4> QED
        BY Zenon, <1>5, <1>6, <4>2 DEF Controlled
    <3>2. CASE x # Shutting(p)
      <4>1. private'[x] = private[x] /\ public'[x] = public[x]
        BY Zenon, <1>0, <2>1, <3>2
      <4>2. Caller(x)'
        BY Zenon, <1>2, <3>0, <4>1 DEF Controlled, Caller
      <4>3. x[2] < shut'[x[1]].at => x[2] < shut[x[1]].at
        <5>1. x[1] = p => x[2] # shut[p].at
          BY Zenon, <1>1, <3>2
        <5>2. x[1] # p => shut'[x[1]].at = shut[x[1]].at
          BY Zenon, <2>2, <3>0
        <5>3. x[1] = p => shut'[x[1]].at = shut[p].at + 1
          BY Zenon, <2>2
        <5> DEFINE i == x[2]
                   a == shut[p].at
        <5>4. i \in Nat /\ a \in Nat
          BY Zenon, <1>0, <3>0
        <5> HIDE DEF i, a
        <5>5. i < a + 1 /\ i # a => i < a
          BY <5>4
        <5> QED
          BY Zenon, <5>1, <5>2, <5>3, <5>5 DEF i, a
      <4>4. Quiet(x)'
        BY Zenon, <1>2, <3>0, <4>1, <4>3 DEF Controlled, Quiet
      <4>5. Announced(x) => Announced(x)'
        BY Zenon, <1>2, <2>1 DEF Announced
      <4>6. shut'[x[1]] = shut[x[1]] \/ shut'[x[1]].step = "atomic"
        BY Zenon, <2>2, <3>0
      <4>7. Woken(x)'
        BY Zenon, <1>2, <2>1, <3>0, <4>1, <4>5, <4>6 DEF Controlled, Woken
      <4> QED
        BY Zenon, <1>5, <1>6, <4>2, <4>4, <4>7 DEF Controlled
    <3> QED
      BY Zenon, <3>1, <3>2
  <2> QED
    BY Zenon, <2>3
<1> QED
  BY Zenon, <1>10, <1>11, <1>12, <1>13, <1>14 DEF ShutdownStep

\* The invariants of every worker's thread are preserved.
LEMMA ControlledStep ==
    ASSUME Typed, Aborts, Donors, \A x \in Workers : Controlled(x), [Next]_vars
    PROVE  \A x \in Workers : Controlled(x)'
<1>0. Flags /\ \A w \in Workers : pc[w] = "aborted" => ~Open
  BY Zenon DEF Aborts
<1>1. ASSUME NEW w \in Workers, WorkerStep(w) \/ time_out(w)
      PROVE  \A x \in Workers : Controlled(x)'
  <2>1. Controlled(w)'
    BY Zenon, <1>0, <1>1, ControlledThread
  <2>2. ASSUME NEW x \in Workers, x # w
        PROVE  Controlled(x)'
    <3>1. /\ UNCHANGED <<owes, m_abort, m_atomic_abort, shut>>
          /\ pc'[x] = pc[x] /\ private'[x] = private[x] /\ public'[x] = public[x]
          /\ m_idle'[x] = m_idle[x] /\ sem'[x] = sem[x] /\ running'[x] = running[x]
          /\ m_task_found_or_abort'[x] = m_task_found_or_abort[x] /\ jobs'[x] = jobs[x]
      BY Zenon, <1>1, <2>2, OtherWorkers
    <3>2. Announced(x) => Announced(x)'
      BY Zenon, <3>1 DEF Announced
    <3> QED
      BY Zenon, <3>1, <3>2, Untouched
  <2> QED
    BY Zenon, <2>1, <2>2
<1>2. CASE UNCHANGED vars
  BY Zenon, <1>2 DEF vars, queues, flags, calls, Controlled, Caller, Active, Quiet,
     EmptyUntilShutdown, Open, Woken, Announced
<1> QED
  BY Zenon, <1>0, <1>1, <1>2, ControlledCalls, ControlledEnqueue, ControlledShutdown DEF Next

-----------------------------------------------------------------------------
(* Donations.                                                              *)

\* What a call that is accepted does, thread by thread: its tasks s go to the
\* public queue of w, and `rest` are the calls that are left to make.
Accepted(t, w, s, rest) ==
    /\ w = Head(jobs[t]).to /\ s = Head(jobs[t]).tasks /\ rest = Tail(jobs[t])
    /\ w \in Workers /\ s \in Seq(Items) /\ rest \in Seq(Call) /\ jobs[t] # <<>>
    /\ Len(rest) = Len(jobs[t]) - 1 /\ Len(jobs[t]) \in Nat \ {0}
    /\ \A x \in Threads : jobs'[x] = IF x = t THEN rest ELSE jobs[x]
    /\ \A x \in Workers :
         /\ public'[x] = IF x = w THEN public[w] \o s ELSE public[x]
         /\ private'[x] = IF x = t /\ DonatingTo(t) THEN Donated(t, Len(rest)) ELSE private[x]
         /\ idle_list'[x] = IF x = t /\ DonatingTo(t) /\ rest = <<>> THEN <<>> ELSE idle_list[x]
         /\ pc'[x] = IF x = w /\ m_idle[w] THEN "drain"
                     ELSE IF x = t /\ DonatingTo(t) /\ rest = <<>> THEN "pop" ELSE pc[x]
    /\ UNCHANGED <<running, tasks, shut>>

\* A call accepted has a worker, a task list and a rest.
LEMMA Accept ==
    ASSUME Typed, NEW t \in Threads, enqueue_foreign(t), AcceptForeign(t)
    PROVE  \E w, s, rest : Accepted(t, w, s, rest)
<1>0. PICK w, s, rest : w = Head(jobs[t]).to /\ s = Head(jobs[t]).tasks /\ rest = Tail(jobs[t])
  BY Zenon
<1>1. /\ w \in Workers /\ s \in Seq(Items) /\ rest \in Seq(Call) /\ jobs[t] # <<>>
      /\ Len(rest) = Len(jobs[t]) - 1 /\ Len(jobs[t]) \in Nat \ {0}
  BY Zenon, <1>0, CallTyped DEF enqueue_foreign
<1>2. /\ jobs' = [jobs EXCEPT ![t] = rest]
      /\ public' = [public EXCEPT ![w] = @ \o s]
      /\ private' = IF DonatingTo(t) THEN [private EXCEPT ![t] = Donated(t, Len(rest))] ELSE private
      /\ idle_list' = IF DonatingTo(t) /\ rest = <<>> THEN [idle_list EXCEPT ![t] = <<>>]
                      ELSE idle_list
      /\ pc' = [x \in Workers |-> IF x = w /\ m_idle[w] THEN "drain"
                                  ELSE IF (DonatingTo(t) /\ rest = <<>>) /\ x = t THEN "pop"
                                  ELSE pc[x]]
  BY Zenon, <1>0 DEF AcceptForeign
<1>3. UNCHANGED <<running, tasks, shut>>
  BY Zenon DEF enqueue_foreign, AcceptForeign, tasks
<1>4. \A x \in Threads : jobs'[x] = IF x = t THEN rest ELSE jobs[x]
  BY Zenon, <1>2 DEF Typed
<1>5. \A x \in Workers : public'[x] = IF x = w THEN public[w] \o s ELSE public[x]
  BY Zenon, <1>2 DEF Typed
<1>6. \A x \in Workers : private'[x] = IF x = t /\ DonatingTo(t) THEN Donated(t, Len(rest)) ELSE private[x]
  BY Zenon, <1>2 DEF Typed
<1>7. \A x \in Workers : idle_list'[x] = IF x = t /\ DonatingTo(t) /\ rest = <<>> THEN <<>>
                                         ELSE idle_list[x]
  BY Zenon, <1>2 DEF Typed
<1>8. \A x \in Workers : pc'[x] = IF x = w /\ m_idle[w] THEN "drain"
                            ELSE IF x = t /\ DonatingTo(t) /\ rest = <<>> THEN "pop" ELSE pc[x]
  BY Zenon, <1>2
<1>9. Accepted(t, w, s, rest)
  BY Zenon, <1>0, <1>1, <1>3, <1>4, <1>5, <1>6, <1>7, <1>8 DEF Accepted
<1> QED
  BY Zenon, <1>9

\* A worker that neither finds idle workers nor donates.
LEMMA NoDonation ==
    ASSUME NEW x \in Workers, IF DonatingTo(x) THEN Donor(x) ELSE LeftList(x),
           \A w \in Workers : m_abort[w] => m_abort'[w],
           idle_list[x] \in Seq(Workers), jobs[x] \in Seq(Call), idle_list'[x] = idle_list[x],
           pc[x] = "donate" <=> pc'[x] = "donate",
           pc[x] = "donate" => private'[x] = private[x] /\ jobs'[x] = jobs[x]
    PROVE  (IF DonatingTo(x) THEN Donor(x) ELSE LeftList(x))'
<1>1. \A i \in DOMAIN idle_list[x] : idle_list[x][i] \in Workers
  BY Zenon, Elements
<1>2. \A j \in DOMAIN jobs[x] : jobs[x][j].to \in Workers
  <2>1. \A j \in DOMAIN jobs[x] : jobs[x][j] \in Call
    BY Zenon, Elements
  <2> QED
    BY Zenon, <2>1 DEF Call
<1>3. CASE pc[x] = "donate"
  <2>1. Donor(x) /\ pc'[x] = "donate" /\ private'[x] = private[x] /\ jobs'[x] = jobs[x]
    BY Zenon, <1>3 DEF DonatingTo
  <2>2. Donor(x)'
    BY Zenon, <1>2, <2>1 DEF Donor, Parts, Done, From
  <2> QED
    BY Zenon, <2>1, <2>2 DEF DonatingTo
<1>4. CASE pc[x] # "donate"
  <2>1. LeftList(x) /\ pc'[x] # "donate"
    BY Zenon, <1>4 DEF DonatingTo
  <2>2. LeftList(x)'
    BY Zenon, <1>1, <2>1 DEF LeftList
  <2> QED
    BY Zenon, <2>1, <2>2 DEF DonatingTo
<1> QED
  BY Zenon, <1>3, <1>4

\* balance_work deals the whole queue.
LEMMA NewDonor ==
    ASSUME Typed, Donors, NEW w \in Workers, pc[w] = "run", NEW receivers \in Seq(Workers),
           receivers # <<>>, idle_list'[w] = receivers, private'[w] = private[w],
           UNCHANGED m_abort, jobs'[w] = Deal(private[w], receivers, Len(receivers) + 1),
           \/ Len(receivers) < Len(private[w])
           \/ /\ idle_list[w] # <<>>
              /\ \A i \in DOMAIN idle_list[w] : i \in DOMAIN receivers /\ receivers[i] = idle_list[w][i]
    PROVE  Donor(w)'
<1> DEFINE q == private[w]
           n == Len(receivers)
           d == Deal(q, receivers, n + 1)
<1>1. q \in Seq(Items) /\ Len(q) \in Nat /\ n \in Nat \ {0} /\ DOMAIN receivers = 1 .. n
  BY Elements DEF Typed
<1>2. n + 1 \in Nat \ {0} /\ n <= n + 1
  BY <1>1
<1>3. /\ d \in Seq(Call) /\ Len(d) = n
      /\ \A j \in 1 .. n : d[j].to = receivers[j] /\ d[j].tasks = Slice(q, n + 1, j)
  BY Zenon, <1>1, <1>2, DealTyped
<1>4. DOMAIN d = 1 .. n
  BY <1>3, Elements
<1> HIDE DEF d, n, q
<1>5. /\ jobs'[w] = d /\ idle_list'[w] = receivers /\ private'[w] = q /\ Len(jobs'[w]) = n
      /\ Len(idle_list'[w]) = n
  BY Zenon, <1>3 DEF d, n, q
<1>6. Parts(w)' = n + 1 /\ Done(w)' = 0
  BY <1>1, <1>5 DEF Parts, Done
<1>7. From(private[w], Parts(w), Done(w) + 1)' = 0
  <2>1. SliceBegin(Len(q), n + 1, 1) = 0
    BY Zenon, <1>1, <1>2, SlicesCover
  <2>2. Done(w)' + 1 = 1
    BY <1>6
  <2> QED
    BY Zenon, <1>5, <1>6, <2>1, <2>2 DEF From
<1>8. \A j \in 1 .. n : Done(w)' + j = j
  BY <1>1, <1>6
<1>9. n + 1 <= Len(q) \/ \E j \in DOMAIN d : m_abort[d[j].to]
  <2>1. CASE n < Len(q)
    BY <1>1, <2>1
  <2>2. CASE /\ idle_list[w] # <<>>
             /\ \A i \in DOMAIN idle_list[w] : i \in DOMAIN receivers /\ receivers[i] = idle_list[w][i]
    <3>1. PICK i \in DOMAIN idle_list[w] : m_abort[idle_list[w][i]]
      BY Zenon, <2>2 DEF Donors, DonatingTo, LeftList
    <3>2. i \in 1 .. n /\ receivers[i] = idle_list[w][i]
      BY Zenon, <1>1, <2>2, <3>1
    <3>3. d[i].to = idle_list[w][i] /\ i \in DOMAIN d
      BY Zenon, <1>3, <1>4, <3>2
    <3> QED
      BY Zenon, <3>1, <3>3
  <2> QED
    BY Zenon, <2>1, <2>2 DEF n, q
<1>10. \A i \in 1 .. From(private[w], Parts(w), Done(w) + 1)' : private'[w][i] = Null
  <2>1. \A i \in 1 .. 0 : private'[w][i] = Null
    OBVIOUS
  <2> QED
    BY Zenon, <1>7, <2>1
<1>11. \A j \in 1 .. n : /\ jobs'[w][j].to = idle_list'[w][Done(w)' + j]
                         /\ jobs'[w][j].tasks = Slice(private'[w], Parts(w)', Done(w)' + j)
  BY Zenon, <1>3, <1>5, <1>6, <1>8
<1>12. n \in 1 .. n
  BY <1>1
<1> QED
  BY Zenon, <1>5, <1>6, <1>9, <1>10, <1>11, <1>12 DEF Donor

\* A donation that is not the last: the donor goes on with the next slice.
LEMMA DonorGoesOn ==
    ASSUME Typed, NEW t \in Workers, DonatingTo(t), Donor(t), jobs[t] # <<>>,
           ~m_abort[Head(jobs[t]).to], UNCHANGED m_abort,
           NEW rest, rest = Tail(jobs[t]), rest # <<>>, jobs'[t] = rest,
           private'[t] = Donated(t, Len(rest)), idle_list'[t] = idle_list[t]
    PROVE  Donor(t)'
<1> DEFINE q == private[t]
           d == Donated(t, Len(rest))
           P == Parts(t)
           L == Len(idle_list[t])
           J == Len(jobs[t])
           k == Done(t)
<1>1. /\ q \in Seq(Items) /\ idle_list[t] \in Seq(Workers) /\ t \in Threads
      /\ jobs[t] \in Seq(Call) /\ Null \in Items /\ L \in Nat
  BY TasksAreItems, Elements DEF Typed, Threads
<1>2. /\ Head(jobs[t]) = jobs[t][1] /\ rest \in Seq(Call) /\ Len(rest) = J - 1 /\ J \in Nat \ {0}
      /\ \A j \in 1 .. J - 1 : rest[j] = jobs[t][j + 1]
  BY Zenon, <1>1, CallTyped
<1>3. Len(rest) \in Nat \ {0}
  BY Zenon, <1>2, Elements
<1>4. J \in 1 .. L /\ k = L - J /\ P = L + 1
  BY Zenon DEF Donor, Done, Parts
<1>5. /\ Len(rest) \in Nat /\ Len(rest) < L /\ Len(rest) # 0 /\ Donation(t, Len(rest)) = k + 1
      /\ k + 1 \in 1 .. P /\ P \in Nat \ {0} /\ k \in Nat
  <2> DEFINE r == Len(rest)
  <2>1. /\ L \in Nat /\ r = J - 1 /\ J \in Nat \ {0} /\ r \in Nat \ {0} /\ J \in 1 .. L /\ k = L - J
        /\ P = L + 1
    BY Zenon, <1>1, <1>2, <1>3, <1>4
  <2>2. Donation(t, r) = P - r - 1
    BY Zenon DEF Donation
  <2> HIDE DEF L, J, k, P, r
  <2>3. r \in Nat /\ r < L /\ r # 0 /\ k + 1 \in 1 .. P /\ P \in Nat \ {0} /\ k \in Nat
    BY <2>1
  <2>4. P - r - 1 = k + 1
    BY <2>1
  <2> QED
    BY Zenon, <2>2, <2>3, <2>4 DEF r
<1>6. /\ \A j \in 1 .. J : /\ jobs[t][j].to = idle_list[t][k + j]
                           /\ jobs[t][j].tasks = Slice(q, P, k + j)
      /\ P <= Len(q) \/ \E j \in DOMAIN jobs[t] : m_abort[jobs[t][j].to]
  BY Zenon DEF Donor
<1>7. PICK e, n : e = To(q, P, Donation(t, Len(rest))) /\ n = Len(q)
  BY Zenon
<1>8. d \in Seq(Items) /\ MovedFrom(d, q, e)
  BY Zenon, <1>1, <1>5, <1>7, DonatedQueue
<1> HIDE DEF q, d, P, L, J, k
<1>9. /\ jobs'[t] = rest /\ idle_list'[t] = idle_list[t] /\ private'[t] = d /\ Parts(t)' = P
      /\ Done(t)' = k + 1 /\ Len(jobs'[t]) = Len(rest) /\ Len(idle_list'[t]) = L
  <2>1. jobs'[t] = rest /\ idle_list'[t] = idle_list[t] /\ private'[t] = d /\ Parts(t)' = P
    BY Zenon DEF d, P, Parts
  <2>2. Done(t)' = L - Len(rest)
    BY Zenon, <2>1 DEF Done, L
  <2> QED
    BY <1>1, <1>2, <1>4, <2>1, <2>2 DEF L
<1>10. From(private[t], Parts(t), Done(t) + 1)' = e
  <2>1. From(private[t], Parts(t), Done(t) + 1)' = SliceBegin(Len(d), P, (k + 1) + 1)
    BY Zenon, <1>9 DEF From
  <2>2. e = SliceBegin(Len(q), P, (k + 1) + 1)
    BY Zenon, <1>5, <1>7 DEF To
  <2> QED
    BY Zenon, <1>8, <2>1, <2>2 DEF MovedFrom
<1>11. e \in Nat
  <2>1. IsPart(Slice(q, P, k + 1), q, From(q, P, k + 1), To(q, P, k + 1))
    BY Zenon, <1>1, <1>5, SliceIsPart
  <2> QED
    BY Zenon, <1>5, <1>7, <2>1 DEF IsPart
<1>12. ASSUME NEW j \in 1 .. Len(rest)
       PROVE  /\ jobs'[t][j].to = idle_list'[t][Done(t)' + j]
              /\ jobs'[t][j].tasks = Slice(private'[t], Parts(t)', Done(t)' + j)
  <2>1. PICK i : i = k + 1 + j
    BY Zenon
  <2>2. /\ i \in 1 .. P /\ k + 1 < i /\ k + (j + 1) = i /\ (k + 1) + j = i /\ j + 1 \in 1 .. J
        /\ j \in 1 .. J - 1
    BY <1>1, <1>2, <1>4, <1>5, <2>1
  <2>3. rest[j] = jobs[t][j + 1]
    BY Zenon, <1>2, <2>2
  <2>4. jobs[t][j + 1].to = idle_list[t][i] /\ jobs[t][j + 1].tasks = Slice(q, P, i)
    BY Zenon, <1>6, <2>2
  <2>5. To(q, P, k + 1) <= From(q, P, i)
    BY Zenon, <1>1, <1>5, <2>2, SlicesAscend
  <2>6. e <= From(q, P, i) /\ Len(d) = Len(q) /\ \A x \in e + 1 .. Len(q) : d[x] = q[x]
    BY Zenon, <1>5, <1>7, <1>8, <2>5 DEF MovedFrom
  <2>7. Slice(d, P, i) = Slice(q, P, i)
    <3>1. q \in Seq(Items) /\ d \in Seq(Items) /\ P \in Nat \ {0} /\ i \in 1 .. P /\ e \in Nat
      BY <1>1, <1>5, <1>8, <1>11, <2>2
    <3> QED
      BY Zenon, <2>6, <3>1, SameSlice
  <2> QED
    BY Zenon, <1>9, <2>2, <2>3, <2>4, <2>7
<1>13. P <= Len(d) \/ \E j \in DOMAIN rest : m_abort[rest[j].to]
  <2>1. CASE P <= Len(q)
    BY Zenon, <1>8, <2>1 DEF MovedFrom
  <2>2. ASSUME NEW j \in DOMAIN jobs[t], m_abort[jobs[t][j].to]
        PROVE  \E i \in DOMAIN rest : m_abort[rest[i].to]
    <3>1. j # 1
      BY Zenon, <1>2, <2>2
    <3>2. DOMAIN jobs[t] = 1 .. J /\ DOMAIN rest = 1 .. J - 1
      BY Zenon, <1>1, <1>2, Elements DEF J
    <3>3. j - 1 \in DOMAIN rest /\ (j - 1) + 1 = j
      BY <1>2, <3>1, <3>2
    <3>4. rest[j - 1] = jobs[t][j]
      BY Zenon, <1>2, <3>2, <3>3
    <3> QED
      BY Zenon, <2>2, <3>3, <3>4
  <2> QED
    BY Zenon, <1>6, <2>1, <2>2
<1>14. Len(rest) \in 1 .. L
  BY <1>1, <1>3, <1>5
<1>15. \A i \in 1 .. e : d[i] = Null
  BY Zenon, <1>8 DEF MovedFrom
<1> QED
  BY Zenon, <1>9, <1>10, <1>12, <1>13, <1>14, <1>15 DEF Donor

\* A donation in flight is always the rest of what balance_work dealt.
LEMMA DonorsStep ==
    ASSUME Typed, Donors, \A x \in Workers : Controlled(x), [Next]_vars,
           \A w \in Workers : m_abort[w] => m_abort'[w]
    PROVE  Donors'
<1>0. /\ pc \in [Workers -> Labels] /\ idle_list \in [Workers -> Seq(Workers)]
      /\ private \in [Workers -> Seq(Items)] /\ jobs \in [Threads -> Seq(Call)]
      /\ Workers \subseteq Threads
  BY Zenon DEF Typed, Threads
<1>1. \A x \in Workers : idle_list[x] \in Seq(Workers) /\ jobs[x] \in Seq(Call)
  BY Zenon, <1>0
<1>2. ASSUME NEW x \in Workers, idle_list'[x] = idle_list[x], pc[x] = "donate" <=> pc'[x] = "donate",
             pc[x] = "donate" => private'[x] = private[x] /\ jobs'[x] = jobs[x]
      PROVE  (IF DonatingTo(x) THEN Donor(x) ELSE LeftList(x))'
  BY Zenon, <1>1, <1>2, NoDonation DEF Donors
<1>3. ASSUME UNCHANGED idle_list,
             \A x \in Workers : pc[x] = "donate" <=> pc'[x] = "donate",
             \A x \in Workers : pc[x] = "donate" => private'[x] = private[x] /\ jobs'[x] = jobs[x]
      PROVE  Donors'
  BY Zenon, <1>2, <1>3 DEF Donors
<1>4. ASSUME NEW w \in Workers, WorkerStep(w) \/ time_out(w)
      PROVE  Donors'
  <2>1. \A x \in Workers : x # w =>
            /\ idle_list'[x] = idle_list[x] /\ pc'[x] = pc[x]
            /\ private'[x] = private[x] /\ jobs'[x] = jobs[x]
    BY Zenon, <1>4, OtherWorkers
  <2>2. \A x \in Workers : x # w => (IF DonatingTo(x) THEN Donor(x) ELSE LeftList(x))'
    BY Zenon, <1>2, <2>1
  <2>3. CASE balance_work(w)
    <3>1. /\ pc[w] = "run" /\ UNCHANGED <<private, m_abort>>
          /\ \/ pc' = [pc EXCEPT ![w] = "pop"] /\ UNCHANGED <<idle_list, jobs>>
             \/ \E receivers \in Seq(Workers) :
                   /\ receivers # <<>> /\ pc' = [pc EXCEPT ![w] = "donate"]
                   /\ idle_list' = [idle_list EXCEPT ![w] = receivers]
                   /\ jobs' = [jobs EXCEPT ![w] = Deal(private[w], receivers, Len(receivers) + 1)]
                   /\ \/ Len(receivers) < Len(private[w])
                      \/ /\ idle_list[w] # <<>>
                         /\ \A i \in DOMAIN idle_list[w] :
                               i \in DOMAIN receivers /\ receivers[i] = idle_list[w][i]
      BY Zenon, <2>3, Balance DEF queues, flags
    <3>2. CASE pc' = [pc EXCEPT ![w] = "pop"] /\ UNCHANGED <<idle_list, jobs>>
      <4>1. pc'[w] = "pop" /\ idle_list'[w] = idle_list[w] /\ pc[w] # "donate" /\ pc'[w] # "donate"
        BY Zenon, <1>0, <3>1, <3>2
      <4>2. (IF DonatingTo(w) THEN Donor(w) ELSE LeftList(w))'
        BY Zenon, <1>2, <4>1
      <4> QED
        BY Zenon, <2>2, <4>2 DEF Donors
    <3>3. ASSUME NEW receivers \in Seq(Workers),
                 receivers # <<>>, pc' = [pc EXCEPT ![w] = "donate"],
                 idle_list' = [idle_list EXCEPT ![w] = receivers],
                 jobs' = [jobs EXCEPT ![w] = Deal(private[w], receivers, Len(receivers) + 1)],
                 \/ Len(receivers) < Len(private[w])
                 \/ /\ idle_list[w] # <<>>
                    /\ \A i \in DOMAIN idle_list[w] :
                          i \in DOMAIN receivers /\ receivers[i] = idle_list[w][i]
          PROVE  Donors'
      <4>1. /\ idle_list'[w] = receivers /\ pc'[w] = "donate"
            /\ jobs'[w] = Deal(private[w], receivers, Len(receivers) + 1)
        BY Zenon, <1>0, <3>3
      <4>2. Donor(w)'
        BY Zenon, <3>1, <3>3, <4>1, NewDonor
      <4> QED
        BY Zenon, <2>2, <4>1, <4>2 DEF Donors, DonatingTo
    <3> QED
      BY Zenon, <3>1, <3>2, <3>3
  <2>4. CASE ~balance_work(w)
    <3>1. UNCHANGED idle_list /\ \E from \in Labels, to \in Labels \ {"donate"} :
                                     from # "donate" /\ Goes(w, from, to)
      <4>1. UNCHANGED idle_list
        BY Zenon, <1>4, <2>4 DEF WorkerStep, time_out, drain_queue, mark_worker_idle, try_acquire,
           wait_for_task, give_up, queue_drained, pop_task, finish_task, abort_exit
      <4>2. \/ Goes(w, "drain", "none") \/ Goes(w, "drain", "run") \/ Goes(w, "drain", "mark_idle")
            \/ Goes(w, "found", "none") \/ Goes(w, "found", "run") \/ Goes(w, "found", "wait")
            \/ Goes(w, "mark_idle", "wait") \/ Goes(w, "wait", "timed_out")
            \/ Goes(w, "timed_out", "none") \/ Goes(w, "run", "drain") \/ Goes(w, "task", "run")
            \/ Goes(w, "aborted", "none") \/ Goes(w, "wait", "found") \/ Goes(w, "wait", "wait")
            \/ Goes(w, "pop", "aborted") \/ Goes(w, "pop", "task")
        BY Zenon, <1>4, <2>4 DEF WorkerStep, time_out, drain_queue, mark_worker_idle, try_acquire,
           wait_for_task, give_up, queue_drained, pop_task, finish_task, abort_exit, TakeQueue, Exit
      <4> QED
        BY Zenon, <4>1, <4>2 DEF Labels
    <3>2. pc[w] # "donate" /\ pc'[w] # "donate" /\ idle_list'[w] = idle_list[w]
      BY Zenon, <1>0, <3>1 DEF Goes
    <3>3. (IF DonatingTo(w) THEN Donor(w) ELSE LeftList(w))'
      BY Zenon, <1>2, <3>2
    <3> QED
      BY Zenon, <2>2, <3>3 DEF Donors
  <2> QED
    BY Zenon, <2>3, <2>4
<1>5. ASSUME NEW t \in Threads, release_semaphore(t)
      PROVE  Donors'
  BY Zenon, <1>3, <1>5 DEF release_semaphore, queues
<1>6. ASSUME NEW t \in Threads, enqueue_foreign(t), RefuseForeign(t), m_abort[Head(jobs[t]).to]
      PROVE  Donors'
  <2>1. jobs' = [jobs EXCEPT ![t] = <<>>] /\ UNCHANGED <<private, idle_list>>
    BY Zenon, <1>6 DEF RefuseForeign, queues
  <2>2. \/ t \in Workers /\ pc[t] = "donate" /\ pc' = [pc EXCEPT ![t] = "aborted"]
        \/ ~DonatingTo(t) /\ UNCHANGED pc
        \/ t \in Workers /\ pc[t] = "task" /\ pc' = [pc EXCEPT ![t] = "aborted"]
    BY Zenon, <1>6 DEF RefuseForeign, DonatingTo, Goes
  <2>3. \A x \in Workers : x # t => jobs'[x] = jobs[x] /\ pc'[x] = pc[x]
    BY Zenon, <1>0, <2>1, <2>2
  <2>4. \A x \in Workers : x # t => (IF DonatingTo(x) THEN Donor(x) ELSE LeftList(x))'
    BY Zenon, <1>2, <2>1, <2>3
  <2>5. CASE t \in Workers /\ pc[t] = "donate" /\ pc' = [pc EXCEPT ![t] = "aborted"]
    <3>1. Donor(t) /\ pc'[t] = "aborted"
      BY Zenon, <1>0, <2>5 DEF Donors, DonatingTo
    <3>2. Head(jobs[t]) = jobs[t][1] /\ Len(jobs[t]) \in Nat \ {0}
      BY Zenon, <1>6, CallTyped DEF enqueue_foreign
    <3>3. 1 \in 1 .. Len(jobs[t])
      BY <3>2
    <3>4. Head(jobs[t]).to = idle_list[t][Done(t) + 1]
      BY Zenon, <3>1, <3>2, <3>3 DEF Donor
    <3>5. DOMAIN idle_list[t] = 1 .. Len(idle_list[t]) /\ Len(idle_list[t]) \in Nat
      BY Zenon, <1>1, <2>5, Elements
    <3>6. Len(jobs[t]) \in 1 .. Len(idle_list[t])
      BY Zenon, <3>1 DEF Donor
    <3>7. Done(t) + 1 \in DOMAIN idle_list[t]
      <4>1. PICK l, j : l = Len(idle_list[t]) /\ j = Len(jobs[t])
        BY Zenon
      <4>2. l \in Nat /\ j \in 1 .. l /\ Done(t) = l - j /\ DOMAIN idle_list[t] = 1 .. l
        BY Zenon, <3>5, <3>6, <4>1 DEF Done
      <4>3. (l - j) + 1 \in 1 .. l
        BY <4>2
      <4> QED
        BY Zenon, <4>2, <4>3
    <3>8. \E i \in DOMAIN idle_list[t] : m_abort[idle_list[t][i]]
      BY Zenon, <1>6, <3>4, <3>7
    <3>9. UNCHANGED m_abort
      BY Zenon, <1>6 DEF enqueue_foreign
    <3>10. LeftList(t)'
      BY Zenon, <2>1, <3>8, <3>9 DEF LeftList
    <3>11. ~DonatingTo(t)'
      BY Zenon, <3>1 DEF DonatingTo
    <3> QED
      BY Zenon, <2>4, <3>10, <3>11 DEF Donors
  <2>6. CASE ~DonatingTo(t) /\ UNCHANGED pc
    <3>1. t \in Workers => pc[t] # "donate"
      BY Zenon, <2>6 DEF DonatingTo
    <3>2. t \in Workers => (IF DonatingTo(t) THEN Donor(t) ELSE LeftList(t))'
      BY Zenon, <1>2, <2>1, <2>6, <3>1
    <3> QED
      BY Zenon, <2>4, <3>2 DEF Donors
  <2>7. CASE t \in Workers /\ pc[t] = "task" /\ pc' = [pc EXCEPT ![t] = "aborted"]
    <3>1. pc[t] # "donate" /\ pc'[t] # "donate"
      BY Zenon, <1>0, <2>7
    <3>2. (IF DonatingTo(t) THEN Donor(t) ELSE LeftList(t))'
      BY Zenon, <1>2, <2>1, <2>7, <3>1
    <3> QED
      BY Zenon, <2>4, <3>2 DEF Donors
  <2> QED
    BY Zenon, <2>2, <2>5, <2>6, <2>7
<1>7. ASSUME NEW t \in Threads, enqueue_foreign(t), AcceptForeign(t), ~m_abort[Head(jobs[t]).to]
      PROVE  Donors'
  <2>1. PICK w, s, rest : Accepted(t, w, s, rest)
    BY Zenon, <1>7, Accept
  <2>2. w \in Workers /\ jobs[t] # <<>> /\ \A x \in Workers : x \in Threads
    BY Zenon, <1>0, <2>1 DEF Accepted
  <2>3. \A x \in Workers :
            /\ jobs'[x] = IF x = t THEN rest ELSE jobs[x]
            /\ private'[x] = IF x = t /\ DonatingTo(t) THEN Donated(t, Len(rest)) ELSE private[x]
            /\ idle_list'[x] = IF x = t /\ DonatingTo(t) /\ rest = <<>> THEN <<>> ELSE idle_list[x]
            /\ pc'[x] = IF x = w /\ m_idle[w] THEN "drain"
                        ELSE IF x = t /\ DonatingTo(t) /\ rest = <<>> THEN "pop" ELSE pc[x]
    BY Zenon, <2>1, <2>2 DEF Accepted
  <2>4. m_idle[w] => pc[w] = "none"
    BY Zenon, <2>2 DEF Controlled, Active
  <2>5. ASSUME NEW x \in Workers, x # t \/ ~DonatingTo(t)
        PROVE  (IF DonatingTo(x) THEN Donor(x) ELSE LeftList(x))'
    <3>1. idle_list'[x] = idle_list[x] /\ private'[x] = private[x]
      BY Zenon, <2>3, <2>5
    <3>2. pc'[x] = pc[x] \/ (pc[x] = "none" /\ pc'[x] = "drain")
      BY Zenon, <2>3, <2>4, <2>5
    <3>3. pc[x] = "donate" => jobs'[x] = jobs[x]
      BY Zenon, <2>3, <2>5 DEF DonatingTo
    <3>4. pc[x] = "donate" <=> pc'[x] = "donate"
      BY Zenon, <3>2
    <3> QED
      BY Zenon, <1>2, <3>1, <3>3, <3>4
  <2>6. ASSUME DonatingTo(t)
        PROVE  (IF DonatingTo(t) THEN Donor(t) ELSE LeftList(t))'
    <3>1. t \in Workers /\ pc[t] = "donate" /\ Donor(t)
      BY Zenon, <2>6 DEF DonatingTo, Donors
    <3>2. ~(t = w /\ m_idle[w])
      BY Zenon, <2>4, <3>1
    <3>3. CASE rest = <<>>
      <4>1. idle_list'[t] = <<>> /\ pc'[t] = "pop"
        BY Zenon, <2>3, <2>6, <3>1, <3>2, <3>3
      <4>2. ~DonatingTo(t)'
        BY Zenon, <4>1 DEF DonatingTo
      <4> QED
        BY Zenon, <4>1, <4>2 DEF LeftList
    <3>4. CASE rest # <<>>
      <4>1. /\ jobs'[t] = rest /\ private'[t] = Donated(t, Len(rest)) /\ idle_list'[t] = idle_list[t]
            /\ pc'[t] = pc[t]
        BY Zenon, <2>3, <2>6, <3>1, <3>2, <3>4
      <4>2. UNCHANGED m_abort
        BY Zenon, <1>7 DEF enqueue_foreign
      <4>3. Donor(t)'
        BY Zenon, <1>7, <2>1, <2>2, <2>6, <3>1, <3>4, <4>1, <4>2, DonorGoesOn DEF Accepted
      <4> QED
        BY Zenon, <3>1, <4>1, <4>3 DEF DonatingTo
    <3> QED
      BY Zenon, <3>3, <3>4
  <2> QED
    BY Zenon, <2>5, <2>6 DEF Donors, DonatingTo
<1>8. CASE EnqueueCall
  <2>1. UNCHANGED idle_list
    BY Zenon, <1>8 DEF EnqueueCall, client_enqueue, client_bulk_enqueue, worker_enqueue,
       worker_bulk_enqueue
  <2>2. CASE \E c \in Clients : UNCHANGED <<pc, private>> /\ \E v : jobs' = [jobs EXCEPT ![c] = v]
    <3>1. PICK c \in Clients : UNCHANGED <<pc, private>> /\ \E v : jobs' = [jobs EXCEPT ![c] = v]
      BY Zenon, <2>2
    <3>2. \A x \in Workers : x # c
      BY Zenon, ClientsAreNoWorkers
    <3>3. \A x \in Workers : jobs'[x] = jobs[x]
      BY Zenon, <1>0, <3>1, <3>2
    <3> QED
      BY Zenon, <1>3, <2>1, <3>1, <3>3
  <2>3. ASSUME NEW w \in Workers, pc[w] = "task",
               UNCHANGED jobs \/ \E v : jobs' = [jobs EXCEPT ![w] = v],
               UNCHANGED private \/ \E v : private' = [private EXCEPT ![w] = v],
               UNCHANGED pc \/ pc' = [pc EXCEPT ![w] = "aborted"]
        PROVE  Donors'
    <3>1. \A x \in Workers : x # w => jobs'[x] = jobs[x] /\ private'[x] = private[x] /\ pc'[x] = pc[x]
      BY Zenon, <1>0, <2>3
    <3>2. pc[w] # "donate" /\ pc'[w] # "donate"
      BY Zenon, <1>0, <2>3
    <3> QED
      BY Zenon, <1>3, <2>1, <3>1, <3>2
  <2> QED
    BY Zenon, <1>8, <2>2, <2>3 DEF EnqueueCall, client_enqueue, client_bulk_enqueue, worker_enqueue,
       worker_bulk_enqueue, enqueue_local, queues, Goes
<1>9. ASSUME NEW p \in Pools, shutdown(p) \/ ShutdownStep(p)
      PROVE  Donors'
  <2>1. UNCHANGED <<idle_list, pc, jobs>>
    BY Zenon, <1>9 DEF shutdown, ShutdownStep, shutdown_atomic_abort, shutdown_abort,
       shutdown_announce, shutdown_release, shutdown_join, calls
  <2>2. \/ UNCHANGED private
        \/ pc[Shutting(p)] = "none" /\ private' = [private EXCEPT ![Shutting(p)] = <<>>]
    BY Zenon, <1>9 DEF shutdown, ShutdownStep, shutdown_atomic_abort, shutdown_abort,
       shutdown_announce, shutdown_release, shutdown_join, queues
  <2>3. \A x \in Workers : pc[x] = "donate" => private'[x] = private[x]
    BY Zenon, <1>0, <2>2
  <2> QED
    BY Zenon, <1>3, <2>1, <2>3
<1>10. CASE UNCHANGED vars
  BY Zenon, <1>3, <1>10 DEF vars, queues, calls
<1> QED
  BY Zenon, <1>4, <1>5, <1>6, <1>7, <1>8, <1>9, <1>10 DEF Next, CallStep, enqueue_foreign

=============================================================================
