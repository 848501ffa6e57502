------------------------ MODULE ManualExecutorProofs ------------------------
(***************************************************************************)
(* manual_executor loses no task and doubles none, takes them in order,    *)
(* notifies whoever sleeps and answers as its loops and waits say, for any *)
(* number of clients, tasks and calls; and it is an executor.              *)
(***************************************************************************)
EXTENDS ManualExecutor, FiniteSetTheorems, TLAPS

\* The empty sequence, which the provers know of only by its length.
LEMMA EmptySequence ==
    ASSUME NEW S
    PROVE  <<>> \in Seq(S) /\ \A s \in Seq(S) : s = <<>> <=> Len(s) = 0
  OBVIOUS

\* The tasks in the queue, those that are done with, and the threads that run one.
Queued == Range(m_tasks)
Done == Range(ran) \cup Range(dropped)
Busy == {c \in Clients : running[c] # Null}

\* No task is in a queue twice.
Distinct(q) == \A i, j \in 1 .. Len(q) : q[i] = q[j] => i = j

\* The tasks, counted and as a set.
Counted ==
    /\ Len(m_tasks) + Len(ran) + Len(dropped) + Cardinality(Busy) = made
    /\ Queued \cup InHand \cup Done = 1 .. made

\* A task that is still to be run, or is run, is in one place.
Apart ==
    /\ Distinct(m_tasks)
    /\ Queued \cap InHand = {} /\ (Queued \cup InHand) \cap Done = {}
    /\ \A c, d \in Busy : running[c] = running[d] => c = d

\* What goes with the place of a client: its task, and how far its loop is.  It
\* has executed no more tasks than were run.
ClientPlaces ==
    \A c \in Clients :
        /\ running[c] # Null <=> pc[c] = "task"
        /\ pc[c] \in {"loop", "task", "end_loop"} => call[c].op \in Loops
        /\ call[c].executed <= call[c].count /\ call[c].executed <= Len(ran)
        /\ pc[c] \in {"lock", "sleep", "task"} /\ call[c].op \in Loops =>
              call[c].executed < call[c].count

\* The flags, by the place of shutdown, after which there is no task in the queue.
Flags ==
    /\ m_abort <=> shut \notin {"no", "lock"}
    /\ m_atomic_abort <=> shut # "no"
    /\ m_abort => m_tasks = <<>>

\* What the latest call of a client took: as many tasks as it has executed, and
\* the one in hand; and when it may stop short, or is too late.
Taken ==
    \A c \in Clients :
        /\ Range(took[c]) \subseteq Range(ran) \cup {running[c]}
        /\ pc[c] # "idle" =>
              Len(took[c]) = call[c].executed + IF pc[c] = "task" THEN 1 ELSE 0
        /\ pc[c] = "end_loop" /\ call[c].op = "loop" /\ call[c].executed < call[c].count =>
              found[c] = 0
        /\ late[c] => shut = "done"

\* The tasks of a sequence are in the order in which they were made.
Ascending(q) == \A i, j \in 1 .. Len(q) : i < j => q[i] < q[j]

\* So they are in the queue, and in what each loop took before those.
Ordered ==
    /\ Ascending(m_tasks)
    /\ \A c \in Clients : /\ Ascending(took[c])
                          /\ \A t \in Range(took[c]), u \in Queued : t < u

\* The inductive invariant.
IInv ==
    /\ TypeOK /\ Counted /\ Apart /\ ClientPlaces /\ Flags /\ Taken /\ Ordered
    /\ NoLostNotify /\ AnswersAreRight

-----------------------------------------------------------------------------
(* Sequences of tasks, and the clients that run one.                       *)

\* The elements of a sequence are those at its indices.
LEMMA Elements ==
    ASSUME NEW q \in Seq(Tasks)
    PROVE  /\ Len(q) \in Nat
           /\ \A x : x \in Range(q) <=> \E i \in 1 .. Len(q) : q[i] = x
           /\ Range(q) \subseteq Tasks
           /\ q = <<>> <=> Range(q) = {}
<1>1. Len(q) \in Nat /\ q \in [1 .. Len(q) -> Tasks] /\ DOMAIN q = 1 .. Len(q)
  OBVIOUS
<1>2. \A x : x \in Range(q) <=> \E i \in 1 .. Len(q) : q[i] = x
  BY Zenon, <1>1 DEF Range
<1>3. q # <<>> => Len(q) \in Nat \ {0}
  OBVIOUS
<1>4. q = <<>> => Len(q) = 0
  BY Zenon, EmptySequence
<1>5. q # <<>> => q[1] \in Range(q)
  BY <1>2, <1>3
<1>6. q = <<>> => Range(q) = {}
  BY <1>1, <1>2, <1>4
<1> QED
  BY Zenon, <1>1, <1>2, <1>5, <1>6

\* What a concatenation is made of.
LEMMA Concat ==
    ASSUME NEW q \in Seq(Tasks), NEW s \in Seq(Tasks)
    PROVE  /\ q \o s \in Seq(Tasks) /\ Len(q \o s) = Len(q) + Len(s)
           /\ Range(q \o s) = Range(q) \cup Range(s)
           /\ Distinct(q) /\ Distinct(s) /\ Range(q) \cap Range(s) = {} => Distinct(q \o s)
<1> DEFINE c == q \o s
<1>1. /\ c \in Seq(Tasks) /\ Len(c) = Len(q) + Len(s)
      /\ \A i \in 1 .. Len(q) + Len(s) : c[i] = IF i <= Len(q) THEN q[i] ELSE s[i - Len(q)]
  OBVIOUS
<1>2. Len(q) \in Nat /\ Len(s) \in Nat
  BY Zenon, Elements
<1> HIDE DEF c
<1>3. \A i \in 1 .. Len(q) : i \in 1 .. Len(c) /\ c[i] = q[i]
  BY <1>1, <1>2
<1>4. \A i \in 1 .. Len(s) : Len(q) + i \in 1 .. Len(c) /\ c[Len(q) + i] = s[i]
  <2> SUFFICES ASSUME NEW i \in 1 .. Len(s) PROVE Len(q) + i \in 1 .. Len(c) /\ c[Len(q) + i] = s[i]
    BY Zenon
  <2>1. /\ Len(q) + i \in 1 .. Len(q) + Len(s) /\ ~(Len(q) + i <= Len(q))
        /\ (Len(q) + i) - Len(q) = i
    BY <1>2
  <2> QED
    BY Zenon, <1>1, <2>1
<1>5. \A k \in 1 .. Len(c) : \/ k \in 1 .. Len(q) /\ c[k] = q[k]
                             \/ \E i \in 1 .. Len(s) : k = Len(q) + i /\ c[k] = s[i]
  <2> SUFFICES ASSUME NEW k \in 1 .. Len(c), ~(k <= Len(q))
               PROVE  \E i \in 1 .. Len(s) : k = Len(q) + i /\ c[k] = s[i]
    BY <1>1, <1>2
  <2>1. k - Len(q) \in 1 .. Len(s) /\ k = Len(q) + (k - Len(q)) /\ c[k] = s[k - Len(q)]
    BY <1>1, <1>2
  <2> QED
    BY Zenon, <2>1
<1>6. Range(c) = Range(q) \cup Range(s)
  <2>1. \A x : x \in Range(c) <=> \E k \in 1 .. Len(c) : c[k] = x
    BY Zenon, <1>1, Elements
  <2>2. \A x : x \in Range(q) <=> \E k \in 1 .. Len(q) : q[k] = x
    BY Zenon, Elements
  <2>3. \A x : x \in Range(s) <=> \E k \in 1 .. Len(s) : s[k] = x
    BY Zenon, Elements
  <2>4. \A x \in Range(c) : x \in Range(q) \cup Range(s)
    BY Zenon, <1>5, <2>1, <2>2, <2>3
  <2>5. \A x \in Range(q) : x \in Range(c)
    BY Zenon, <1>3, <2>1, <2>2
  <2>6. \A x \in Range(s) : x \in Range(c)
    BY Zenon, <1>4, <2>1, <2>3
  <2> QED
    BY Zenon, <2>4, <2>5, <2>6
<1>7. ASSUME Distinct(q), Distinct(s), Range(q) \cap Range(s) = {} PROVE Distinct(c)
  <2>1. \A i \in 1 .. Len(q), j \in 1 .. Len(s) : q[i] # s[j]
    BY Zenon, <1>7, Elements
  <2> SUFFICES ASSUME NEW i \in 1 .. Len(c), NEW j \in 1 .. Len(c), c[i] = c[j] PROVE i = j
    BY Zenon DEF Distinct
  <2>2. CASE i \in 1 .. Len(q) /\ c[i] = q[i] /\ j \in 1 .. Len(q) /\ c[j] = q[j]
    BY Zenon, <1>7, <2>2 DEF Distinct
  <2>3. CASE /\ \E a \in 1 .. Len(s) : i = Len(q) + a /\ c[i] = s[a]
             /\ \E b \in 1 .. Len(s) : j = Len(q) + b /\ c[j] = s[b]
    BY Zenon, <1>7, <2>3 DEF Distinct
  <2> QED
    BY Zenon, <1>5, <2>1, <2>2, <2>3
<1> QED
  BY Zenon, <1>1, <1>6, <1>7 DEF c

\* What is left when the first task is taken.
LEMMA HeadAndTail ==
    ASSUME NEW q \in Seq(Tasks), q # <<>>
    PROVE  /\ Head(q) \in Tasks /\ Tail(q) \in Seq(Tasks) /\ Len(Tail(q)) = Len(q) - 1
           /\ Range(q) = {Head(q)} \cup Range(Tail(q))
           /\ Distinct(q) => Distinct(Tail(q)) /\ Head(q) \notin Range(Tail(q))
<1> DEFINE r == Tail(q)
           h == Head(q)
<1>1. /\ h \in Tasks /\ r \in Seq(Tasks) /\ Len(r) = Len(q) - 1
      /\ \A i \in 1 .. Len(r) : r[i] = q[i + 1]
  OBVIOUS
<1>2. h = q[1] /\ Len(q) \in Nat \ {0} /\ Len(r) \in Nat
  BY <1>1, EmptySequence, Elements
<1> HIDE DEF r, h
<1>3. \A i \in 1 .. Len(r) : i + 1 \in 1 .. Len(q) /\ r[i] = q[i + 1] /\ i + 1 # 1
  BY <1>1, <1>2
<1>4. \A k \in 1 .. Len(q) : k # 1 => \E i \in 1 .. Len(r) : k = i + 1 /\ r[i] = q[k]
  <2> SUFFICES ASSUME NEW k \in 1 .. Len(q), k # 1
               PROVE  \E i \in 1 .. Len(r) : k = i + 1 /\ r[i] = q[k]
    BY Zenon
  <2>1. k - 1 \in 1 .. Len(r) /\ k = (k - 1) + 1
    BY <1>1, <1>2
  <2> QED
    BY Zenon, <1>1, <2>1
<1>5. 1 \in 1 .. Len(q)
  BY <1>2
<1>6. Range(q) = {h} \cup Range(r)
  <2>1. \A x : x \in Range(q) <=> \E k \in 1 .. Len(q) : q[k] = x
    BY Zenon, Elements
  <2>2. \A x : x \in Range(r) <=> \E k \in 1 .. Len(r) : r[k] = x
    BY Zenon, <1>1, Elements
  <2>3. \A x \in Range(q) : x \in {h} \cup Range(r)
    BY Zenon, <1>2, <1>4, <2>1, <2>2
  <2>4. \A x \in Range(r) : x \in Range(q)
    BY Zenon, <1>3, <2>1, <2>2
  <2>5. h \in Range(q)
    BY Zenon, <1>2, <1>5, <2>1
  <2> QED
    BY Zenon, <2>3, <2>4, <2>5
<1>7. ASSUME Distinct(q) PROVE Distinct(r) /\ h \notin Range(r)
  <2>1. ASSUME NEW i \in 1 .. Len(r), NEW j \in 1 .. Len(r), r[i] = r[j] PROVE i = j
    <3>1. i + 1 = j + 1
      BY Zenon, <1>3, <1>7, <2>1 DEF Distinct
    <3> QED
      BY <3>1
  <2>2. \A i \in 1 .. Len(r) : r[i] # h
    BY Zenon, <1>2, <1>3, <1>5, <1>7 DEF Distinct
  <2> QED
    BY Zenon, <1>1, <2>1, <2>2, Elements DEF Distinct
<1> QED
  BY Zenon, <1>1, <1>6, <1>7 DEF r, h

\* A task is added at the end of the list of those that were run or destroyed.
LEMMA Appended ==
    ASSUME NEW q \in Seq(Tasks), NEW t \in Tasks
    PROVE  /\ Append(q, t) \in Seq(Tasks) /\ Len(Append(q, t)) = Len(q) + 1
           /\ Range(Append(q, t)) = Range(q) \cup {t}
<1> DEFINE a == Append(q, t)
<1>1. /\ a \in Seq(Tasks) /\ Len(a) = Len(q) + 1
      /\ \A i \in 1 .. Len(q) : a[i] = q[i]
      /\ a[Len(q) + 1] = t
  OBVIOUS
<1>2. Len(q) \in Nat
  BY Zenon, Elements
<1> HIDE DEF a
<1>3. \A x : x \in Range(a) <=> x \in Range(q) \/ x = t
  <2>1. \A x : x \in Range(a) <=> \E k \in 1 .. Len(q) + 1 : a[k] = x
    BY Zenon, <1>1, Elements
  <2>2. \A x : x \in Range(q) <=> \E k \in 1 .. Len(q) : q[k] = x
    BY Zenon, Elements
  <2>3. \A k \in 1 .. Len(q) + 1 : k \in 1 .. Len(q) \/ k = Len(q) + 1
    BY <1>2
  <2>4. Len(q) + 1 \in 1 .. Len(q) + 1 /\ \A k \in 1 .. Len(q) : k \in 1 .. Len(q) + 1
    BY <1>2
  <2> QED
    BY Zenon, <1>1, <2>1, <2>2, <2>3, <2>4
<1> QED
  BY Zenon, <1>1, <1>3 DEF a

\* Order is kept at both ends of a queue.
LEMMA AscendingConcat ==
    ASSUME NEW q \in Seq(Tasks), NEW s \in Seq(Tasks), Ascending(q), Ascending(s),
           \A t \in Range(q), u \in Range(s) : t < u
    PROVE  Ascending(q \o s)
<1> DEFINE c == q \o s
<1>1. /\ Len(c) = Len(q) + Len(s) /\ Len(q) \in Nat /\ Len(s) \in Nat
      /\ \A i \in 1 .. Len(c) : c[i] = IF i <= Len(q) THEN q[i] ELSE s[i - Len(q)]
  OBVIOUS
<1> HIDE DEF c
<1>2. /\ \A i \in 1 .. Len(q) : q[i] \in Range(q) /\ q[i] \in Nat
      /\ \A i \in 1 .. Len(s) : s[i] \in Range(s) /\ s[i] \in Nat
  BY Elements, BoundsAreNat DEF Tasks
<1> SUFFICES ASSUME NEW i \in 1 .. Len(c), NEW j \in 1 .. Len(c), i < j PROVE c[i] < c[j]
  BY Zenon DEF Ascending, c
<1>3. CASE j <= Len(q)
  <2>1. i \in 1 .. Len(q) /\ j \in 1 .. Len(q) /\ i <= Len(q)
    BY <1>1, <1>3
  <2> QED
    BY Zenon, <1>1, <1>3, <2>1 DEF Ascending
<1>4. CASE i <= Len(q) /\ ~(j <= Len(q))
  <2>1. i \in 1 .. Len(q) /\ j - Len(q) \in 1 .. Len(s)
    BY <1>1, <1>4
  <2> QED
    BY Zenon, <1>1, <1>2, <1>4, <2>1
<1>5. CASE ~(i <= Len(q))
  <2>1. /\ i - Len(q) \in 1 .. Len(s) /\ j - Len(q) \in 1 .. Len(s) /\ ~(j <= Len(q))
        /\ i - Len(q) < j - Len(q)
    BY <1>1, <1>5
  <2> QED
    BY Zenon, <1>1, <1>5, <2>1 DEF Ascending
<1> QED
  BY Zenon, <1>3, <1>4, <1>5

LEMMA AscendingTail ==
    ASSUME NEW q \in Seq(Tasks), q # <<>>, Ascending(q)
    PROVE  Ascending(Tail(q)) /\ \A u \in Range(Tail(q)) : Head(q) < u
<1> DEFINE r == Tail(q)
<1>1. /\ r \in Seq(Tasks) /\ Len(r) = Len(q) - 1 /\ Len(q) \in Nat \ {0} /\ Head(q) = q[1]
      /\ \A i \in 1 .. Len(r) : r[i] = q[i + 1]
  BY EmptySequence
<1>2. \A i \in 1 .. Len(r) : i + 1 \in 1 .. Len(q) /\ 1 < i + 1
  BY <1>1
<1>3. 1 \in 1 .. Len(q) /\ \A i, j \in 1 .. Len(r) : i < j => i + 1 < j + 1
  BY <1>1
<1> HIDE DEF r
<1>4. Ascending(r)
  BY Zenon, <1>1, <1>2, <1>3 DEF Ascending
<1>5. ASSUME NEW u \in Range(r) PROVE Head(q) < u
  <2>1. PICK i \in 1 .. Len(r) : r[i] = u
    BY Zenon, <1>1, Elements
  <2> QED
    BY Zenon, <1>1, <1>2, <1>3, <2>1 DEF Ascending
<1> QED
  BY Zenon, <1>4, <1>5 DEF r

LEMMA AscendingAppend ==
    ASSUME NEW q \in Seq(Tasks), NEW t \in Tasks, Ascending(q), \A u \in Range(q) : u < t
    PROVE  Ascending(Append(q, t))
<1> DEFINE a == Append(q, t)
<1>1. /\ Len(a) = Len(q) + 1 /\ Len(q) \in Nat /\ a[Len(q) + 1] = t
      /\ \A i \in 1 .. Len(q) : a[i] = q[i]
  OBVIOUS
<1> HIDE DEF a
<1>2. \A i \in 1 .. Len(q) : a[i] < t
  BY Zenon, <1>1, Elements
<1> SUFFICES ASSUME NEW i \in 1 .. Len(a), NEW j \in 1 .. Len(a), i < j PROVE a[i] < a[j]
  BY Zenon DEF Ascending, a
<1>3. i \in 1 .. Len(q) /\ (j \in 1 .. Len(q) \/ j = Len(q) + 1)
  BY <1>1
<1> QED
  BY Zenon, <1>1, <1>2, <1>3 DEF Ascending

\* The tasks of one call of enqueue, in the order of their numbers.
LEMMA SpanOfTasks ==
    ASSUME NEW n \in 1 .. MaxCount, made \in 0 .. MaxTasks, made + n <= MaxTasks
    PROVE  /\ NextTasks(n) \in Seq(Tasks) /\ Len(NextTasks(n)) = n
           /\ Range(NextTasks(n)) = made + 1 .. made + n
           /\ Distinct(NextTasks(n)) /\ Ascending(NextTasks(n))
<1> DEFINE s == NextTasks(n)
<1>1. n \in Nat /\ made \in Nat /\ MaxTasks \in Nat
  BY BoundsAreNat
<1>2. \A i \in 1 .. n : made + i \in Tasks
  BY <1>1 DEF Tasks
<1>3. s \in Seq(Tasks) /\ Len(s) = n /\ \A i \in 1 .. n : s[i] = made + i
  BY <1>1, <1>2 DEF NextTasks
<1> HIDE DEF s
<1>4. \A x \in made + 1 .. made + n : x - made \in 1 .. n /\ s[x - made] = x
  <2> SUFFICES ASSUME NEW x \in made + 1 .. made + n PROVE x - made \in 1 .. n /\ s[x - made] = x
    BY Zenon
  <2>1. x - made \in 1 .. n /\ made + (x - made) = x
    BY <1>1
  <2> QED
    BY Zenon, <1>3, <2>1
<1>5. Range(s) = made + 1 .. made + n
  <2>1. \A x : x \in Range(s) <=> \E k \in 1 .. n : s[k] = x
    BY Zenon, <1>3, Elements
  <2>2. \A k \in 1 .. n : made + k \in made + 1 .. made + n
    BY <1>1
  <2>3. \A x \in Range(s) : x \in made + 1 .. made + n
    BY <1>3, <2>1, <2>2
  <2>4. \A x \in made + 1 .. made + n : x \in Range(s)
    BY Zenon, <1>4, <2>1
  <2> QED
    BY Zenon, <2>3, <2>4
<1>6. Distinct(s)
  BY <1>1, <1>3 DEF Distinct
<1>7. Ascending(s)
  BY <1>1, <1>3 DEF Ascending
<1> QED
  BY Zenon, <1>3, <1>5, <1>6, <1>7 DEF s

\* Who runs a task, and how many do.
LEMMA BusyClients ==
    ASSUME TypeOK
    PROVE  /\ IsFiniteSet(Busy) /\ Cardinality(Busy) \in Nat
           /\ \A c \in Clients : /\ c \in Busy <=> running[c] # Null
                                 /\ c \in Busy => running[c] \in Tasks /\ running[c] \in InHand
           /\ \A t \in InHand : t \in Tasks /\ \E c \in Busy : running[c] = t
<1>1. Busy \subseteq Clients
  BY Zenon DEF Busy
<1>2. IsFiniteSet(Busy)
  BY Zenon, <1>1, ClientsAreFinite, FS_Subset
<1>3. Cardinality(Busy) \in Nat
  BY Zenon, <1>2, FS_CardinalityType
<1>4. \A c \in Clients : c \in Busy <=> running[c] # Null
  BY Zenon DEF Busy
<1>5. \A c \in Busy : running[c] \in Tasks /\ running[c] \in InHand
  BY Zenon, <1>1, <1>4 DEF TypeOK, InHand
<1>6. ASSUME NEW t \in InHand PROVE t \in Tasks /\ \E c \in Busy : running[c] = t
  BY Zenon, <1>4 DEF TypeOK, InHand
<1> QED
  BY Zenon, <1>2, <1>3, <1>4, <1>5, <1>6

\* A client takes a task in hand.
LEMMA TakesInHand ==
    ASSUME TypeOK, NEW c \in Clients, NEW t \in Tasks, running[c] = Null,
           running' = [running EXCEPT ![c] = t]
    PROVE  /\ running' \in [Clients -> Tasks \cup {Null}]
           /\ Busy' = Busy \cup {c} /\ InHand' = InHand \cup {t}
           /\ Cardinality(Busy') = Cardinality(Busy) + 1
<1>1. running \in [Clients -> Tasks \cup {Null}] /\ t # Null /\ Null \notin Tasks
  BY BoundsAreNat DEF TypeOK, Tasks, Null
<1>2. /\ running' \in [Clients -> Tasks \cup {Null}] /\ running'[c] = t
      /\ \A d \in Clients \ {c} : running'[d] = running[d]
  BY Zenon, <1>1
<1>3. Busy' = Busy \cup {c} /\ c \notin Busy
  BY Zenon, <1>1, <1>2 DEF Busy
<1>4. InHand' = InHand \cup {t}
  BY Zenon, <1>1, <1>2 DEF InHand
<1>5. Cardinality(Busy') = Cardinality(Busy) + 1
  BY Zenon, <1>3, BusyClients, FS_AddElement
<1> QED
  BY Zenon, <1>2, <1>3, <1>4, <1>5

\* A client is done with its task.
LEMMA LetsGo ==
    ASSUME TypeOK, Apart, NEW c \in Busy, running' = [running EXCEPT ![c] = Null]
    PROVE  /\ running' \in [Clients -> Tasks \cup {Null}]
           /\ Busy' = Busy \ {c} /\ InHand' = InHand \ {running[c]}
           /\ Cardinality(Busy') = Cardinality(Busy) - 1
<1>1. running \in [Clients -> Tasks \cup {Null}] /\ c \in Clients /\ running[c] # Null
  BY Zenon DEF TypeOK, Busy
<1>2. /\ running' \in [Clients -> Tasks \cup {Null}] /\ running'[c] = Null
      /\ \A d \in Clients \ {c} : running'[d] = running[d]
  BY Zenon, <1>1
<1>3. Busy' = Busy \ {c}
  BY Zenon, <1>1, <1>2 DEF Busy
<1>4. \A d \in Clients \ {c} : running[d] # running[c]
  BY Zenon, <1>1 DEF Apart, Busy
<1>5. InHand' = InHand \ {running[c]}
  <2>1. \A t : t \in InHand' <=> t # Null /\ \E d \in Clients : running'[d] = t
    BY Zenon DEF InHand
  <2>2. \A t : t \in InHand <=> t # Null /\ \E d \in Clients : running[d] = t
    BY Zenon DEF InHand
  <2> QED
    BY <1>1, <1>2, <1>4, <2>1, <2>2
<1>6. Cardinality(Busy') = Cardinality(Busy) - 1
  BY Zenon, <1>3, BusyClients, FS_RemoveElement
<1> QED
  BY Zenon, <1>2, <1>3, <1>5, <1>6

-----------------------------------------------------------------------------
(* The steps.                                                              *)

\* What is left alone when no task moves.
LEMMA NoTaskMoves ==
    ASSUME Counted, Apart, UNCHANGED <<m_tasks, running, tasks>>
    PROVE  Counted' /\ Apart'
<1>1. UNCHANGED <<Queued, Done, Busy, InHand>>
  BY Zenon DEF Queued, Done, Busy, InHand, tasks
<1>2. UNCHANGED <<m_tasks, running, made, ran, dropped>>
  BY Zenon DEF tasks
<1> QED
  BY Zenon, <1>1, <1>2 DEF Counted, Apart

\* A call that is not looked at by the rest.
LEMMA CallIs ==
    ASSUME TypeOK, NEW c \in Clients
    PROVE  /\ call[c] \in CallRecords /\ NoCall \in CallRecords
           /\ call[c].op \in Loops \cup Waits \cup {"none"}
           /\ call[c].count \in 0 .. MaxCount /\ call[c].executed \in 0 .. MaxCount
           /\ call[c].count \in Nat /\ call[c].executed \in Nat
<1>1. call[c] \in CallRecords
  BY Zenon DEF TypeOK
<1>2. NoCall \in CallRecords
  BY BoundsAreNat DEF NoCall, CallRecords
<1> QED
  BY <1>1, <1>2, BoundsAreNat DEF CallRecords

\* How many tasks are in the lists.
LEMMA ListsAreShort ==
    ASSUME IInv
    PROVE  /\ Len(m_tasks) \in 0 .. MaxTasks /\ Len(ran) \in 0 .. MaxTasks
           /\ Len(dropped) \in Nat
<1>1. Len(m_tasks) \in Nat /\ Len(ran) \in Nat /\ Len(dropped) \in Nat
  BY Zenon, Elements DEF IInv, TypeOK
<1>2. made \in 0 .. MaxTasks /\ Cardinality(Busy) \in Nat
  BY Zenon, BusyClients DEF IInv, TypeOK
<1> QED
  BY <1>1, <1>2, BoundsAreNat DEF IInv, Counted

\* What a loop took is among the tasks made.
LEMMA TookIsMade ==
    ASSUME IInv, NEW c \in Clients
    PROVE  Range(took[c]) \subseteq 1 .. made /\ Null \notin Range(took[c])
<1>1. took[c] \in Seq(Tasks) /\ Null \notin Tasks
  BY BoundsAreNat DEF IInv, TypeOK, Tasks, Null
<1>2. Null \notin Range(took[c])
  BY Zenon, <1>1, Elements
<1>3. running[c] # Null => running[c] \in InHand
  BY Zenon DEF InHand
<1> QED
  BY Zenon, <1>2, <1>3 DEF IInv, Taken, Counted, Done

\* An answer stays right while nothing that it speaks of changes: what has been
\* run has been run.
LEMMA AnswerStays ==
    ASSUME NEW c \in Clients, RightAnswer(c), Range(ran) \subseteq Range(ran'),
           shut # "no" => shut' # "no",
           answer'[c] = answer[c], took'[c] = took[c], found'[c] = found[c], late'[c] = late[c]
    PROVE  RightAnswer(c)'
  BY Zenon DEF RightAnswer

\* So the answers do when no call returns.
LEMMA AnswersStay ==
    ASSUME AnswersAreRight, Range(ran) \subseteq Range(ran'), shut # "no" => shut' # "no",
           \A d \in Clients : pc'[d] = "idle" =>
               /\ pc[d] = "idle" /\ answer'[d] = answer[d]
               /\ took'[d] = took[d] /\ found'[d] = found[d] /\ late'[d] = late[d]
    PROVE  AnswersAreRight'
  BY Zenon, AnswerStays DEF AnswersAreRight

\* What is left alone when no client takes or ends a task: the others may wake it,
\* and shutdown goes on.
LEMMA HistoryStays ==
    ASSUME Taken, AnswersAreRight, UNCHANGED <<call, running, answer, took, found, late, ran>>,
           \A d \in Clients : pc'[d] = pc[d] \/ (pc[d] = "sleep" /\ pc'[d] = "lock"),
           shut' = shut \/ (shut # "done" /\ shut' # "no")
    PROVE  Taken' /\ AnswersAreRight'
<1>1. AnswersAreRight'
  BY Zenon, AnswersStay
<1>2. \A d \in Clients : late[d] => shut' = "done"
  BY Zenon DEF Taken
<1>3. \A d \in Clients : /\ pc[d] = "sleep" => pc[d] # "task" /\ pc[d] # "idle"
                         /\ pc'[d] = "idle" <=> pc[d] = "idle"
                         /\ pc'[d] = "task" <=> pc[d] = "task"
                         /\ pc'[d] = "end_loop" <=> pc[d] = "end_loop"
  BY Zenon
<1>4. Taken'
  BY Zenon, <1>2, <1>3 DEF Taken
<1> QED
  BY Zenon, <1>1, <1>4

\* The order is not disturbed by a queue that stays, or is emptied.
LEMMA OrderStays ==
    ASSUME Ordered, UNCHANGED took, m_tasks' = m_tasks \/ m_tasks' = <<>>
    PROVE  Ordered'
<1>1. Len(<<>>) = 0 /\ Range(<<>>) = {} /\ <<>> \in Seq(Tasks)
  BY Zenon, EmptySequence, Elements
<1>2. Ascending(<<>>)
  BY <1>1 DEF Ascending
<1> QED
  BY Zenon, <1>1, <1>2 DEF Ordered, Queued

\* A new manual_executor satisfies the invariant.
LEMMA InitIInv == Init => IInv
<1> SUFFICES ASSUME Init PROVE IInv
  BY Zenon
<1>1. <<>> \in Seq(Tasks) /\ Len(<<>>) = 0 /\ Range(<<>>) = {}
  BY Zenon, EmptySequence, Elements
<1>2. TypeOK
  <2>1. NoCall \in CallRecords
    BY BoundsAreNat DEF NoCall, CallRecords
  <2>2. NoAnswer \in [call : CallRecords, result : Throws .. MaxTasks]
    BY <2>1, BoundsAreNat DEF NoAnswer, Throws
  <2>3. 0 \in 0 .. MaxTasks /\ 0 \in 0 .. MaxCalls
    BY BoundsAreNat
  <2>4. /\ call \in [Clients -> CallRecords] /\ running \in [Clients -> Tasks \cup {Null}]
        /\ answer \in [Clients -> [call : CallRecords, result : Throws .. MaxTasks]]
        /\ calls \in [Clients -> 0 .. MaxCalls] /\ found \in [Clients -> 0 .. MaxTasks]
        /\ took \in [Clients -> Seq(Tasks)] /\ late \in [Clients -> BOOLEAN]
    BY <1>1, <2>1, <2>2, <2>3, Zenon DEF Init
  <2> QED
    BY Zenon, <1>1, <2>3, <2>4 DEF Init, TypeOK
<1>3. Busy = {} /\ InHand = {} /\ Queued = {} /\ Done = {}
  BY Zenon, <1>1 DEF Init, Busy, InHand, Queued, Done
<1>4. Counted
  <2>1. Cardinality(Busy) = 0
    BY Zenon, <1>3, FS_EmptySet
  <2>2. 1 .. 0 = {}
    OBVIOUS
  <2> QED
    BY <1>1, <1>3, <2>1, <2>2 DEF Init, Counted
<1>5. Apart
  <2>1. Distinct(m_tasks)
    BY <1>1 DEF Init, Distinct
  <2> QED
    BY Zenon, <1>3, <2>1 DEF Apart
<1>6. ClientPlaces
  BY <1>1 DEF Init, ClientPlaces, NoCall, Loops
<1>7. Flags
  BY Zenon DEF Init, Flags
<1>8. NoLostNotify
  BY Zenon DEF Init, NoLostNotify
<1>9. AnswersAreRight
  BY DEF Init, AnswersAreRight, RightAnswer, NoAnswer, NoCall, Throws, Loops
<1>10. Taken
  BY Zenon, <1>1 DEF Init, Taken
<1>11. Ordered
  <2>1. Ascending(<<>>)
    BY <1>1 DEF Ascending
  <2> QED
    BY Zenon, <1>1, <2>1 DEF Init, Ordered, Queued
<1> QED
  BY Zenon, <1>2, <1>4, <1>5, <1>6, <1>7, <1>8, <1>9, <1>10, <1>11 DEF IInv

\* enqueue appends the tasks, or drops them once m_abort is set.
LEMMA EnqueueKeeps ==
    ASSUME IInv, NEW c \in Clients, NEW n \in 1 .. MaxCount, enqueue(c, n)
    PROVE  IInv'
<1> USE DEF IInv
<1> DEFINE S == made + 1 .. made + n
<1>1. /\ made' = made + n /\ made + n <= MaxTasks
      /\ UNCHANGED <<m_abort, m_atomic_abort, pc, call, running, answer, calls, ran, shut>>
      /\ UNCHANGED <<took, found, late>>
      /\ made \in 0 .. MaxTasks
  BY Zenon DEF enqueue, aborts, history, TypeOK
<1>2. /\ NextTasks(n) \in Seq(Tasks) /\ Len(NextTasks(n)) = n
      /\ Range(NextTasks(n)) = S /\ Distinct(NextTasks(n)) /\ Ascending(NextTasks(n))
  BY Zenon, <1>1, SpanOfTasks
<1>3. /\ made \in Nat /\ n \in Nat /\ made' \in 0 .. MaxTasks /\ 1 .. made' = (1 .. made) \cup S
      /\ S \cap (1 .. made) = {} /\ \A t \in 1 .. made, u \in S : t < u
  BY <1>1, BoundsAreNat
<1>4. /\ Len(m_tasks) \in Nat /\ Len(ran) \in Nat /\ Len(dropped) \in Nat
      /\ Cardinality(Busy) \in Nat
  BY ListsAreShort, BusyClients
<1>5. Busy' = Busy /\ InHand' = InHand
  BY Zenon, <1>1 DEF Busy, InHand
<1>8. Taken' /\ AnswersAreRight'
  BY Zenon, <1>1, HistoryStays
<1> HIDE DEF S
<1>6. CASE m_abort /\ dropped' = dropped \o NextTasks(n) /\ UNCHANGED <<m_tasks, owes>>
  <2>1. /\ dropped' \in Seq(Tasks) /\ Len(dropped') = Len(dropped) + n
        /\ Range(dropped') = Range(dropped) \cup S
    BY Zenon, <1>2, <1>6, Concat DEF TypeOK
  <2>2. Done' = Done \cup S /\ Queued' = Queued
    BY Zenon, <1>1, <1>6, <2>1 DEF Done, Queued
  <2>3. TypeOK'
    BY Zenon, <1>1, <1>3, <1>6, <2>1 DEF TypeOK
  <2>4. Counted'
    <3>1. /\ Len(m_tasks) + Len(ran) + Len(dropped) + Cardinality(Busy) = made
          /\ made \in Nat /\ n \in Nat /\ made' = made + n /\ UNCHANGED <<ran, Busy>>
      BY Zenon, <1>1, <1>3, <1>5 DEF Counted
    <3>2. Len(m_tasks') + Len(ran') + Len(dropped') + Cardinality(Busy') = made'
      <4>1. /\ Len(m_tasks') = Len(m_tasks) /\ Len(dropped') = Len(dropped) + n
            /\ Len(ran') = Len(ran) /\ Cardinality(Busy') = Cardinality(Busy)
        BY <1>6, <2>1, <3>1, Zenon
      <4> QED
        BY ONLY <1>4, <3>1, <4>1
    <3> QED
      BY Zenon, <1>3, <1>5, <2>2, <3>2 DEF Counted
  <2>5. Apart'
    BY Zenon, <1>1, <1>3, <1>5, <1>6, <2>2 DEF Apart, Counted
  <2>6. ClientPlaces' /\ Flags'
    BY Zenon, <1>1, <1>6 DEF ClientPlaces, Flags
  <2>7. NoLostNotify'
    BY Zenon, <1>1, <1>6 DEF NoLostNotify, Satisfied
  <2>8. Ordered'
    BY Zenon, <1>1, <1>6, OrderStays
  <2> QED
    BY Zenon, <1>8, <2>3, <2>4, <2>5, <2>6, <2>7, <2>8
<1>7. CASE /\ ~m_abort /\ m_tasks' = m_tasks \o NextTasks(n) /\ owes' = owes \cup {c}
           /\ UNCHANGED dropped
  <2>1. /\ m_tasks' \in Seq(Tasks) /\ Len(m_tasks') = Len(m_tasks) + n
        /\ Range(m_tasks') = Range(m_tasks) \cup S
    BY Zenon, <1>2, <1>7, Concat DEF TypeOK
  <2>2. Done' = Done /\ Queued' = Queued \cup S
    BY Zenon, <1>1, <1>7, <2>1 DEF Done, Queued
  <2>3. TypeOK'
    BY Zenon, <1>1, <1>3, <1>7, <2>1 DEF TypeOK
  <2>4. Counted'
    <3>1. /\ Len(m_tasks) + Len(ran) + Len(dropped) + Cardinality(Busy) = made
          /\ made \in Nat /\ n \in Nat /\ made' = made + n /\ UNCHANGED <<ran, Busy>>
      BY Zenon, <1>1, <1>3, <1>5 DEF Counted
    <3>2. Len(m_tasks') + Len(ran') + Len(dropped') + Cardinality(Busy') = made'
      <4>1. /\ Len(m_tasks') = Len(m_tasks) + n /\ Len(dropped') = Len(dropped)
            /\ Len(ran') = Len(ran) /\ Cardinality(Busy') = Cardinality(Busy)
        BY <1>7, <2>1, <3>1, Zenon
      <4> QED
        BY ONLY <1>4, <3>1, <4>1
    <3> QED
      BY Zenon, <1>3, <1>5, <2>2, <3>2 DEF Counted
  <2>5. Apart'
    <3>1. Distinct(m_tasks')
      <4>1. Range(m_tasks) \cap S = {}
        BY Zenon, <1>3 DEF Counted, Queued
      <4> QED
        BY Zenon, <1>2, <1>7, <4>1, Concat DEF TypeOK, Apart
    <3> QED
      BY Zenon, <1>1, <1>3, <1>5, <2>2, <3>1 DEF Apart, Counted
  <2>6. ClientPlaces' /\ Flags'
    BY Zenon, <1>1, <1>7 DEF ClientPlaces, Flags
  <2>7. NoLostNotify'
    BY Zenon, <1>7 DEF NoLostNotify
  <2>8. Ordered'
    <3>1. Ascending(m_tasks')
      <4>1. \A t \in Range(m_tasks), u \in S : t < u
        BY Zenon, <1>3 DEF Counted, Queued
      <4> QED
        BY Zenon, <1>2, <1>7, <4>1, AscendingConcat DEF TypeOK, Ordered
    <3>2. \A d \in Clients : \A t \in Range(took[d]), u \in Queued' : t < u
      BY Zenon, <1>3, <2>2, TookIsMade DEF Ordered
    <3> QED
      BY Zenon, <1>1, <3>1, <3>2 DEF Ordered
  <2> QED
    BY Zenon, <1>8, <2>3, <2>4, <2>5, <2>6, <2>7, <2>8
<1> QED
  BY Zenon, <1>6, <1>7 DEF enqueue

\* The tasks that are in the queue are destroyed, by clear or by shutdown.
LEMMA QueueIsDestroyed ==
    ASSUME IInv, dropped' = dropped \o m_tasks, m_tasks' = <<>>,
           UNCHANGED <<running, made, ran>>
    PROVE  /\ m_tasks' \in Seq(Tasks) /\ Len(m_tasks') = 0 /\ dropped' \in Seq(Tasks)
           /\ Range(dropped') = Range(dropped) \cup Queued
           /\ Counted' /\ Apart'
<1> USE DEF IInv
<1>1. <<>> \in Seq(Tasks) /\ Len(<<>>) = 0 /\ Range(<<>>) = {}
  BY Zenon, EmptySequence, Elements
<1>2. /\ dropped' \in Seq(Tasks) /\ Len(dropped') = Len(dropped) + Len(m_tasks)
      /\ Range(dropped') = Range(dropped) \cup Queued
  BY Zenon, Concat DEF TypeOK, Queued
<1>3. Done' = Done \cup Queued /\ Queued' = {} /\ Busy' = Busy /\ InHand' = InHand
  BY Zenon, <1>1, <1>2 DEF Done, Queued, Busy, InHand
<1>4. /\ Len(m_tasks) \in Nat /\ Len(ran) \in Nat /\ Len(dropped) \in Nat
      /\ Cardinality(Busy) \in Nat
  BY ListsAreShort, BusyClients
<1>5. Counted'
  <2>1. Len(m_tasks') + Len(ran') + Len(dropped') + Cardinality(Busy') = made'
    BY <1>1, <1>2, <1>3, <1>4 DEF Counted
  <2> QED
    BY Zenon, <1>3, <2>1 DEF Counted
<1>6. Apart'
  <2>1. Distinct(m_tasks')
    BY <1>1 DEF Distinct
  <2> QED
    BY Zenon, <1>3, <2>1 DEF Apart
<1> QED
  BY Zenon, <1>1, <1>2, <1>5, <1>6

\* clear destroys what is in the queue.
LEMMA ClearKeeps ==
    ASSUME IInv, NEW c \in Clients, clear(c)
    PROVE  IInv'
<1> USE DEF IInv
<1>1. /\ ~m_abort /\ m_tasks # <<>> /\ dropped' = dropped \o m_tasks /\ m_tasks' = <<>>
      /\ UNCHANGED <<m_abort, m_atomic_abort, pc, call, running, owes, answer, calls, made, ran, shut>>
      /\ UNCHANGED <<took, found, late>>
  BY Zenon DEF clear, aborts, history
<1>2. /\ m_tasks' \in Seq(Tasks) /\ Len(m_tasks') = 0 /\ dropped' \in Seq(Tasks)
      /\ Counted' /\ Apart'
  BY Zenon, <1>1, QueueIsDestroyed
<1>3. TypeOK'
  BY Zenon, <1>1, <1>2 DEF TypeOK
<1>4. ClientPlaces' /\ Flags' /\ Taken' /\ Ordered' /\ AnswersAreRight'
  <2>1. Taken' /\ AnswersAreRight' /\ Ordered'
    BY Zenon, <1>1, HistoryStays, OrderStays
  <2> QED
    BY Zenon, <1>1, <2>1 DEF ClientPlaces, Flags
<1>5. NoLostNotify'
  <2> SUFFICES ASSUME NEW d \in Clients, pc[d] = "sleep", Satisfied(d)'
               PROVE  owes # {} \/ shut = "notify"
    BY Zenon, <1>1 DEF NoLostNotify
  <2>1. call[d].op \in Waits /\ 0 >= call[d].count
    BY Zenon, <1>1, <1>2 DEF Satisfied
  <2>2. Len(m_tasks) >= call[d].count
    BY <2>1, CallIs, ListsAreShort, BoundsAreNat
  <2> QED
    BY Zenon, <2>1, <2>2 DEF NoLostNotify, Satisfied
<1> QED
  BY Zenon, <1>2, <1>3, <1>4, <1>5

\* The steps of shutdown: it takes the queue under the lock, and notifies.
LEMMA ShutdownKeeps ==
    ASSUME IInv, shutdown \/ shutdown_lock \/ shutdown_notify
    PROVE  IInv'
<1> USE DEF IInv
<1>1. CASE shutdown
  <2>1. Counted' /\ Apart'
    BY Zenon, <1>1, NoTaskMoves DEF shutdown
  <2>2. TypeOK'
    BY Zenon, <1>1 DEF shutdown, TypeOK, tasks, history
  <2>3. ClientPlaces'
    BY Zenon, <1>1 DEF shutdown, ClientPlaces, tasks
  <2>4. Flags'
    BY Zenon, <1>1 DEF shutdown, Flags
  <2>5. NoLostNotify'
    BY Zenon, <1>1 DEF shutdown, NoLostNotify, Satisfied
  <2>6. Taken' /\ AnswersAreRight' /\ Ordered'
    <3>1. /\ UNCHANGED <<call, running, answer, took, found, late, ran, pc, m_tasks>>
          /\ shut # "done" /\ shut' # "no"
      BY Zenon, <1>1 DEF shutdown, history, tasks
    <3> QED
      BY Zenon, <3>1, HistoryStays, OrderStays
  <2> QED
    BY Zenon, <2>1, <2>2, <2>3, <2>4, <2>5, <2>6
<1>2. CASE shutdown_lock
  <2>1. /\ shut = "lock" /\ shut' = "notify" /\ m_abort' = TRUE
        /\ dropped' = dropped \o m_tasks /\ m_tasks' = <<>>
        /\ UNCHANGED <<m_atomic_abort, pc, call, running, owes, answer, calls, made, ran>>
        /\ UNCHANGED <<took, found, late>> /\ shut # "done" /\ shut' # "no"
    BY Zenon, <1>2 DEF shutdown_lock, history
  <2>2. m_tasks' \in Seq(Tasks) /\ dropped' \in Seq(Tasks) /\ Counted' /\ Apart'
    BY Zenon, <2>1, QueueIsDestroyed
  <2>3. TypeOK'
    BY Zenon, <2>1, <2>2 DEF TypeOK
  <2>4. ClientPlaces'
    BY Zenon, <2>1 DEF ClientPlaces
  <2>5. Flags'
    BY Zenon, <2>1 DEF Flags
  <2>6. NoLostNotify'
    BY Zenon, <2>1 DEF NoLostNotify
  <2>7. Taken' /\ AnswersAreRight' /\ Ordered'
    BY Zenon, <2>1, HistoryStays, OrderStays
  <2> QED
    BY Zenon, <2>2, <2>3, <2>4, <2>5, <2>6, <2>7
<1>3. CASE shutdown_notify
  <2>1. /\ shut = "notify" /\ shut' = "done" /\ pc' = Notified
        /\ UNCHANGED <<m_tasks, m_abort, m_atomic_abort, call, running, owes, answer, calls, made, ran, dropped>>
        /\ UNCHANGED <<took, found, late>> /\ shut # "done" /\ shut' # "no"
    BY Zenon, <1>3 DEF shutdown_notify, aborts, tasks, history
  <2>2. Counted' /\ Apart'
    BY Zenon, <2>1, NoTaskMoves DEF tasks
  <2>3. /\ pc' \in [Clients -> {"idle", "loop", "lock", "sleep", "task", "end_loop"}]
        /\ \A c \in Clients : pc'[c] = IF pc[c] = "sleep" THEN "lock" ELSE pc[c]
    BY Zenon, <2>1 DEF Notified, TypeOK
  <2>4. TypeOK'
    BY Zenon, <2>1, <2>3 DEF TypeOK
  <2>5. ClientPlaces'
    BY Zenon, <2>1, <2>3 DEF ClientPlaces
  <2>6. Flags'
    BY Zenon, <2>1 DEF Flags
  <2>7. NoLostNotify'
    BY Zenon, <2>3 DEF NoLostNotify
  <2>8. Taken' /\ AnswersAreRight' /\ Ordered'
    BY Zenon, <2>1, <2>3, HistoryStays, OrderStays
  <2> QED
    BY Zenon, <2>2, <2>4, <2>5, <2>6, <2>7, <2>8
<1> QED
  BY Zenon, <1>1, <1>2, <1>3

\* A notification only wakes threads that wait.
LEMMA NotifyKeeps ==
    ASSUME IInv, NEW c \in Clients, enqueue_notify(c)
    PROVE  IInv'
<1> USE DEF IInv
<1>1. /\ pc' = Notified /\ owes' \subseteq owes
      /\ UNCHANGED <<m_tasks, m_abort, m_atomic_abort, call, running, answer, calls, made, ran, dropped, shut>>
      /\ UNCHANGED <<took, found, late>>
  BY Zenon DEF enqueue_notify, aborts, tasks, history
<1>2. Counted' /\ Apart'
  BY Zenon, <1>1, NoTaskMoves DEF tasks
<1>3. /\ pc' \in [Clients -> {"idle", "loop", "lock", "sleep", "task", "end_loop"}]
      /\ \A d \in Clients : pc'[d] = IF pc[d] = "sleep" THEN "lock" ELSE pc[d]
  BY Zenon, <1>1 DEF Notified, TypeOK
<1>4. TypeOK'
  BY Zenon, <1>1, <1>3 DEF TypeOK
<1>5. ClientPlaces'
  BY Zenon, <1>1, <1>3 DEF ClientPlaces
<1>6. Flags'
  BY Zenon, <1>1 DEF Flags
<1>7. NoLostNotify'
  BY Zenon, <1>3 DEF NoLostNotify
<1>8. Taken' /\ AnswersAreRight' /\ Ordered'
  BY Zenon, <1>1, <1>3, HistoryStays, OrderStays
<1> QED
  BY Zenon, <1>2, <1>4, <1>5, <1>6, <1>7, <1>8

\* A call of loop, or of a wait, begins with nothing in hand.
LEMMA BeginKeeps ==
    ASSUME IInv, NEW c \in Clients, NEW op \in Loops \cup Waits, NEW n \in 1 .. MaxCount,
           loop(c, op, n) \/ wait_for_tasks(c, op, n)
    PROVE  IInv'
<1> USE DEF IInv
<1> DEFINE new == [op |-> op, count |-> n, executed |-> 0]
           place == IF op \in Loops THEN "loop" ELSE "lock"
<1>1. /\ pc[c] = "idle" /\ pc' = [pc EXCEPT ![c] = place]
      /\ calls[c] < MaxCalls /\ calls' = [calls EXCEPT ![c] = @ + 1]
      /\ call' = [call EXCEPT ![c] = new]
      /\ took' = [took EXCEPT ![c] = <<>>] /\ late' = [late EXCEPT ![c] = (shut = "done")]
      /\ UNCHANGED <<m_tasks, m_abort, m_atomic_abort, running, owes, answer, found, made, ran, dropped, shut>>
  BY Zenon DEF loop, wait_for_tasks, Begin, Goes, aborts, tasks
<1>2. Counted' /\ Apart'
  BY Zenon, <1>1, NoTaskMoves DEF tasks
<1>3. /\ new \in CallRecords /\ new.op = op /\ new.count = n /\ new.executed = 0
      /\ place \in {"loop", "lock"} /\ n \in Nat /\ 0 < n /\ (place = "loop" <=> op \in Loops)
  BY BoundsAreNat DEF CallRecords
<1> HIDE DEF new, place
<1>4. /\ pc'[c] = place /\ call'[c] = new /\ calls'[c] \in 0 .. MaxCalls
      /\ \A d \in Clients \ {c} : pc'[d] = pc[d] /\ call'[d] = call[d] /\ calls'[d] = calls[d]
  <2>1. calls[c] + 1 \in 0 .. MaxCalls
    BY <1>1, BoundsAreNat DEF TypeOK
  <2> QED
    BY Zenon, <1>1, <2>1 DEF TypeOK
<1>5. TypeOK'
  <2>1. /\ pc' \in [Clients -> {"idle", "loop", "lock", "sleep", "task", "end_loop"}]
        /\ call' \in [Clients -> CallRecords]
    BY Zenon, <1>1, <1>3 DEF TypeOK
  <2>2. calls' \in [Clients -> 0 .. MaxCalls]
    BY Zenon, <1>1, <1>4 DEF TypeOK
  <2>3. took' \in [Clients -> Seq(Tasks)] /\ late' \in [Clients -> BOOLEAN]
    <3>1. <<>> \in Seq(Tasks) /\ (shut = "done") \in BOOLEAN
      BY Zenon, EmptySequence
    <3> QED
      BY Zenon, <1>1, <3>1 DEF TypeOK
  <2> QED
    BY Zenon, <1>1, <2>1, <2>2, <2>3 DEF TypeOK
<1>6. ClientPlaces'
  <2> SUFFICES ASSUME NEW d \in Clients
               PROVE  /\ running'[d] # Null <=> pc'[d] = "task"
                      /\ pc'[d] \in {"loop", "task", "end_loop"} => call'[d].op \in Loops
                      /\ call'[d].executed <= call'[d].count /\ call'[d].executed <= Len(ran')
                      /\ pc'[d] \in {"lock", "sleep", "task"} /\ call'[d].op \in Loops =>
                           call'[d].executed < call'[d].count
    BY Zenon DEF ClientPlaces
  <2>1. CASE d = c
    <3>1. running'[c] = Null
      BY Zenon, <1>1 DEF ClientPlaces
    <3>2. 0 <= Len(ran')
      BY <1>1, ListsAreShort
    <3> QED
      BY <1>3, <1>4, <2>1, <3>1, <3>2
  <2>2. CASE d # c
    BY Zenon, <1>1, <1>4, <2>2 DEF ClientPlaces
  <2> QED
    BY Zenon, <2>1, <2>2
<1>7. Flags'
  BY Zenon, <1>1 DEF Flags
<1>8. NoLostNotify'
  BY Zenon, <1>1, <1>3, <1>4 DEF NoLostNotify, Satisfied
<1>9. /\ took'[c] = <<>> /\ late'[c] = (shut = "done")
      /\ \A d \in Clients \ {c} : took'[d] = took[d] /\ late'[d] = late[d]
  BY Zenon, <1>1 DEF TypeOK
<1>10. Len(<<>>) = 0 /\ Range(<<>>) = {} /\ <<>> \in Seq(Tasks)
  BY Zenon, EmptySequence, Elements
<1>11. AnswersAreRight'
  <2>1. pc'[c] # "idle"
    BY Zenon, <1>3, <1>4
  <2> QED
    BY Zenon, <1>1, <1>4, <1>9, <2>1, AnswersStay
<1>12. Taken'
  <2>1. /\ pc'[c] # "task" /\ pc'[c] # "end_loop"
        /\ Len(took'[c]) = call'[c].executed + 0 /\ Range(took'[c]) = {}
    BY <1>3, <1>4, <1>9, <1>10
  <2>0. UNCHANGED <<running, found, ran, shut>>
    BY Zenon, <1>1
  <2> SUFFICES ASSUME NEW d \in Clients
               PROVE  /\ Range(took'[d]) \subseteq Range(ran') \cup {running'[d]}
                      /\ pc'[d] # "idle" =>
                            Len(took'[d]) = call'[d].executed + IF pc'[d] = "task" THEN 1 ELSE 0
                      /\ pc'[d] = "end_loop" /\ call'[d].op = "loop"
                            /\ call'[d].executed < call'[d].count => found'[d] = 0
                      /\ late'[d] => shut' = "done"
    BY Zenon DEF Taken
  <2>2. CASE d = c
    BY Zenon, <1>9, <2>0, <2>1, <2>2
  <2>3. CASE d # c
    <3>1. pc'[d] = pc[d] /\ call'[d] = call[d] /\ took'[d] = took[d] /\ late'[d] = late[d]
      BY Zenon, <1>4, <1>9, <2>3
    <3> QED
      BY Zenon, <2>0, <3>1 DEF Taken
  <2> QED
    BY Zenon, <2>2, <2>3
<1>13. Ordered'
  <2>1. Ascending(<<>>)
    BY <1>10 DEF Ascending
  <2> QED
    BY Zenon, <1>1, <1>9, <1>10, <2>1 DEF Ordered, Queued
<1> QED
  BY Zenon, <1>2, <1>5, <1>6, <1>7, <1>8, <1>11, <1>12, <1>13

\* What a client finds is a number of tasks.
LEMMA LookFinds ==
    ASSUME IInv, NEW c \in Clients, UNCHANGED found \/ Looks(c)
    PROVE  /\ found' \in [Clients -> 0 .. MaxTasks] /\ \A d \in Clients \ {c} : found'[d] = found[d]
           /\ Looks(c) => found'[c] = Len(m_tasks)
<1>1. Len(m_tasks) \in 0 .. MaxTasks /\ found \in [Clients -> 0 .. MaxTasks]
  BY Zenon, ListsAreShort DEF IInv, TypeOK
<1> QED
  BY Zenon, <1>1 DEF Looks

\* A client goes to another place, after a look at the queue or without.
LEMMA MoveKeeps ==
    ASSUME IInv, NEW c \in Clients, NEW from, NEW to, Goes(c, from, to),
           to \in {"lock", "sleep", "end_loop"}, from \in {"loop", "lock", "sleep"},
           to = "end_loop" => call[c].op \in Loops,
           to = "lock" /\ call[c].op \in Loops => call[c].executed < call[c].count,
           to = "sleep" => from = "lock" /\ ~Satisfied(c),
           to = "end_loop" /\ call[c].op = "loop" /\ call[c].executed < call[c].count => found'[c] = 0,
           UNCHANGED found \/ Looks(c),
           UNCHANGED <<m_tasks, aborts, call, running, owes, answer, took, late, calls, tasks, shut>>
    PROVE  IInv'
<1> USE DEF IInv
<1>1. /\ UNCHANGED <<m_tasks, m_abort, m_atomic_abort, call, running, owes, answer, calls, made, ran, dropped, shut>>
      /\ UNCHANGED <<took, late>>
      /\ pc[c] = from /\ pc'[c] = to
      /\ \A d \in Clients \ {c} : pc'[d] = pc[d]
      /\ pc' \in [Clients -> {"idle", "loop", "lock", "sleep", "task", "end_loop"}]
  BY Zenon DEF aborts, tasks, Goes, TypeOK
<1>2. Counted' /\ Apart'
  BY Zenon, NoTaskMoves
<1>7. found' \in [Clients -> 0 .. MaxTasks] /\ \A d \in Clients \ {c} : found'[d] = found[d]
  BY Zenon, LookFinds
<1>3. TypeOK'
  BY Zenon, <1>1, <1>7 DEF TypeOK
<1>4. ClientPlaces'
  <2> SUFFICES ASSUME NEW d \in Clients
               PROVE  /\ running[d] # Null <=> pc'[d] = "task"
                      /\ pc'[d] \in {"loop", "task", "end_loop"} => call[d].op \in Loops
                      /\ call[d].executed <= call[d].count /\ call[d].executed <= Len(ran)
                      /\ pc'[d] \in {"lock", "sleep", "task"} /\ call[d].op \in Loops =>
                           call[d].executed < call[d].count
    BY Zenon, <1>1 DEF ClientPlaces
  <2> QED
    BY Zenon, <1>1 DEF ClientPlaces
<1>5. Flags'
  BY Zenon, <1>1 DEF Flags
<1>6. NoLostNotify'
  BY Zenon, <1>1 DEF NoLostNotify, Satisfied
<1>8. AnswersAreRight' /\ Ordered'
  <2>1. pc'[c] # "idle"
    BY Zenon, <1>1
  <2> QED
    BY Zenon, <1>1, <1>7, <2>1, AnswersStay, OrderStays
<1>9. Taken'
  <2> SUFFICES ASSUME NEW d \in Clients
               PROVE  /\ Range(took[d]) \subseteq Range(ran) \cup {running[d]}
                      /\ pc'[d] # "idle" =>
                            Len(took[d]) = call[d].executed + IF pc'[d] = "task" THEN 1 ELSE 0
                      /\ pc'[d] = "end_loop" /\ call[d].op = "loop"
                            /\ call[d].executed < call[d].count => found'[d] = 0
                      /\ late[d] => shut = "done"
    BY Zenon, <1>1 DEF Taken
  <2>1. CASE d = c
    <3>1. from # "idle" /\ from # "task" /\ to # "task"
      BY Zenon
    <3> QED
      BY Zenon, <1>1, <2>1, <3>1 DEF Taken
  <2>2. CASE d # c
    BY Zenon, <1>1, <1>7, <2>2 DEF Taken
  <2> QED
    BY Zenon, <2>1, <2>2
<1> QED
  BY Zenon, <1>2, <1>3, <1>4, <1>5, <1>6, <1>8, <1>9

\* The head of the loop, and a thread that wakes up, go back to the lock.
LEMMA HeadAndWakeKeep ==
    ASSUME IInv, NEW c \in Clients, loop_head(c) \/ wake(c)
    PROVE  IInv'
<1>1. CASE loop_head(c)
  <2>1. /\ call[c].op \in Loops
        /\ UNCHANGED <<m_tasks, aborts, call, running, owes, answer, took, found, late, calls, tasks, shut>>
    BY Zenon, <1>1 DEF IInv, ClientPlaces, loop_head, Goes, history
  <2>2. CASE call[c].executed < call[c].count /\ Goes(c, "loop", "lock")
    BY Zenon, <2>1, <2>2, MoveKeeps
  <2>3. CASE /\ Goes(c, "loop", "end_loop")
             /\ call[c].executed = call[c].count \/ call[c].op = "loop_for"
    <3>1. ~(call[c].op = "loop" /\ call[c].executed < call[c].count)
      BY <2>3, CallIs DEF IInv
    <3> QED
      BY Zenon, <2>1, <2>3, <3>1, MoveKeeps
  <2> QED
    BY Zenon, <1>1, <2>2, <2>3 DEF loop_head
<1>2. CASE wake(c)
  <2>1. /\ Goes(c, "sleep", "lock")
        /\ UNCHANGED <<m_tasks, aborts, call, running, owes, answer, took, found, late, calls, tasks, shut>>
    BY Zenon, <1>2 DEF wake, history
  <2>2. call[c].op \in Loops => call[c].executed < call[c].count
    BY Zenon, <2>1 DEF IInv, ClientPlaces, Goes
  <2> QED
    BY Zenon, <2>1, <2>2, MoveKeeps
<1> QED
  BY Zenon, <1>1, <1>2

\* Under the lock loop_impl takes the first task, or waits, or gives up.
LEMMA LoopLockKeeps ==
    ASSUME IInv, NEW c \in Clients, loop_lock(c)
    PROVE  IInv'
<1>0. /\ call[c].op \in Loops /\ Looks(c)
      /\ UNCHANGED <<aborts, call, owes, answer, late, calls, tasks, shut>>
  BY Zenon DEF loop_lock
<1>1. CASE /\ m_abort \/ m_tasks = <<>>
           /\ Goes(c, "lock", "end_loop") /\ UNCHANGED <<m_tasks, running, took>>
  <2>1. m_tasks = <<>> /\ Len(<<>>) = 0
    BY Zenon, <1>1, EmptySequence DEF IInv, Flags
  <2>2. found'[c] = 0
    BY Zenon, <1>0, <2>1, LookFinds
  <2> QED
    BY Zenon, <1>0, <1>1, <2>2, MoveKeeps
<1>2. CASE /\ Goes(c, "lock", "sleep") /\ ~m_abort /\ m_tasks = <<>>
           /\ UNCHANGED <<m_tasks, running, took>>
  <2>1. ~Satisfied(c)
    BY Zenon, <1>0, <1>2 DEF Satisfied, Loops, Waits
  <2> QED
    BY Zenon, <1>0, <1>2, <2>1, MoveKeeps
<1>3. CASE /\ ~m_abort /\ m_tasks # <<>> /\ Goes(c, "lock", "task")
           /\ running' = [running EXCEPT ![c] = Head(m_tasks)] /\ m_tasks' = Tail(m_tasks)
           /\ took' = [took EXCEPT ![c] = Append(@, Head(m_tasks))]
  <2> USE DEF IInv
  <2> DEFINE t == Head(m_tasks)
  <2>1. /\ UNCHANGED <<m_abort, m_atomic_abort, call, owes, answer, late, calls, made, ran, dropped, shut>>
        /\ pc[c] = "lock" /\ pc'[c] = "task"
        /\ \A d \in Clients \ {c} : pc'[d] = pc[d]
        /\ pc' \in [Clients -> {"idle", "loop", "lock", "sleep", "task", "end_loop"}]
    BY Zenon, <1>0, <1>3 DEF aborts, tasks, Goes, TypeOK
  <2>2. /\ t \in Tasks /\ m_tasks' \in Seq(Tasks) /\ Len(m_tasks') = Len(m_tasks) - 1
        /\ Queued = {t} \cup Queued' /\ Distinct(m_tasks') /\ t \notin Queued'
    BY Zenon, <1>3, HeadAndTail DEF TypeOK, Apart, Queued
  <2>3. running[c] = Null
    BY Zenon, <2>1 DEF ClientPlaces
  <2>4. /\ running' \in [Clients -> Tasks \cup {Null}]
        /\ Busy' = Busy \cup {c} /\ InHand' = InHand \cup {t}
        /\ Cardinality(Busy') = Cardinality(Busy) + 1
    BY Zenon, <1>3, <2>2, <2>3, TakesInHand
  <2>5. running'[c] = t /\ t # Null /\ \A d \in Clients \ {c} : running'[d] = running[d]
    BY <1>3, <2>2, BoundsAreNat DEF TypeOK, Tasks, Null
  <2>12. /\ took[c] \in Seq(Tasks) /\ took'[c] = Append(took[c], t)
         /\ \A d \in Clients \ {c} : took'[d] = took[d]
    BY Zenon, <1>3 DEF TypeOK
  <2> HIDE DEF t
  <2>13. /\ took'[c] \in Seq(Tasks) /\ Len(took'[c]) = Len(took[c]) + 1
         /\ Range(took'[c]) = Range(took[c]) \cup {t}
    BY Zenon, <2>2, <2>12, Appended
  <2>14. /\ found' \in [Clients -> 0 .. MaxTasks]
         /\ \A d \in Clients \ {c} : found'[d] = found[d]
    BY Zenon, <1>0, LookFinds
  <2>6. TypeOK'
    <3>1. took' \in [Clients -> Seq(Tasks)]
      BY Zenon, <1>3, <2>12, <2>13 DEF TypeOK
    <3> QED
      BY Zenon, <2>1, <2>2, <2>4, <2>14, <3>1 DEF TypeOK
  <2>7. Counted'
    <3>1. Len(m_tasks') + Len(ran') + Len(dropped') + Cardinality(Busy') = made'
      BY <2>1, <2>2, <2>4, ListsAreShort, BusyClients DEF Counted
    <3>2. Done' = Done
      BY Zenon, <2>1 DEF Done
    <3> QED
      BY Zenon, <2>1, <2>2, <2>4, <3>1, <3>2 DEF Counted
  <2>8. Apart'
    <3>1. Done' = Done
      BY Zenon, <2>1 DEF Done
    <3>2. \A d \in Busy : running[d] # t /\ d \in Clients
      BY Zenon, <2>2, BusyClients DEF Apart, Busy
    <3>3. ASSUME NEW a \in Busy', NEW b \in Busy', running'[a] = running'[b] PROVE a = b
      BY Zenon, <2>3, <2>4, <2>5, <3>2, <3>3 DEF Apart, Busy
    <3> QED
      BY <2>2, <2>4, <3>1, <3>3 DEF Apart
  <2>9. ClientPlaces'
    <3> SUFFICES ASSUME NEW d \in Clients
                 PROVE  /\ running'[d] # Null <=> pc'[d] = "task"
                        /\ pc'[d] \in {"loop", "task", "end_loop"} => call[d].op \in Loops
                        /\ call[d].executed <= call[d].count /\ call[d].executed <= Len(ran)
                        /\ pc'[d] \in {"lock", "sleep", "task"} /\ call[d].op \in Loops =>
                             call[d].executed < call[d].count
      BY Zenon, <2>1 DEF ClientPlaces
    <3> QED
      BY Zenon, <1>0, <2>1, <2>5 DEF ClientPlaces
  <2>10. Flags' /\ AnswersAreRight'
    <3>1. pc'[c] # "idle"
      BY Zenon, <2>1
    <3>2. AnswersAreRight'
      BY Zenon, <2>1, <2>12, <2>14, <3>1, AnswersStay
    <3> QED
      BY Zenon, <1>3, <2>1, <3>2 DEF Flags
  <2>15. Taken'
    <3> SUFFICES ASSUME NEW d \in Clients
                 PROVE  /\ Range(took'[d]) \subseteq Range(ran) \cup {running'[d]}
                        /\ pc'[d] # "idle" =>
                              Len(took'[d]) = call[d].executed + IF pc'[d] = "task" THEN 1 ELSE 0
                        /\ pc'[d] = "end_loop" /\ call[d].op = "loop"
                              /\ call[d].executed < call[d].count => found'[d] = 0
                        /\ late[d] => shut = "done"
      BY Zenon, <2>1 DEF Taken
    <3>1. CASE d = c
      <4>1. Range(took[c]) \subseteq Range(ran)
        BY Zenon, <2>3, TookIsMade DEF Taken
      <4>2. Len(took[c]) = call[c].executed + 0 /\ call[c].executed + 0 = call[c].executed
        <5>1. pc[c] # "idle" /\ pc[c] # "task"
          BY Zenon, <2>1
        <5>2. Len(took[c]) = call[c].executed + 0
          BY Zenon, <5>1 DEF Taken
        <5> QED
          BY <5>2, CallIs
      <4>3. Len(took'[c]) = call[c].executed + 1
        BY Zenon, <2>13, <4>2
      <4> QED
        BY Zenon, <2>1, <2>5, <2>13, <3>1, <4>1, <4>3 DEF Taken
    <3>2. CASE d # c
      BY Zenon, <2>1, <2>5, <2>12, <2>14, <3>2 DEF Taken
    <3> QED
      BY Zenon, <3>1, <3>2
  <2>16. Ordered'
    <3>1. Ascending(m_tasks') /\ \A u \in Queued' : t < u
      BY Zenon, <1>3, AscendingTail DEF TypeOK, Ordered, Queued, t
    <3>2. Ascending(took'[c])
      BY Zenon, <2>2, <2>12, AscendingAppend DEF Ordered
    <3>3. \A d \in Clients : /\ Ascending(took'[d])
                             /\ \A v \in Range(took'[d]), u \in Queued' : v < u
      BY Zenon, <2>2, <2>12, <2>13, <3>1, <3>2 DEF Ordered
    <3> QED
      BY Zenon, <3>1, <3>3 DEF Ordered
  <2>11. NoLostNotify'
    <3> SUFFICES ASSUME NEW d \in Clients, pc'[d] = "sleep", Satisfied(d)'
                 PROVE  owes # {} \/ shut = "notify"
      BY Zenon, <2>1 DEF NoLostNotify
    <3>1. pc[d] = "sleep"
      BY Zenon, <2>1
    <3>2. Satisfied(d)
      <4>1. CASE call[d].op \in Waits
        <5>1. Len(m_tasks') >= call[d].count
          BY Zenon, <1>3, <2>1, <4>1 DEF Satisfied
        <5>2. Len(m_tasks) >= call[d].count
          BY <2>2, <5>1, CallIs, ListsAreShort
        <5> QED
          BY Zenon, <4>1, <5>2 DEF Satisfied
      <4>2. CASE call[d].op \notin Waits
        BY Zenon, <1>3, <4>2 DEF Satisfied
      <4> QED
        BY Zenon, <4>1, <4>2
    <3> QED
      BY Zenon, <3>1, <3>2 DEF NoLostNotify
  <2> QED
    BY Zenon, <2>6, <2>7, <2>8, <2>9, <2>10, <2>11, <2>15, <2>16
<1> QED
  BY Zenon, <1>1, <1>2, <1>3 DEF loop_lock

\* The task that a thread has in hand is run.
LEMMA FinishKeeps ==
    ASSUME IInv, NEW c \in Clients, finish_task(c)
    PROVE  IInv'
<1> USE DEF IInv
<1> DEFINE t == running[c]
           new == [call[c] EXCEPT !.executed = @ + 1]
<1>1. /\ UNCHANGED <<m_tasks, m_abort, m_atomic_abort, owes, answer, calls, made, dropped, shut>>
      /\ UNCHANGED <<took, found, late>>
      /\ pc[c] = "task" /\ pc'[c] = "loop"
      /\ \A d \in Clients \ {c} : pc'[d] = pc[d]
      /\ pc' \in [Clients -> {"idle", "loop", "lock", "sleep", "task", "end_loop"}]
  BY Zenon DEF finish_task, aborts, history, Goes, TypeOK
<1>2. c \in Busy /\ t \in Tasks /\ t \in InHand
  BY Zenon, <1>1, BusyClients DEF ClientPlaces
<1>3. /\ running' \in [Clients -> Tasks \cup {Null}]
      /\ Busy' = Busy \ {c} /\ InHand' = InHand \ {t}
      /\ Cardinality(Busy') = Cardinality(Busy) - 1
  BY Zenon, <1>2, LetsGo DEF finish_task
<1>4. running'[c] = Null /\ \A d \in Clients \ {c} : running'[d] = running[d]
  BY Zenon DEF finish_task, TypeOK
<1>5. ran' \in Seq(Tasks) /\ Len(ran') = Len(ran) + 1 /\ Range(ran') = Range(ran) \cup {t}
  BY Zenon, <1>2, Appended DEF finish_task, TypeOK
<1>6. /\ new \in CallRecords /\ new.op = call[c].op /\ new.count = call[c].count
      /\ new.executed = call[c].executed + 1
  <2>1. call[c].executed < call[c].count
    BY Zenon, <1>1 DEF ClientPlaces
  <2>2. call[c].executed + 1 \in 0 .. MaxCount
    BY <2>1, CallIs, BoundsAreNat
  <2> QED
    BY Zenon, <2>2, CallIs DEF CallRecords
<1>7. /\ call' \in [Clients -> CallRecords] /\ call'[c] = new
      /\ \A d \in Clients \ {c} : call'[d] = call[d]
  <2>1. call' = [call EXCEPT ![c] = new]
    BY Zenon DEF finish_task
  <2> QED
    BY Zenon, <1>6, <2>1 DEF TypeOK
<1> HIDE DEF t, new
<1>8. TypeOK'
  BY Zenon, <1>1, <1>3, <1>5, <1>7 DEF TypeOK
<1>9. Queued' = Queued /\ Done' = Done \cup {t}
  BY Zenon, <1>1, <1>5 DEF Queued, Done
<1>10. Counted'
  <2>1. Len(m_tasks') + Len(ran') + Len(dropped') + Cardinality(Busy') = made'
    BY <1>1, <1>3, <1>5, ListsAreShort, BusyClients DEF Counted
  <2> QED
    BY Zenon, <1>1, <1>2, <1>3, <1>9, <2>1 DEF Counted
<1>11. Apart'
  <2>1. ASSUME NEW a \in Busy', NEW b \in Busy', running'[a] = running'[b] PROVE a = b
    BY Zenon, <1>3, <1>4, <2>1 DEF Apart, Busy
  <2> QED
    BY Zenon, <1>1, <1>2, <1>3, <1>9, <2>1 DEF Apart
<1>12. ClientPlaces'
  <2> SUFFICES ASSUME NEW d \in Clients
               PROVE  /\ running'[d] # Null <=> pc'[d] = "task"
                      /\ pc'[d] \in {"loop", "task", "end_loop"} => call'[d].op \in Loops
                      /\ call'[d].executed <= call'[d].count /\ call'[d].executed <= Len(ran')
                      /\ pc'[d] \in {"lock", "sleep", "task"} /\ call'[d].op \in Loops =>
                           call'[d].executed < call'[d].count
    BY Zenon DEF ClientPlaces
  <2>1. CASE d = c
    <3>1. call[c].executed < call[c].count /\ call[c].executed <= Len(ran) /\ call[c].op \in Loops
      BY Zenon, <1>1 DEF ClientPlaces
    <3>2. call[c].executed + 1 <= call[c].count /\ call[c].executed + 1 <= Len(ran) + 1
      BY <3>1, CallIs, ListsAreShort
    <3> QED
      BY Zenon, <1>1, <1>4, <1>5, <1>6, <1>7, <2>1, <3>1, <3>2
  <2>2. CASE d # c
    <3>1. call[d].executed <= Len(ran) + 1
      BY CallIs, ListsAreShort DEF ClientPlaces
    <3> QED
      BY Zenon, <1>1, <1>4, <1>5, <1>7, <2>2, <3>1 DEF ClientPlaces
  <2> QED
    BY Zenon, <2>1, <2>2
<1>13. Flags' /\ AnswersAreRight' /\ Ordered'
  <2>1. pc'[c] # "idle"
    BY Zenon, <1>1
  <2>2. AnswersAreRight' /\ Ordered'
    BY Zenon, <1>1, <1>5, <2>1, AnswersStay, OrderStays
  <2> QED
    BY Zenon, <1>1, <2>2 DEF Flags
<1>15. Taken'
  <2> SUFFICES ASSUME NEW d \in Clients
               PROVE  /\ Range(took[d]) \subseteq Range(ran') \cup {running'[d]}
                      /\ pc'[d] # "idle" =>
                            Len(took[d]) = call'[d].executed + IF pc'[d] = "task" THEN 1 ELSE 0
                      /\ pc'[d] = "end_loop" /\ call'[d].op = "loop"
                            /\ call'[d].executed < call'[d].count => found[d] = 0
                      /\ late[d] => shut = "done"
    BY Zenon, <1>1 DEF Taken
  <2>1. CASE d = c
    <3>1. Range(took[c]) \subseteq Range(ran) \cup {t}
      BY Zenon DEF Taken, t
    <3>2. Len(took[c]) = call[c].executed + 1 /\ Len(took[c]) + 0 = Len(took[c])
      <4>1. pc[c] # "idle" /\ Len(took[c]) \in Nat
        BY Zenon, <1>1, Elements DEF TypeOK
      <4>2. Len(took[c]) = call[c].executed + 1
        BY Zenon, <1>1, <4>1 DEF Taken
      <4> QED
        BY <4>1, <4>2
    <3>3. pc'[c] # "task" /\ pc'[c] # "end_loop"
      BY Zenon, <1>1
    <3> QED
      BY Zenon, <1>5, <1>6, <1>7, <2>1, <3>1, <3>2, <3>3 DEF Taken
  <2>2. CASE d # c
    BY Zenon, <1>1, <1>4, <1>5, <1>7, <2>2 DEF Taken
  <2> QED
    BY Zenon, <2>1, <2>2
<1>14. NoLostNotify'
  BY Zenon, <1>1, <1>7 DEF NoLostNotify, Satisfied
<1> QED
  BY Zenon, <1>8, <1>10, <1>11, <1>12, <1>13, <1>14, <1>15

\* A call returns what it may.
LEMMA ReturnKeeps ==
    ASSUME IInv, NEW c \in Clients, NEW from \in {"lock", "end_loop"}, NEW r \in Throws .. MaxTasks,
           Returns(c, from, r), RightAnswer(c)', UNCHANGED found \/ Looks(c),
           UNCHANGED <<m_tasks, aborts, running, owes, took, late, calls, tasks, shut>>
    PROVE  IInv'
<1> USE DEF IInv
<1> DEFINE a == [call |-> call[c], result |-> r]
<1>1. /\ UNCHANGED <<m_tasks, m_abort, m_atomic_abort, running, owes, calls, made, ran, dropped, shut>>
      /\ UNCHANGED <<took, late>>
      /\ pc[c] = from /\ pc' = [pc EXCEPT ![c] = "idle"]
      /\ answer' = [answer EXCEPT ![c] = a] /\ call' = [call EXCEPT ![c] = NoCall]
  BY Zenon DEF Returns, Goes, aborts, tasks
<1>2. /\ a \in [call : CallRecords, result : Throws .. MaxTasks]
      /\ NoCall \in CallRecords
  BY Zenon, CallIs
<1> HIDE DEF a
<1>10. found' \in [Clients -> 0 .. MaxTasks] /\ \A d \in Clients \ {c} : found'[d] = found[d]
  BY Zenon, LookFinds
<1>3. TypeOK'
  BY Zenon, <1>1, <1>2, <1>10 DEF TypeOK
<1>4. /\ pc'[c] = "idle" /\ call'[c] = NoCall /\ answer'[c] = a
      /\ \A d \in Clients \ {c} : pc'[d] = pc[d] /\ call'[d] = call[d] /\ answer'[d] = answer[d]
  BY Zenon, <1>1 DEF TypeOK
<1>5. Counted' /\ Apart'
  BY Zenon, NoTaskMoves
<1>6. ClientPlaces'
  <2> SUFFICES ASSUME NEW d \in Clients
               PROVE  /\ running[d] # Null <=> pc'[d] = "task"
                      /\ pc'[d] \in {"loop", "task", "end_loop"} => call'[d].op \in Loops
                      /\ call'[d].executed <= call'[d].count /\ call'[d].executed <= Len(ran)
                      /\ pc'[d] \in {"lock", "sleep", "task"} /\ call'[d].op \in Loops =>
                           call'[d].executed < call'[d].count
    BY Zenon, <1>1 DEF ClientPlaces
  <2>1. CASE d = c
    <3>1. running[c] = Null /\ 0 <= Len(ran)
      BY <1>1, ListsAreShort DEF ClientPlaces
    <3> QED
      BY <1>4, <2>1, <3>1 DEF NoCall
  <2>2. CASE d # c
    BY Zenon, <1>4, <2>2 DEF ClientPlaces
  <2> QED
    BY Zenon, <2>1, <2>2
<1>7. Flags'
  BY Zenon, <1>1 DEF Flags
<1>8. NoLostNotify'
  BY Zenon, <1>1, <1>4 DEF NoLostNotify, Satisfied
<1>9. AnswersAreRight'
  <2> SUFFICES ASSUME NEW d \in Clients \ {c}, pc'[d] = "idle" PROVE RightAnswer(d)'
    BY Zenon DEF AnswersAreRight
  <2>1. RightAnswer(d)
    BY Zenon, <1>4 DEF AnswersAreRight
  <2> QED
    BY Zenon, <1>1, <1>4, <1>10, <2>1, AnswerStays
<1>11. Taken'
  <2> SUFFICES ASSUME NEW d \in Clients
               PROVE  /\ Range(took[d]) \subseteq Range(ran) \cup {running[d]}
                      /\ pc'[d] # "idle" =>
                            Len(took[d]) = call'[d].executed + IF pc'[d] = "task" THEN 1 ELSE 0
                      /\ pc'[d] = "end_loop" /\ call'[d].op = "loop"
                            /\ call'[d].executed < call'[d].count => found'[d] = 0
                      /\ late[d] => shut = "done"
    BY Zenon, <1>1 DEF Taken
  <2> QED
    BY Zenon, <1>4, <1>10 DEF Taken
<1>12. Ordered'
  BY Zenon, <1>1, OrderStays
<1> QED
  BY Zenon, <1>3, <1>5, <1>6, <1>7, <1>8, <1>9, <1>11, <1>12

\* The answer of a call that returns.
LEMMA AnswerIs ==
    ASSUME IInv, NEW c \in Clients, NEW from, NEW r, Returns(c, from, r)
    PROVE  answer'[c].call = call[c] /\ answer'[c].result = r
<1> DEFINE a == [call |-> call[c], result |-> r]
<1>1. answer'[c] = a
  BY Zenon DEF Returns, IInv, TypeOK
<1>2. a.call = call[c] /\ a.result = r
  OBVIOUS
<1> QED
  BY Zenon, <1>1, <1>2

\* A loop that ends answers with the number of tasks it took and ran, or throws.
LEMMA EndLoopKeeps ==
    ASSUME IInv, NEW c \in Clients, end_loop(c)
    PROVE  IInv'
<1> DEFINE r == IF m_atomic_abort THEN Throws ELSE call[c].executed
<1>1. /\ Returns(c, "end_loop", r)
      /\ UNCHANGED <<m_tasks, aborts, running, owes, took, found, late, calls, tasks, shut>>
      /\ pc[c] = "end_loop" /\ call[c].op \in Loops /\ running[c] = Null
      /\ call[c].executed <= call[c].count
  BY Zenon DEF end_loop, history, IInv, ClientPlaces, Returns, Goes
<1>2. r \in Throws .. MaxTasks /\ (r = Throws => shut # "no") /\ (r # Throws => r = call[c].executed /\ shut = "no")
  <2>1. call[c].executed \in 0 .. MaxTasks
    BY CallIs, ListsAreShort, BoundsAreNat DEF IInv, ClientPlaces
  <2> QED
    BY <2>1, BoundsAreNat DEF IInv, Flags, Throws
<1>3. call[c].op \notin {"wait", "wait_for", "wait_for_task_for"}
  BY Zenon, <1>1 DEF Loops
<1> HIDE DEF r
<1>4. answer'[c].call = call[c] /\ answer'[c].result = r /\ UNCHANGED <<ran, shut>>
  BY Zenon, <1>1, AnswerIs DEF tasks
<1>5. call[c].executed = Len(took[c]) /\ Range(took[c]) \subseteq Range(ran)
  <2>1. Len(took[c]) = call[c].executed + 0
    BY Zenon, <1>1 DEF IInv, Taken
  <2>2. Range(took[c]) \subseteq Range(ran)
    BY Zenon, <1>1, TookIsMade DEF IInv, Taken
  <2> QED
    BY <2>1, <2>2, CallIs DEF IInv
<1>6. ~(shut = "no" /\ late[c])
  BY Zenon DEF IInv, Taken
<1>7. call[c].op = "loop" /\ call[c].executed < call[c].count => found[c] = 0
  BY Zenon, <1>1 DEF IInv, Taken
<1>8. RightAnswer(c)'
  BY Zenon, <1>1, <1>2, <1>3, <1>4, <1>5, <1>6, <1>7 DEF RightAnswer
<1> QED
  BY Zenon, <1>1, <1>2, <1>8, ReturnKeeps

\* A wait ends when there are enough tasks, at its deadline, or on abort.
LEMMA WaitLockKeeps ==
    ASSUME IInv, NEW c \in Clients, wait_lock(c)
    PROVE  IInv'
<1>1. /\ call[c].op \in Waits /\ Looks(c)
      /\ UNCHANGED <<m_tasks, aborts, running, owes, took, late, calls, tasks, shut>>
  BY Zenon DEF wait_lock
<1>2. CASE ~Satisfied(c) /\ Goes(c, "lock", "sleep") /\ UNCHANGED <<answer, call>>
  <2>1. call[c].op \notin Loops
    BY Zenon, <1>1 DEF Waits, Loops
  <2> QED
    BY Zenon, <1>1, <1>2, <2>1, MoveKeeps
<1>3. CASE (Satisfied(c) \/ call[c].op \in Timed) /\ Returns(c, "lock", WaitResult(c))
  <2>1. Len(m_tasks) \in 0 .. MaxTasks /\ found'[c] = Len(m_tasks)
    BY Zenon, <1>1, ListsAreShort, LookFinds
  <2>2. WaitResult(c) \in Throws .. MaxTasks
    <3>1. /\ Throws \in Throws .. MaxTasks
          /\ Len(m_tasks) \in Throws .. MaxTasks /\ 0 \in Throws .. MaxTasks
          /\ (Len(m_tasks) = 1 => 1 \in Throws .. MaxTasks)
      <4>1. Len(m_tasks) \in 0 .. MaxTasks /\ MaxTasks \in Nat
        BY Zenon, <2>1, BoundsAreNat
      <4> QED
        BY ONLY <4>1 DEF Throws
    <3> QED
      BY Zenon, <3>1 DEF WaitResult
  <2>3. WaitResult(c) = Throws => shut # "no"
    BY <2>1 DEF WaitResult, Throws, IInv, Flags
  <2>4. ASSUME WaitResult(c) # Throws
        PROVE  /\ ~late[c]
               /\ call[c].op = "wait" => found'[c] >= call[c].count
               /\ call[c].op = "wait_for" => WaitResult(c) = found'[c]
               /\ call[c].op = "wait_for_task_for" => (WaitResult(c) = 1 <=> found'[c] = 1)
    <3>1. ~m_abort
      BY Zenon, <2>4 DEF WaitResult
    <3>2. ~late[c]
      BY Zenon, <3>1 DEF IInv, Taken, Flags
    <3>3. ASSUME call[c].op = "wait" PROVE found'[c] >= call[c].count
      <4>1. Satisfied(c)
        BY Zenon, <1>3, <3>3 DEF Timed
      <4> QED
        BY Zenon, <2>1, <3>1, <3>3, <4>1 DEF Satisfied, Waits
    <3>4. ASSUME call[c].op = "wait_for" PROVE WaitResult(c) = found'[c]
      BY Zenon, <2>1, <3>1, <3>4 DEF WaitResult
    <3>5. ASSUME call[c].op = "wait_for_task_for" PROVE WaitResult(c) = 1 <=> found'[c] = 1
      BY <2>1, <3>1, <3>5 DEF WaitResult
    <3> QED
      BY Zenon, <3>2, <3>3, <3>4, <3>5
  <2>5. answer'[c].call = call[c] /\ answer'[c].result = WaitResult(c) /\ UNCHANGED <<took, late, shut>>
    BY Zenon, <1>1, <1>3, AnswerIs
  <2>6. call[c].op \notin Loops
    BY Zenon, <1>1 DEF Waits, Loops
  <2>7. RightAnswer(c)'
    BY Zenon, <2>3, <2>4, <2>5, <2>6 DEF RightAnswer
  <2> QED
    BY Zenon, <1>1, <1>3, <2>2, <2>7, ReturnKeeps
<1> QED
  BY Zenon, <1>1, <1>2, <1>3 DEF wait_lock

\* Every step keeps the invariant.
LEMMA NextKeepsIInv == IInv /\ [Next]_vars => IInv'
<1> SUFFICES ASSUME IInv, [Next]_vars PROVE IInv'
  BY Zenon
<1>1. ASSUME NEW c \in Clients, ClientStep(c) \/ wake(c) \/ clear(c) PROVE IInv'
  BY Zenon, <1>1, NotifyKeeps, HeadAndWakeKeep, LoopLockKeeps, FinishKeeps, EndLoopKeeps, WaitLockKeeps,
     ClearKeeps DEF ClientStep
<1>2. CASE UNCHANGED vars
  <2> USE <1>2 DEF vars, aborts, tasks, history, IInv
  <2>1. Counted' /\ Apart'
    BY Zenon, NoTaskMoves
  <2>2. TypeOK' /\ ClientPlaces' /\ Flags'
    BY Zenon DEF TypeOK, ClientPlaces, Flags
  <2>3. NoLostNotify'
    BY Zenon DEF NoLostNotify, Satisfied
  <2>4. Taken' /\ AnswersAreRight' /\ Ordered'
    BY Zenon, HistoryStays, OrderStays
  <2> QED
    BY Zenon, <2>1, <2>2, <2>3, <2>4
<1> QED
  BY Zenon, <1>1, <1>2, EnqueueKeeps, BeginKeeps, ShutdownKeeps DEF Next, ShutdownStep

\* So it holds in every reachable state.
LEMMA IInvHolds == Spec => []IInv
  BY InitIInv, NextKeepsIInv, PTL DEF Spec

-----------------------------------------------------------------------------
(* What the runs check.                                                    *)

\* The count of the lists is the count of the tasks.
LEMMA CountedIsOnce == TypeOK /\ Counted => EachTaskOnce
<1> SUFFICES ASSUME TypeOK, Counted PROVE EachTaskOnce
  BY Zenon
<1>1. /\ m_tasks \o ran \in Seq(Tasks) /\ Len(m_tasks \o ran) = Len(m_tasks) + Len(ran)
      /\ Range(m_tasks \o ran) = Range(m_tasks) \cup Range(ran)
  BY Zenon, Concat DEF TypeOK
<1>2. /\ Len((m_tasks \o ran) \o dropped) = Len(m_tasks) + Len(ran) + Len(dropped)
      /\ Range((m_tasks \o ran) \o dropped) = Range(m_tasks) \cup Range(ran) \cup Range(dropped)
  BY Zenon, <1>1, Concat DEF TypeOK
<1>3. Cardinality({c \in Clients : running[c] # Null}) = Cardinality(Busy)
  BY Zenon DEF Busy
<1> QED
  BY Zenon, <1>2, <1>3 DEF EachTaskOnce, Counted, Queued, Done

\* A loop is never ahead of its count.
LEMMA LoopsTakeInOrder == IInv => TakenInOrder
<1> SUFFICES ASSUME IInv, NEW c \in Clients
             PROVE  /\ \A i, j \in DOMAIN took[c] : i < j => took[c][i] < took[c][j]
                    /\ pc[c] # "idle" => Len(took[c]) <= call[c].count
  BY Zenon DEF TakenInOrder
<1>1. DOMAIN took[c] = 1 .. Len(took[c])
  BY DEF IInv, TypeOK
<1>2. \A i, j \in DOMAIN took[c] : i < j => took[c][i] < took[c][j]
  BY Zenon, <1>1 DEF IInv, Ordered, Ascending
<1>3. ASSUME pc[c] # "idle" PROVE Len(took[c]) <= call[c].count
  <2>1. call[c].executed \in Nat /\ call[c].count \in Nat /\ call[c].executed <= call[c].count
    BY Zenon, CallIs DEF IInv, ClientPlaces
  <2>2. Len(took[c]) = call[c].executed + IF pc[c] = "task" THEN 1 ELSE 0
    BY Zenon, <1>3 DEF IInv, Taken
  <2>3. pc[c] = "task" => call[c].executed < call[c].count
    BY Zenon DEF IInv, ClientPlaces
  <2> QED
    BY <2>1, <2>2, <2>3
<1> QED
  BY Zenon, <1>2, <1>3

\* However many clients, tasks and calls there are: no task of the manual
\* executor is lost or doubled by enqueue, clear, loop and shutdown; whoever sleeps
\* in a loop or a wait although it need not is about to be notified; a loop takes
\* tasks in the order of enqueue, and no more than it was asked for; and loops and
\* waits answer as AnswersAreRight says: a loop the number of the tasks that it
\* took, all of them run; a wait what it found, of which wait_for_task_for only
\* tells whether it was one task.
THEOREM ManualExecutorIsCorrect == Spec => []Inv
<1>1. IInv => Inv
  BY Zenon, CountedIsOnce, LoopsTakeInOrder DEF IInv, Inv
<1> QED
  BY <1>1, IInvHolds, PTL

-----------------------------------------------------------------------------
(* The manual executor is an executor.                                     *)

\* A step of the tasks, as the abstract executor sees it.
LEMMA TasksMoveAsAllowed ==
    ASSUME \A t \in Tasks : TaskState'[t] # TaskState[t]
                               => <<TaskState[t], TaskState'[t]>> \in E!Allowed(Phase)
    PROVE  E!TasksMove
  BY Zenon DEF E!TasksMove, E!States, TaskState

\* The steps of a client that begins, waits or ends a call are not seen.
LEMMA HiddenSteps ==
    ASSUME UNCHANGED <<running, tasks, shut>>
    PROVE  UNCHANGED E!vars
<1>1. Phase' = Phase /\ InHand' = InHand
  BY Zenon DEF Phase, InHand
<1>2. TaskState' = TaskState
  BY Zenon, <1>1 DEF TaskState, tasks
<1> QED
  BY Zenon, <1>1, <1>2 DEF E!vars

\* A task that is taken from the queue runs; shutdown has not emptied the queue.
LEMMA PopIsWork ==
    ASSUME IInv, NEW c \in Clients, loop_lock(c)
    PROVE  E!Work \/ UNCHANGED E!vars
<1> USE DEF IInv
<1>1. CASE UNCHANGED running
  BY Zenon, <1>1, HiddenSteps DEF loop_lock
<1>2. CASE /\ ~m_abort /\ m_tasks # <<>> /\ Goes(c, "lock", "task")
           /\ running' = [running EXCEPT ![c] = Head(m_tasks)] /\ m_tasks' = Tail(m_tasks)
  <2> DEFINE h == Head(m_tasks)
  <2>1. UNCHANGED <<made, ran, dropped, shut>> /\ Phase' = Phase /\ Phase \in {"open", "closing"}
    BY Zenon, <1>2 DEF loop_lock, tasks, Phase, Flags
  <2>2. h \in Tasks /\ h \in Queued
    BY <1>2, HeadAndTail DEF TypeOK, Queued
  <2>3. InHand' = InHand \cup {h}
    <3>1. running[c] = Null
      BY Zenon, <1>2 DEF ClientPlaces, Goes
    <3> QED
      BY Zenon, <1>2, <2>2, <3>1, TakesInHand
  <2>4. h \notin Range(ran) /\ h \notin Range(dropped) /\ h \notin InHand /\ h <= made
    <3>1. h \in 1 .. made
      BY Zenon, <2>2 DEF Counted
    <3> QED
      BY <2>2, <3>1 DEF Apart, Done
  <2> HIDE DEF h
  <2> SUFFICES ASSUME NEW t \in Tasks, TaskState'[t] # TaskState[t]
               PROVE  <<TaskState[t], TaskState'[t]>> \in E!Allowed(Phase)
    BY Zenon, <2>1, TasksMoveAsAllowed DEF E!Work
  <2>5. t = h /\ TaskState[t] = "pending" /\ TaskState'[t] = "running"
    BY Zenon, <2>1, <2>3, <2>4 DEF TaskState
  <2> QED
    BY Zenon, <2>1, <2>5 DEF E!Allowed, E!Life
<1> QED
  BY Zenon, <1>1, <1>2 DEF loop_lock

\* The task of a client ends, even after shutdown, which does not wait for it.
LEMMA FinishIsWork ==
    ASSUME IInv, NEW c \in Clients, finish_task(c)
    PROVE  E!Work
<1> USE DEF IInv
<1> DEFINE h == running[c]
<1>1. UNCHANGED <<made, dropped, shut>> /\ Phase' = Phase /\ Phase \in {"open", "closing", "closed"}
  BY Zenon DEF finish_task, Phase
<1>2. c \in Busy /\ h \in Tasks /\ h \in InHand
  BY Zenon, BusyClients DEF finish_task, Goes, ClientPlaces
<1>3. InHand' = InHand \ {h}
  BY Zenon, <1>2, LetsGo DEF finish_task
<1>4. Range(ran') = Range(ran) \cup {h}
  BY Zenon, <1>2, Appended DEF finish_task, TypeOK
<1>5. h \notin Range(ran) /\ h \notin Range(dropped)
  BY Zenon, <1>2 DEF Apart, Done
<1> HIDE DEF h
<1> SUFFICES ASSUME NEW t \in Tasks, TaskState'[t] # TaskState[t]
             PROVE  <<TaskState[t], TaskState'[t]>> \in E!Allowed(Phase)
  BY Zenon, <1>1, TasksMoveAsAllowed DEF E!Work
<1>6. t = h /\ TaskState[t] = "running" /\ TaskState'[t] = "ran"
  BY Zenon, <1>1, <1>2, <1>3, <1>4, <1>5 DEF TaskState
<1> QED
  BY Zenon, <1>1, <1>6 DEF E!Allowed, E!Life

\* enqueue accepts tasks, or destroys them once the executor is shut down.
LEMMA EnqueueIsWork ==
    ASSUME IInv, NEW c \in Clients, NEW n \in 1 .. MaxCount, enqueue(c, n)
    PROVE  E!Work
<1> USE DEF IInv
<1> DEFINE S == made + 1 .. made + n
<1>1. made' = made + n /\ made + n <= MaxTasks /\ UNCHANGED <<running, ran, shut>>
  BY Zenon DEF enqueue
<1>2. Phase' = Phase /\ InHand' = InHand
  BY Zenon, <1>1 DEF Phase, InHand
<1>3. Range(dropped \o NextTasks(n)) = Range(dropped) \cup S
  <2>1. NextTasks(n) \in Seq(Tasks) /\ Range(NextTasks(n)) = S
    BY Zenon, <1>1, SpanOfTasks DEF TypeOK
  <2> QED
    BY Zenon, <2>1, Concat DEF TypeOK
<1>4. /\ S \cap (1 .. made) = {}
      /\ \A t \in S : ~(t <= made) /\ t <= made'
      /\ \A t \in Tasks : t <= made' <=> (t <= made \/ t \in S)
  BY <1>1, BoundsAreNat DEF Tasks, TypeOK
<1> HIDE DEF S
<1>5. S \cap (Range(ran) \cup Range(dropped) \cup InHand) = {}
  BY Zenon, <1>4 DEF Counted, Done
<1> SUFFICES ASSUME NEW t \in Tasks, TaskState'[t] # TaskState[t]
             PROVE  <<TaskState[t], TaskState'[t]>> \in E!Allowed(Phase)
  BY Zenon, <1>2, TasksMoveAsAllowed DEF E!Work
<1>6. CASE m_abort /\ dropped' = dropped \o NextTasks(n)
  <2>1. t \in S /\ TaskState[t] = "none" /\ TaskState'[t] = "dropped"
    BY Zenon, <1>1, <1>2, <1>3, <1>4, <1>5, <1>6 DEF TaskState
  <2>2. Phase \in {"closing", "closed"}
    BY Zenon, <1>6 DEF Phase, Flags
  <2> QED
    BY Zenon, <2>1, <2>2 DEF E!Allowed, E!Refusal
<1>7. CASE ~m_abort /\ dropped' = dropped
  <2>1. t \in S /\ TaskState[t] = "none" /\ TaskState'[t] = "pending"
    BY Zenon, <1>1, <1>2, <1>4, <1>5, <1>7 DEF TaskState
  <2>2. Phase \in {"open", "closing"}
    BY Zenon, <1>7 DEF Phase, Flags
  <2> QED
    BY Zenon, <2>1, <2>2 DEF E!Allowed, E!Life
<1> QED
  BY Zenon, <1>6, <1>7 DEF enqueue

\* clear and shutdown destroy tasks that nobody has begun.
LEMMA DestructionIsWork ==
    ASSUME IInv, (\E c \in Clients : clear(c)) \/ shutdown_lock
    PROVE  E!Work
<1> USE DEF IInv
<1>1. /\ dropped' = dropped \o m_tasks /\ m_tasks' = <<>> /\ UNCHANGED <<running, made, ran>>
      /\ Phase' = Phase /\ Phase \in {"open", "closing"}
  BY Zenon DEF clear, shutdown_lock, Phase, Flags
<1>2. Range(dropped') = Range(dropped) \cup Queued
  BY Zenon, <1>1, QueueIsDestroyed
<1>3. InHand' = InHand
  BY Zenon, <1>1 DEF InHand
<1> SUFFICES ASSUME NEW t \in Tasks, TaskState'[t] # TaskState[t]
             PROVE  <<TaskState[t], TaskState'[t]>> \in E!Allowed(Phase)
  BY Zenon, <1>1, TasksMoveAsAllowed DEF E!Work
<1>4. t \in Queued
  BY Zenon, <1>1, <1>2, <1>3 DEF TaskState
<1>5. t \notin Range(ran) /\ t \notin Range(dropped) /\ t \notin InHand /\ t <= made
  <2>1. t \in 1 .. made
    BY Zenon, <1>4 DEF Counted
  <2> QED
    BY <1>4, <2>1 DEF Apart, Done
<1>6. TaskState[t] = "pending" /\ TaskState'[t] = "dropped"
  BY Zenon, <1>1, <1>2, <1>4, <1>5 DEF TaskState
<1> QED
  BY Zenon, <1>1, <1>6 DEF E!Allowed, E!Destruction

\* When shutdown returns no task waits; those that run may run on.
LEMMA NotifyReturns ==
    ASSUME IInv, shutdown_notify
    PROVE  E!ShutdownReturns
<1> USE DEF IInv
<1>1. /\ shut = "notify" /\ shut' = "done" /\ UNCHANGED <<running, made, ran, dropped>>
      /\ m_tasks = <<>>
  BY Zenon DEF shutdown_notify, tasks, Flags
<1>2. Phase = "closing" /\ Phase' = "closed" /\ InHand' = InHand
  BY Zenon, <1>1 DEF Phase, InHand
<1>3. TaskState' = TaskState
  BY Zenon, <1>1, <1>2 DEF TaskState
<1>4. \A t \in Tasks : t <= made => t \in InHand \cup Done
  <2>1. Queued = {}
    BY Zenon, <1>1, Elements DEF TypeOK, Queued
  <2>2. \A t \in Tasks : t <= made => t \in 1 .. made
    BY BoundsAreNat DEF Tasks, TypeOK
  <2> QED
    BY Zenon, <2>1, <2>2 DEF Counted
<1>5. \A t \in Tasks : TaskState[t] # "pending"
  BY Zenon, <1>4 DEF TaskState, Done
<1>6. E!TasksMove
  BY Zenon, <1>3, TasksMoveAsAllowed
<1> QED
  BY Zenon, <1>2, <1>3, <1>5, <1>6 DEF E!ShutdownReturns

\* However many clients and tasks there are, the manual executor is an executor:
\* every step of enqueue, clear, loop and shutdown is a step of Executor, or one
\* that it does not see.
THEOREM ManualImplementsExecutor == Spec => ImplementsExecutor
<1>1. Init => E!Init
  <2> SUFFICES ASSUME Init PROVE E!Init
    BY Zenon
  <2>1. Range(<<>>) = {} /\ \A t \in Tasks : ~(t <= 0)
    <3>1. Range(<<>>) = {}
      BY Zenon, EmptySequence, Elements
    <3>2. \A t \in Tasks : ~(t <= 0)
      BY BoundsAreNat DEF Tasks
    <3> QED
      BY Zenon, <3>1, <3>2
  <2>2. Range(ran) = {} /\ Range(dropped) = {} /\ InHand = {} /\ \A t \in Tasks : ~(t <= made)
    BY Zenon, <2>1 DEF Init, InHand
  <2>3. TaskState = [t \in Tasks |-> "none"] /\ Phase = "open"
    BY Zenon, <2>2 DEF Init, TaskState, Phase
  <2> QED
    BY Zenon, <2>3 DEF E!Init
<1>2. IInv /\ [Next]_vars => [E!Next]_(E!vars)
  <2> SUFFICES ASSUME IInv, [Next]_vars PROVE [E!Next]_(E!vars)
    BY Zenon
  <2>1. ASSUME NEW c \in Clients, ClientStep(c) \/ wake(c) \/ clear(c) PROVE [E!Next]_(E!vars)
    <3>1. CASE loop_lock(c) \/ finish_task(c) \/ clear(c)
      BY Zenon, <3>1, PopIsWork, FinishIsWork, DestructionIsWork DEF E!Next
    <3>2. CASE enqueue_notify(c) \/ loop_head(c) \/ end_loop(c) \/ wait_lock(c) \/ wake(c)
      <4>1. UNCHANGED <<running, tasks, shut>>
        BY Zenon, <3>2 DEF enqueue_notify, loop_head, end_loop, wait_lock, wake
      <4> QED
        BY Zenon, <4>1, HiddenSteps
    <3> QED
      BY Zenon, <2>1, <3>1, <3>2 DEF ClientStep
  <2>2. ASSUME NEW c \in Clients, NEW n \in 1 .. MaxCount, enqueue(c, n) PROVE E!Next
    BY Zenon, <2>2, EnqueueIsWork DEF E!Next
  <2>3. ASSUME NEW c \in Clients, NEW op, NEW n, loop(c, op, n) \/ wait_for_tasks(c, op, n)
        PROVE  UNCHANGED E!vars
    <3>1. UNCHANGED <<running, tasks, shut>>
      BY Zenon, <2>3 DEF loop, wait_for_tasks, Begin
    <3> QED
      BY Zenon, <3>1, HiddenSteps
  <2>4. CASE shutdown
    <3>1. InHand' = InHand
      BY Zenon, <2>4 DEF shutdown, InHand
    <3>2. TaskState' = TaskState
      BY Zenon, <2>4, <3>1 DEF shutdown, TaskState, tasks
    <3> QED
      BY Zenon, <2>4, <3>2 DEF shutdown, Phase, E!Next, E!ShutdownCalled
  <2>5. CASE ShutdownStep
    BY Zenon, <2>5, DestructionIsWork, NotifyReturns DEF ShutdownStep, E!Next
  <2>6. CASE UNCHANGED vars
    BY Zenon, <2>6, HiddenSteps DEF vars
  <2> QED
    BY Zenon, <2>1, <2>2, <2>3, <2>4, <2>5, <2>6 DEF Next
<1> QED
  BY <1>1, <1>2, IInvHolds, PTL DEF Spec, ImplementsExecutor, E!Spec

=============================================================================
