--------------------------- MODULE ThreadPoolProofs ---------------------------
(***************************************************************************)
(* Where every task of the thread pools is, step by step, and with         *)
(* ThreadPoolControlProofs the theorems: the pools' invariant, that no     *)
(* wake-up is lost, and that the pools implement the abstract executor.    *)
(***************************************************************************)
EXTENDS ThreadPoolControlProofs

-----------------------------------------------------------------------------
(* Where a task is.                                                        *)

\* A task that was made is in one place, and no other task is in any.
Located(t) ==
    /\ \A k1, k2 \in Kinds : \A x1, x2 \in Spots :
           IsIn(k1, x1, t) /\ IsIn(k2, x2, t) => k1 = k2 /\ x1 = x2
    /\ t <= made <=> \E k \in Kinds, x \in Spots : IsIn(k, x, t)

\* Once and Somewhere, task by task.
LEMMA LocatedIs == Once /\ Somewhere <=> \A t \in Tasks : Located(t)
  BY Zenon DEF Once, Somewhere, Located

\* A task is an argument of a call of thread x.
InCall(x, t) == ~DonatingTo(x) /\ t \in CallTasks(x)

\* The places, kind by kind.
LEMMA PlacesAre ==
    ASSUME NEW x, NEW t
    PROVE  /\ IsIn("private", x, t) <=> x \in Workers /\ t \in Range(private[x])
           /\ IsIn("public", x, t) <=> x \in Workers /\ t \in Range(public[x])
           /\ IsIn("running", x, t) <=> x \in Workers /\ running[x] = t
           /\ IsIn("call", x, t) <=> x \in Threads /\ InCall(x, t)
           /\ IsIn("ran", x, t) <=> x = NoWorker /\ ran[t] > 0
           /\ IsIn("dropped", x, t) <=> x = NoWorker /\ dropped[t] > 0
  BY Zenon DEF IsIn, InCall

\* The same in the next state.
LEMMA NextPlacesAre ==
    ASSUME NEW x, NEW t
    PROVE  /\ IsIn("private", x, t)' <=> x \in Workers /\ t \in Range(private'[x])
           /\ IsIn("public", x, t)' <=> x \in Workers /\ t \in Range(public'[x])
           /\ IsIn("running", x, t)' <=> x \in Workers /\ running'[x] = t
           /\ IsIn("call", x, t)' <=> x \in Threads /\ InCall(x, t)'
           /\ IsIn("ran", x, t)' <=> x = NoWorker /\ ran'[t] > 0
           /\ IsIn("dropped", x, t)' <=> x = NoWorker /\ dropped'[t] > 0
  BY Zenon DEF IsIn, InCall

\* A place is of one of the kinds and of a thread, or of none.
LEMMA PlaceTyped ==
    /\ {"private", "public", "running", "call", "ran", "dropped"} = Kinds
    /\ NoWorker \in Spots /\ Workers \subseteq Spots /\ Threads \subseteq Spots
    /\ Workers \subseteq Threads
  BY Zenon DEF Kinds, Spots, Threads

\* A step leaves a task where it is.
Stays(t) ==
    /\ \A x \in Workers : /\ t \in Range(private'[x]) <=> t \in Range(private[x])
                          /\ t \in Range(public'[x]) <=> t \in Range(public[x])
                          /\ running'[x] = t <=> running[x] = t
    /\ \A x \in Threads : InCall(x, t)' <=> InCall(x, t)
    /\ ran'[t] > 0 <=> ran[t] > 0
    /\ dropped'[t] > 0 <=> dropped[t] > 0

\* A step puts a task in a place, if anywhere.
Arrives(t, k1, x1) ==
    /\ \A x \in Workers :
         /\ t \in Range(private'[x]) => t \in Range(private[x]) \/ (k1 = "private" /\ x1 = x)
         /\ t \in Range(public'[x]) => t \in Range(public[x]) \/ (k1 = "public" /\ x1 = x)
         /\ running'[x] = t => running[x] = t \/ (k1 = "running" /\ x1 = x)
    /\ \A x \in Threads : InCall(x, t)' => InCall(x, t) \/ (k1 = "call" /\ x1 = x)
    /\ ran'[t] > 0 => ran[t] > 0 \/ (k1 = "ran" /\ x1 = NoWorker)
    /\ dropped'[t] > 0 => dropped[t] > 0 \/ (k1 = "dropped" /\ x1 = NoWorker)

\* Where a task first is, and where it may go from one place.
FirstPlace(k) == k \in {"call", "private", "dropped"}
\* From which place a task may go on to which.
Passage(k0, k1) ==
    <<k0, k1>> \in {<<"private", "public">>, <<"public", "private">>, <<"call", "public">>,
                   <<"private", "running">>, <<"running", "ran">>,
                   <<"call", "dropped">>, <<"private", "dropped">>, <<"public", "dropped">>}

\* The passages the actions use.
LEMMA Passages ==
    /\ FirstPlace("call") /\ FirstPlace("private") /\ FirstPlace("dropped")
    /\ Passage("private", "public") /\ Passage("public", "private") /\ Passage("call", "public")
    /\ Passage("private", "running") /\ Passage("running", "ran")
    /\ Passage("call", "dropped") /\ Passage("private", "dropped") /\ Passage("public", "dropped")
  BY Zenon DEF FirstPlace, Passage

\* A task stays where it is, appears, or goes from one place to another.
Passes(t) ==
    \/ Stays(t)
    \/ \E k1 \in Kinds, x1 \in Spots :
          /\ IsIn(k1, x1, t)'
          /\ \/ ~(t <= made) /\ FirstPlace(k1)
             \/ \E k0 \in Kinds, x0 \in Spots : IsIn(k0, x0, t) /\ Passage(k0, k1)

\* A task is in one place after the step, and got there by a passage.
Proceeds(t) == Located(t)' /\ Passes(t)

\* A task that no step touches stays where it was.
LEMMA StayingLocated ==
    ASSUME NEW t \in Tasks, Located(t), Stays(t), t <= made' <=> t <= made
    PROVE  Proceeds(t)
<1>1. ASSUME NEW k \in Kinds, NEW x \in Spots
      PROVE  IsIn(k, x, t)' <=> IsIn(k, x, t)
  <2>1. k \in {"private", "public", "running", "call", "ran", "dropped"}
    BY Zenon, PlaceTyped
  <2>2. IsIn("private", x, t)' <=> IsIn("private", x, t)
    BY Zenon, PlacesAre, NextPlacesAre DEF Stays
  <2>3. IsIn("public", x, t)' <=> IsIn("public", x, t)
    BY Zenon, PlacesAre, NextPlacesAre DEF Stays
  <2>4. IsIn("running", x, t)' <=> IsIn("running", x, t)
    BY Zenon, PlacesAre, NextPlacesAre DEF Stays
  <2>5. IsIn("call", x, t)' <=> IsIn("call", x, t)
    BY Zenon, PlacesAre, NextPlacesAre DEF Stays
  <2>6. IsIn("ran", x, t)' <=> IsIn("ran", x, t)
    BY PlacesAre, NextPlacesAre DEF Stays
  <2>7. IsIn("dropped", x, t)' <=> IsIn("dropped", x, t)
    BY PlacesAre, NextPlacesAre DEF Stays
  <2> QED
    BY Zenon, <2>1, <2>2, <2>3, <2>4, <2>5, <2>6, <2>7
<1> QED
  BY Zenon, <1>1 DEF Located, Proceeds, Passes

\* A task that arrives in one place has left the one it was in.
LEMMA ArrivingLocated ==
    ASSUME NEW t \in Tasks, Located(t), NEW k1 \in Kinds, NEW x1 \in Spots, Arrives(t, k1, x1),
           IsIn(k1, x1, t)', t <= made',
           \/ ~(t <= made) /\ FirstPlace(k1)
           \/ \E k0 \in Kinds, x0 \in Spots :
                /\ IsIn(k0, x0, t) /\ (IsIn(k0, x0, t)' => k0 = k1 /\ x0 = x1)
                /\ Passage(k0, k1)
    PROVE  Proceeds(t)
<1>1. ASSUME NEW k \in Kinds, NEW x \in Spots, IsIn(k, x, t)'
      PROVE  IsIn(k, x, t) \/ (k = k1 /\ x = x1)
  <2>1. k \in {"private", "public", "running", "call", "ran", "dropped"}
    BY Zenon, PlaceTyped
  <2>2. IsIn("private", x, t)' => IsIn("private", x, t) \/ ("private" = k1 /\ x = x1)
    BY Zenon, PlacesAre, NextPlacesAre DEF Arrives
  <2>3. IsIn("public", x, t)' => IsIn("public", x, t) \/ ("public" = k1 /\ x = x1)
    BY Zenon, PlacesAre, NextPlacesAre DEF Arrives
  <2>4. IsIn("running", x, t)' => IsIn("running", x, t) \/ ("running" = k1 /\ x = x1)
    BY Zenon, PlacesAre, NextPlacesAre DEF Arrives
  <2>5. IsIn("call", x, t)' => IsIn("call", x, t) \/ ("call" = k1 /\ x = x1)
    BY Zenon, PlacesAre, NextPlacesAre DEF Arrives
  <2>6. IsIn("ran", x, t)' => IsIn("ran", x, t) \/ ("ran" = k1 /\ x = x1)
    BY PlacesAre, NextPlacesAre DEF Arrives
  <2>7. IsIn("dropped", x, t)' => IsIn("dropped", x, t) \/ ("dropped" = k1 /\ x = x1)
    BY PlacesAre, NextPlacesAre DEF Arrives
  <2> QED
    BY Zenon, <1>1, <2>1, <2>2, <2>3, <2>4, <2>5, <2>6, <2>7
<1>2. ASSUME NEW k \in Kinds, NEW x \in Spots, IsIn(k, x, t)'
      PROVE  k = k1 /\ x = x1
  <2>1. CASE ~(t <= made)
    BY Zenon, <1>1, <1>2, <2>1 DEF Located
  <2>2. ASSUME NEW k0 \in Kinds, NEW x0 \in Spots, IsIn(k0, x0, t),
               IsIn(k0, x0, t)' => k0 = k1 /\ x0 = x1
        PROVE  k = k1 /\ x = x1
    <3>1. CASE IsIn(k, x, t)
      <4>1. k = k0 /\ x = x0
        BY Zenon, <2>2, <3>1 DEF Located
      <4> QED
        BY Zenon, <1>2, <2>2, <4>1
    <3> QED
      BY Zenon, <1>1, <1>2, <3>1
  <2> QED
    BY Zenon, <2>1, <2>2
<1> QED
  BY Zenon, <1>2 DEF Located, Proceeds, Passes

\* The books: every task in its place, once, run or destroyed once.
Booked ==
    /\ ran \in [Tasks -> {0, 1}] /\ dropped \in [Tasks -> {0, 1}]
    /\ \A t \in Tasks : Located(t)
    /\ Queued /\ Arguments

\* The books of the next state, and how they came about.
Balanced == Booked' /\ \A t \in Tasks : Passes(t)

\* The conjuncts of the invariant about the tasks' places are Typed and Booked.
LEMMA BookedIs ==
    Typed /\ Booked <=> TypeOK /\ Once /\ Somewhere /\ Queued /\ Arguments
  BY Zenon, TypedIs, LocatedIs DEF Booked

\* What a call has for arguments depends on the call and on whether it donates.
LEMMA SameCall ==
    ASSUME NEW x \in Threads, DonatingTo(x)' <=> DonatingTo(x), jobs'[x] = jobs[x]
    PROVE  /\ \A t : InCall(x, t)' <=> InCall(x, t)
           /\ ArgumentsApart(x)' <=> ArgumentsApart(x)
<1>1. CallTasks(x)' = CallTasks(x)
  BY Zenon DEF CallTasks
<1>2. ArgumentsApart(x)' <=> ArgumentsApart(x)
  BY Zenon DEF ArgumentsApart
<1> QED
  BY Zenon, <1>1, <1>2 DEF InCall

\* Without a call to make a thread holds no task for one ...
LEMMA NoCall ==
    ASSUME NEW x, jobs[x] = <<>>
    PROVE  CallTasks(x) = {} /\ (\A t : ~InCall(x, t)) /\ ArgumentsApart(x)
<1>1. DOMAIN jobs[x] = {}
  BY Zenon, NoElements
<1> QED
  BY Zenon, <1>1 DEF CallTasks, InCall, ArgumentsApart

\* ... nor after the step.
LEMMA NoNextCall ==
    ASSUME NEW x, jobs'[x] = <<>>
    PROVE  (\A t : ~InCall(x, t)') /\ ArgumentsApart(x)'
<1>1. DOMAIN jobs'[x] = {}
  BY Zenon, NoElements
<1> QED
  BY Zenon, <1>1 DEF CallTasks, InCall, ArgumentsApart

\* A step that moves no task.
LEMMA NothingMoves ==
    ASSUME Booked, UNCHANGED <<queues, running, tasks>>,
           \A x \in Threads : \/ (DonatingTo(x)' <=> DonatingTo(x)) /\ jobs'[x] = jobs[x]
                              \/ jobs[x] = <<>> /\ DonatingTo(x)'
                              \/ DonatingTo(x) /\ jobs'[x] = <<>>
    PROVE  Balanced
<1>1. ASSUME NEW x \in Threads
      PROVE  /\ \A t : InCall(x, t)' <=> InCall(x, t)
             /\ ~DonatingTo(x)' => ArgumentsApart(x)'
  <2>1. CASE (DonatingTo(x)' <=> DonatingTo(x)) /\ jobs'[x] = jobs[x]
    BY Zenon, <2>1, SameCall DEF Booked, Arguments
  <2>2. CASE jobs[x] = <<>> /\ DonatingTo(x)'
    BY Zenon, <2>2, NoCall DEF InCall
  <2>3. CASE DonatingTo(x) /\ jobs'[x] = <<>>
    BY Zenon, <2>3, NoNextCall DEF InCall
  <2> QED
    BY Zenon, <2>1, <2>2, <2>3
<1>2. Arguments'
  BY Zenon, <1>1 DEF Arguments
<1>3. Queued' /\ ran' \in [Tasks -> {0, 1}] /\ dropped' \in [Tasks -> {0, 1}]
  BY Zenon DEF Booked, Queued, queues, tasks
<1>4. ASSUME NEW t \in Tasks
      PROVE  Proceeds(t)
  <2>1. Stays(t)
    BY Zenon, <1>1 DEF Stays, queues, tasks
  <2>2. Located(t) /\ UNCHANGED made
    BY Zenon DEF Booked, tasks
  <2> QED
    BY Zenon, <2>1, <2>2, StayingLocated
<1> QED
  BY Zenon, <1>2, <1>3, <1>4 DEF Booked, Balanced, Proceeds

\* A worker takes its public queue.
LEMMA QueuesSwap ==
    ASSUME Typed, Booked, NEW w \in Workers, private' = [private EXCEPT ![w] = public[w]],
           public' = [public EXCEPT ![w] = private[w]], UNCHANGED <<running, tasks>>,
           \A x \in Threads : (DonatingTo(x)' <=> DonatingTo(x)) /\ jobs'[x] = jobs[x]
    PROVE  Balanced
<1>1. /\ private'[w] = public[w] /\ public'[w] = private[w]
      /\ \A x \in Workers : x # w => private'[x] = private[x] /\ public'[x] = public[x]
  BY Zenon DEF Typed
<1>2. Arguments' /\ \A x \in Threads : \A t : InCall(x, t)' <=> InCall(x, t)
  BY Zenon, SameCall DEF Booked, Arguments
<1>3. Queued'
  BY Zenon, <1>1 DEF Booked, Queued
<1>4. ran' \in [Tasks -> {0, 1}] /\ dropped' \in [Tasks -> {0, 1}]
  BY Zenon DEF Booked, tasks
<1>5. ASSUME NEW t \in Tasks
      PROVE  Proceeds(t)
  <2>1. Located(t) /\ UNCHANGED <<made, ran, dropped, running>>
    BY Zenon DEF Booked, tasks
  <2>2. w \in Spots /\ "private" \in Kinds /\ "public" \in Kinds
    BY Zenon, PlaceTyped
  <2>3. ~(t \in Range(private[w]) /\ t \in Range(public[w]))
    <3>1. ~(IsIn("private", w, t) /\ IsIn("public", w, t))
      BY Zenon, <2>1, <2>2 DEF Located
    <3> QED
      BY Zenon, <3>1, PlacesAre
  <2>4. CASE t \in Range(private[w])
    <3>1. Arrives(t, "public", w)
      BY Zenon, <1>1, <1>2, <2>1, <2>3, <2>4 DEF Arrives
    <3>2. IsIn("private", w, t) /\ ~IsIn("private", w, t)' /\ IsIn("public", w, t)'
      BY Zenon, <1>1, <2>3, <2>4, PlacesAre, NextPlacesAre
    <3>3. t <= made'
      BY Zenon, <2>1, <2>2, <3>2 DEF Located
    <3> QED
      BY Zenon, <2>1, <2>2, <3>1, <3>2, <3>3, ArrivingLocated, Passages
  <2>5. CASE t \in Range(public[w])
    <3>1. Arrives(t, "private", w)
      BY Zenon, <1>1, <1>2, <2>1, <2>3, <2>5 DEF Arrives
    <3>2. IsIn("public", w, t) /\ ~IsIn("public", w, t)' /\ IsIn("private", w, t)'
      BY Zenon, <1>1, <2>3, <2>5, PlacesAre, NextPlacesAre
    <3>3. t <= made'
      BY Zenon, <2>1, <2>2, <3>2 DEF Located
    <3> QED
      BY Zenon, <2>1, <2>2, <3>1, <3>2, <3>3, ArrivingLocated, Passages
  <2>6. CASE t \notin Range(private[w]) /\ t \notin Range(public[w])
    <3>1. Stays(t)
      BY Zenon, <1>1, <1>2, <2>1, <2>6 DEF Stays
    <3> QED
      BY Zenon, <2>1, <3>1, StayingLocated
  <2> QED
    BY Zenon, <2>4, <2>5, <2>6
<1> QED
  BY Zenon, <1>2, <1>3, <1>4, <1>5 DEF Booked, Balanced, Proceeds

\* A worker takes the last task of its private queue.
LEMMA TaskPopped ==
    ASSUME Typed, Booked, NEW w \in Workers, private[w] # <<>>, running[w] = Null,
           running' = [running EXCEPT ![w] = private[w][Len(private[w])]],
           private' = [private EXCEPT ![w] = SubSeq(@, 1, Len(@) - 1)], UNCHANGED <<public, tasks>>,
           \A x \in Threads : (DonatingTo(x)' <=> DonatingTo(x)) /\ jobs'[x] = jobs[x]
    PROVE  Balanced
<1> DEFINE last == private[w][Len(private[w])]
           s == SubSeq(private[w], 1, Len(private[w]) - 1)
<1>0. private[w] \in Seq(Items) /\ NoRepeats(private[w])
  BY Zenon DEF Typed, Booked, Queued
<1>1. /\ Range(private[w]) = Range(s) \cup {last} /\ NoRepeats(s)
      /\ last = Null \/ last \notin Range(s)
  BY Zenon, <1>0, WithoutLast
<1> HIDE DEF last, s
<1>2. /\ private'[w] = s /\ running'[w] = last
      /\ \A x \in Workers : x # w => private'[x] = private[x] /\ running'[x] = running[x]
  BY Zenon DEF Typed, last, s
<1>3. Arguments' /\ \A x \in Threads : \A t : InCall(x, t)' <=> InCall(x, t)
  BY Zenon, SameCall DEF Booked, Arguments
<1>4. Queued'
  BY Zenon, <1>1, <1>2 DEF Booked, Queued
<1>5. ran' \in [Tasks -> {0, 1}] /\ dropped' \in [Tasks -> {0, 1}]
  BY Zenon DEF Booked, tasks
<1>6. ASSUME NEW t \in Tasks
      PROVE  Proceeds(t)
  <2>1. Located(t) /\ UNCHANGED <<made, ran, dropped, public>> /\ t # Null
    BY Zenon, TasksAreItems DEF Booked, tasks
  <2>2. w \in Spots /\ "private" \in Kinds /\ "running" \in Kinds
    BY Zenon, PlaceTyped
  <2>3. CASE t = last
    <3>1. Arrives(t, "running", w)
      BY Zenon, <1>1, <1>2, <1>3, <2>1, <2>3 DEF Arrives
    <3>2. IsIn("private", w, t) /\ ~IsIn("private", w, t)' /\ IsIn("running", w, t)'
      BY Zenon, <1>1, <1>2, <2>1, <2>3, PlacesAre, NextPlacesAre
    <3>3. t <= made'
      BY Zenon, <2>1, <2>2, <3>2 DEF Located
    <3> QED
      BY Zenon, <2>1, <2>2, <3>1, <3>2, <3>3, ArrivingLocated, Passages
  <2>4. CASE t # last
    <3>1. Stays(t)
      BY Zenon, <1>1, <1>2, <1>3, <2>1, <2>4 DEF Stays
    <3> QED
      BY Zenon, <2>1, <3>1, StayingLocated
  <2> QED
    BY Zenon, <2>3, <2>4
<1> QED
  BY Zenon, <1>3, <1>4, <1>5, <1>6 DEF Booked, Balanced, Proceeds

\* A task returns.
LEMMA TaskReturned ==
    ASSUME Typed, Booked, NEW w \in Workers, Ran(w), running' = [running EXCEPT ![w] = Null],
           UNCHANGED <<queues, made, dropped>>,
           \A x \in Threads : (DonatingTo(x)' <=> DonatingTo(x)) /\ jobs'[x] = jobs[x]
    PROVE  Balanced
<1>1. /\ running'[w] = Null
      /\ \A x \in Workers : x # w => running'[x] = running[x]
  BY Zenon DEF Typed
<1>2. TypeOK /\ Once
  BY Zenon, BookedIs
<1>3. ran' \in [Tasks -> {0, 1}] /\ \A t \in Tasks : ran'[t] > 0 <=> ran[t] > 0 \/ running[w] = t
  BY Zenon, <1>2, RanOnce
<1>4. Arguments' /\ \A x \in Threads : \A t : InCall(x, t)' <=> InCall(x, t)
  BY Zenon, SameCall DEF Booked, Arguments
<1>5. Queued' /\ dropped' \in [Tasks -> {0, 1}]
  BY Zenon DEF Booked, Queued, queues
<1>6. ASSUME NEW t \in Tasks
      PROVE  Proceeds(t)
  <2>1. Located(t) /\ UNCHANGED <<made, dropped, private, public>> /\ t # Null
    BY Zenon, TasksAreItems DEF Booked, queues
  <2>2. w \in Spots /\ NoWorker \in Spots /\ "ran" \in Kinds /\ "running" \in Kinds
    BY Zenon, PlaceTyped
  <2>3. CASE t = running[w]
    <3>0. ran'[t] > 0
      BY Zenon, <1>3, <2>3
    <3>1. Arrives(t, "ran", NoWorker)
      BY Zenon, <1>1, <1>3, <1>4, <2>1, <2>3 DEF Arrives
    <3>2. IsIn("running", w, t) /\ ~IsIn("running", w, t)'
      BY Zenon, <1>1, <2>1, <2>3, PlacesAre, NextPlacesAre
    <3>3. IsIn("ran", NoWorker, t)'
      BY Zenon, <3>0, NextPlacesAre
    <3>4. t <= made'
      BY Zenon, <2>1, <2>2, <3>2 DEF Located
    <3> QED
      BY Zenon, <2>1, <2>2, <3>1, <3>2, <3>3, <3>4, ArrivingLocated, Passages
  <2>4. CASE t # running[w]
    <3>1. Stays(t)
      BY Zenon, <1>1, <1>3, <1>4, <2>1, <2>4 DEF Stays
    <3> QED
      BY Zenon, <2>1, <3>1, StayingLocated
  <2> QED
    BY Zenon, <2>3, <2>4
<1> QED
  BY Zenon, <1>3, <1>4, <1>5, <1>6 DEF Booked, Balanced, Proceeds

\* A thread that goes on, and neither begins to donate nor ends.
LEMMA DonatesAsBefore ==
    ASSUME Typed, NEW w \in Workers, NEW from, NEW to, Goes(w, from, to), from # "donate",
           to # "donate"
    PROVE  \A x \in Threads : DonatingTo(x)' <=> DonatingTo(x)
<1>1. pc[w] = from /\ pc'[w] = to /\ \A x \in Workers : x # w => pc'[x] = pc[x]
  BY Zenon DEF Goes, Typed
<1> QED
  BY Zenon, <1>1 DEF DonatingTo

\* The steps of a worker's thread.
LEMMA BookedThread ==
    ASSUME Typed, Booked, NEW w \in Workers, Controlled(w), WorkerStep(w) \/ time_out(w)
    PROVE  Balanced
<1>1. ASSUME NEW from, NEW to, Goes(w, from, to), from # "donate", to # "donate",
             UNCHANGED <<queues, running, tasks, jobs>>
      PROVE  Balanced
  <2>1. \A x \in Threads : (DonatingTo(x)' <=> DonatingTo(x)) /\ jobs'[x] = jobs[x]
    BY Zenon, <1>1, DonatesAsBefore
  <2> QED
    BY Zenon, <1>1, <2>1, NothingMoves
<1>2. ASSUME NEW from, Goes(w, from, "run"), from # "donate",
             private' = [private EXCEPT ![w] = public[w]],
             public' = [public EXCEPT ![w] = private[w]], UNCHANGED <<running, tasks, jobs>>
      PROVE  Balanced
  <2>1. "run" # "donate"
    BY Zenon
  <2>2. \A x \in Threads : (DonatingTo(x)' <=> DonatingTo(x)) /\ jobs'[x] = jobs[x]
    BY Zenon, <1>2, <2>1, DonatesAsBefore
  <2> QED
    BY Zenon, <1>2, <2>2, QueuesSwap
<1>3. CASE drain_queue(w) \/ wait_for_task(w)
  <2>0. "drain" # "donate" /\ "found" # "donate" /\ "none" # "donate" /\ "mark_idle" # "donate"
        /\ "wait" # "donate"
    BY Zenon
  <2>1. UNCHANGED <<running, tasks, jobs>>
    BY Zenon, <1>3 DEF drain_queue, wait_for_task, calls
  <2>2. \E from \in {"drain", "found"} :
           \/ /\ Goes(w, from, "run") /\ private' = [private EXCEPT ![w] = public[w]]
              /\ public' = [public EXCEPT ![w] = private[w]]
           \/ /\ UNCHANGED queues
              /\ Goes(w, from, "none") \/ Goes(w, from, "mark_idle") \/ Goes(w, from, "wait")
    BY Zenon, <1>3 DEF drain_queue, wait_for_task, TakeQueue, Exit
  <2>3. PICK from \in {"drain", "found"} :
           \/ /\ Goes(w, from, "run") /\ private' = [private EXCEPT ![w] = public[w]]
              /\ public' = [public EXCEPT ![w] = private[w]]
           \/ /\ UNCHANGED queues
              /\ Goes(w, from, "none") \/ Goes(w, from, "mark_idle") \/ Goes(w, from, "wait")
    BY Zenon, <2>2
  <2>4. from # "donate"
    BY Zenon, <2>3
  <2> QED
    BY Zenon, <1>1, <1>2, <2>0, <2>1, <2>3, <2>4
<1>4. CASE try_acquire(w)
  <2>1. /\ Goes(w, "wait", "found") \/ Goes(w, "wait", "wait")
        /\ UNCHANGED <<queues, running, tasks, jobs>>
    BY Zenon, <1>4 DEF try_acquire, calls
  <2> QED
    BY Zenon, <1>1, <2>1
<1>5. CASE \/ mark_worker_idle(w) \/ time_out(w) \/ give_up(w) \/ queue_drained(w) \/ abort_exit(w)
  <2>1. \/ Goes(w, "mark_idle", "wait") \/ Goes(w, "wait", "timed_out")
        \/ Goes(w, "timed_out", "none") \/ Goes(w, "run", "drain") \/ Goes(w, "aborted", "none")
    BY Zenon, <1>5 DEF mark_worker_idle, time_out, give_up, queue_drained, abort_exit, Exit
  <2>2. UNCHANGED <<queues, running, tasks, jobs>>
    BY Zenon, <1>5 DEF mark_worker_idle, time_out, give_up, queue_drained, abort_exit, calls
  <2> QED
    BY Zenon, <1>1, <2>1, <2>2
<1>6. CASE balance_work(w)
  <2>1. /\ pc[w] = "run" /\ UNCHANGED <<queues, running, tasks>>
        /\ \/ pc' = [pc EXCEPT ![w] = "pop"] /\ UNCHANGED <<idle_list, jobs>>
           \/ \E v : pc' = [pc EXCEPT ![w] = "donate"] /\ jobs' = [jobs EXCEPT ![w] = v]
    BY Zenon, <1>6, Balance
  <2>2. CASE pc' = [pc EXCEPT ![w] = "pop"] /\ UNCHANGED <<idle_list, jobs>>
    <3>1. Goes(w, "run", "pop")
      BY Zenon, <2>1, <2>2 DEF Goes
    <3> QED
      BY Zenon, <1>1, <2>1, <2>2, <3>1
  <2>3. ASSUME NEW v, pc' = [pc EXCEPT ![w] = "donate"], jobs' = [jobs EXCEPT ![w] = v]
        PROVE  Balanced
    <3>1. jobs[w] = <<>>
      BY Zenon, <2>1 DEF Controlled, Caller
    <3>2. pc'[w] = "donate" /\ \A x \in Workers : x # w => pc'[x] = pc[x]
      BY Zenon, <2>3 DEF Typed
    <3>3. \A x \in Threads : x # w => jobs'[x] = jobs[x]
      BY Zenon, <2>3 DEF Typed
    <3>4. \A x \in Threads : x # w => (DonatingTo(x)' <=> DonatingTo(x))
      BY Zenon, <3>2 DEF DonatingTo
    <3>5. DonatingTo(w)'
      BY Zenon, <3>2 DEF DonatingTo
    <3> QED
      BY Zenon, <2>1, <3>1, <3>3, <3>4, <3>5, NothingMoves
  <2> QED
    BY Zenon, <2>1, <2>2, <2>3
<1>7. CASE pop_task(w)
  <2>1. CASE Goes(w, "pop", "aborted") /\ UNCHANGED <<private, running>>
    <3>1. UNCHANGED <<queues, running, tasks, jobs>>
      BY Zenon, <1>7, <2>1 DEF pop_task, queues, calls
    <3> QED
      BY Zenon, <1>1, <2>1, <3>1
  <2>2. CASE /\ Goes(w, "pop", "task")
             /\ running' = [running EXCEPT ![w] = private[w][Len(private[w])]]
             /\ private' = [private EXCEPT ![w] = SubSeq(@, 1, Len(@) - 1)]
    <3>1. private[w] # <<>> /\ running[w] = Null
      BY Zenon, <2>2 DEF Goes, Controlled, Caller
    <3>2. UNCHANGED <<public, tasks, jobs>>
      BY Zenon, <1>7 DEF pop_task, calls
    <3>3. "pop" # "donate" /\ "task" # "donate"
      BY Zenon
    <3>4. \A x \in Threads : (DonatingTo(x)' <=> DonatingTo(x)) /\ jobs'[x] = jobs[x]
      BY Zenon, <2>2, <3>2, <3>3, DonatesAsBefore
    <3> QED
      BY Zenon, <2>2, <3>1, <3>2, <3>4, TaskPopped
  <2> QED
    BY Zenon, <1>7, <2>1, <2>2 DEF pop_task
<1>8. CASE finish_task(w)
  <2>1. /\ Goes(w, "task", "run") /\ Ran(w) /\ running' = [running EXCEPT ![w] = Null]
        /\ UNCHANGED <<queues, made, dropped, jobs>>
    BY Zenon, <1>8 DEF finish_task, calls
  <2>2. "task" # "donate" /\ "run" # "donate"
    BY Zenon
  <2>3. \A x \in Threads : (DonatingTo(x)' <=> DonatingTo(x)) /\ jobs'[x] = jobs[x]
    BY Zenon, <2>1, <2>2, DonatesAsBefore
  <2> QED
    BY Zenon, <2>1, <2>3, TaskReturned
<1> QED
  BY Zenon, <1>3, <1>4, <1>5, <1>6, <1>7, <1>8 DEF WorkerStep

\* A call that throws destroys its arguments; a task that dies of it has run.
LEMMA CallRefused ==
    ASSUME Typed, Booked, NEW t \in Threads, ~DonatingTo(t), Drop(CallTasks(t)),
           jobs'[t] = <<>>, UNCHANGED <<queues, made>>,
           \A x \in Threads : /\ DonatingTo(x)' <=> DonatingTo(x)
                              /\ x # t => jobs'[x] = jobs[x],
           \/ UNCHANGED <<ran, running>>
           \/ t \in Workers /\ Ran(t) /\ running' = [running EXCEPT ![t] = Null]
    PROVE  Balanced
<1>1. TypeOK /\ Once
  BY Zenon, BookedIs
<1>2. \A u \in Tasks : u \in CallTasks(t) => dropped[u] = 0 /\ ran[u] = 0
  <2> SUFFICES ASSUME NEW u \in Tasks, u \in CallTasks(t) PROVE dropped[u] = 0 /\ ran[u] = 0
    BY Zenon
  <2>1. IsIn("call", t, u) /\ "call" \notin {"ran", "dropped"}
    BY Zenon, PlacesAre DEF InCall
  <2> QED
    BY Zenon, <1>1, <2>1, NotYet
<1>3. /\ dropped' \in [Tasks -> {0, 1}]
      /\ \A u \in Tasks : dropped'[u] > 0 <=> dropped[u] > 0 \/ u \in CallTasks(t)
  <2>1. PICK D : D = CallTasks(t)
    BY Zenon
  <2>2. (\A u \in Tasks : u \in D => dropped[u] = 0) /\ Drop(D)
    BY Zenon, <1>2, <2>1
  <2> QED
    BY Zenon, <1>1, <2>1, <2>2, DroppedOnce
<1>4. /\ ran' \in [Tasks -> {0, 1}]
      /\ \/ UNCHANGED <<ran, running>>
         \/ /\ t \in Workers /\ running' = [running EXCEPT ![t] = Null]
            /\ \A u \in Tasks : ran'[u] > 0 <=> ran[u] > 0 \/ running[t] = u
  BY Zenon, <1>1, RanOnce DEF Booked
<1>5. Arguments' /\ \A x \in Threads : x # t => \A u : InCall(x, u)' <=> InCall(x, u)
  BY Zenon, SameCall, NoNextCall DEF Booked, Arguments
<1>6. \A u : ~InCall(t, u)'
  BY Zenon, NoNextCall
<1>7. Queued'
  BY Zenon DEF Booked, Queued, queues
<1>8. ASSUME NEW u \in Tasks
      PROVE  Proceeds(u)
  <2>1. Located(u) /\ UNCHANGED <<made, private, public>> /\ u # Null
    BY Zenon, TasksAreItems DEF Booked, queues
  <2>2. /\ t \in Spots /\ NoWorker \in Spots /\ "ran" \in Kinds /\ "running" \in Kinds
        /\ "call" \in Kinds /\ "dropped" \in Kinds /\ "running" # "call"
    BY Zenon, PlaceTyped
  <2>3. InCall(t, u) <=> u \in CallTasks(t)
    BY Zenon DEF InCall
  <2>4. ~(t \in Workers /\ running[t] = u /\ u \in CallTasks(t))
    <3>1. ~(IsIn("running", t, u) /\ IsIn("call", t, u))
      BY Zenon, <2>1, <2>2 DEF Located
    <3> QED
      BY Zenon, <2>3, <3>1, PlacesAre
  <2>5. \/ UNCHANGED <<ran, running>>
        \/ /\ t \in Workers /\ running'[t] = Null
           /\ \A x \in Workers : x # t => running'[x] = running[x]
           /\ ran'[u] > 0 <=> ran[u] > 0 \/ running[t] = u
    BY Zenon, <1>4 DEF Typed
  <2>6. CASE u \in CallTasks(t)
    <3>1. Arrives(u, "dropped", NoWorker)
      BY Zenon, <1>3, <1>5, <1>6, <2>1, <2>4, <2>5, <2>6 DEF Arrives
    <3>2. IsIn("call", t, u) /\ ~IsIn("call", t, u)'
      BY Zenon, <1>6, <2>3, <2>6, PlacesAre, NextPlacesAre
    <3>3. IsIn("dropped", NoWorker, u)'
      BY Zenon, <1>3, <2>6, NextPlacesAre
    <3>4. u <= made'
      BY Zenon, <2>1, <2>2, <3>2 DEF Located
    <3> QED
      BY Zenon, <2>1, <2>2, <3>1, <3>2, <3>3, <3>4, ArrivingLocated, Passages
  <2>7. CASE u \notin CallTasks(t) /\ ~UNCHANGED <<ran, running>> /\ running[t] = u
    <3>1. /\ t \in Workers /\ running'[t] = Null /\ ran'[u] > 0
          /\ \A x \in Workers : x # t => running'[x] = running[x]
      BY Zenon, <2>5, <2>7
    <3>2. Arrives(u, "ran", NoWorker)
      BY Zenon, <1>3, <1>5, <1>6, <2>1, <2>3, <2>7, <3>1 DEF Arrives
    <3>3. IsIn("running", t, u) /\ ~IsIn("running", t, u)'
      BY Zenon, <2>1, <2>7, <3>1, PlacesAre, NextPlacesAre
    <3>4. IsIn("ran", NoWorker, u)'
      BY Zenon, <3>1, NextPlacesAre
    <3>5. u <= made'
      BY Zenon, <2>1, <2>2, <3>3 DEF Located
    <3> QED
      BY Zenon, <2>1, <2>2, <3>2, <3>3, <3>4, <3>5, ArrivingLocated, Passages
  <2>8. CASE u \notin CallTasks(t) /\ (UNCHANGED <<ran, running>> \/ running[t] # u)
    <3>1. \A x \in Workers : running'[x] = u <=> running[x] = u
      BY Zenon, <2>1, <2>5, <2>8
    <3>2. ran'[u] > 0 <=> ran[u] > 0
      BY Zenon, <2>5, <2>8
    <3>3. Stays(u)
      BY Zenon, <1>3, <1>5, <1>6, <2>1, <2>3, <2>8, <3>1, <3>2 DEF Stays
    <3> QED
      BY Zenon, <2>1, <3>3, StayingLocated
  <2> QED
    BY Zenon, <2>6, <2>7, <2>8
<1> QED
  BY Zenon, <1>3, <1>4, <1>5, <1>7, <1>8 DEF Booked, Balanced, Proceeds

\* A task makes one call at a time.
LEMMA OneCall ==
    ASSUME Typed, NEW t \in Threads, jobs[t] # <<>>, Len(jobs[t]) <= 1
    PROVE  CallTasks(t) = Range(Head(jobs[t]).tasks)
<1>1. Head(jobs[t]) = jobs[t][1] /\ Len(jobs[t]) \in Nat \ {0} /\ jobs[t] \in Seq(Call)
  BY Zenon, CallTyped DEF Typed
<1>2. Len(jobs[t]) = 1
  <2>1. PICK n : n = Len(jobs[t])
    BY Zenon
  <2>2. n \in Nat \ {0} /\ n <= 1
    BY Zenon, <1>1, <2>1
  <2>3. n = 1
    BY <2>2
  <2> QED
    BY Zenon, <2>1, <2>3
<1>3. DOMAIN jobs[t] = 1 .. 1
  BY Zenon, <1>1, <1>2, Elements
<1>4. DOMAIN jobs[t] = {1}
  BY <1>3
<1> QED
  BY Zenon, <1>1, <1>4 DEF CallTasks

\* A refused call drops its tasks, and keeps the account of all.
LEMMA BookedRefuse ==
    ASSUME Typed, Booked, \A x \in Workers : Controlled(x), NEW t \in Threads,
           enqueue_foreign(t), RefuseForeign(t)
    PROVE  Balanced
<1>1. /\ jobs' = [jobs EXCEPT ![t] = <<>>] /\ UNCHANGED <<queues, made>> /\ jobs[t] # <<>>
  BY Zenon DEF enqueue_foreign, RefuseForeign
<1>2. jobs'[t] = <<>> /\ \A x \in Threads : x # t => jobs'[x] = jobs[x]
  BY Zenon, <1>1 DEF Typed
<1>3. CASE DonatingTo(t)
  <2>1. /\ pc' = [pc EXCEPT ![t] = "aborted"] /\ UNCHANGED <<dropped, ran, running>>
    BY Zenon, <1>3 DEF RefuseForeign, Goes
  <2>2. \A x \in Threads : x # t => (DonatingTo(x)' <=> DonatingTo(x))
    BY Zenon, <2>1 DEF DonatingTo, Typed
  <2> QED
    BY Zenon, <1>1, <1>2, <1>3, <2>1, <2>2, NothingMoves DEF tasks
<1>4. CASE ~DonatingTo(t) /\ Drop(CallTasks(t)) /\ UNCHANGED <<pc, ran, running>>
  <2>1. \A x \in Threads : DonatingTo(x)' <=> DonatingTo(x)
    BY Zenon, <1>4 DEF DonatingTo
  <2> QED
    BY Zenon, <1>1, <1>2, <1>4, <2>1, CallRefused
<1>5. CASE /\ t \in Workers /\ ~DonatingTo(t) /\ Drop(Range(Head(jobs[t]).tasks))
           /\ Goes(t, "task", "aborted") /\ Ran(t) /\ running' = [running EXCEPT ![t] = Null]
  <2>1. Len(jobs[t]) <= 1
    BY Zenon, <1>5 DEF Controlled, Caller, Goes
  <2>2. CallTasks(t) = Range(Head(jobs[t]).tasks)
    BY Zenon, <1>1, <2>1, OneCall
  <2>3. Drop(CallTasks(t))
    BY Zenon, <1>5, <2>2
  <2>4. "task" # "donate" /\ "aborted" # "donate"
    BY Zenon
  <2>5. \A x \in Threads : DonatingTo(x)' <=> DonatingTo(x)
    BY Zenon, <1>5, <2>4, DonatesAsBefore
  <2> QED
    BY Zenon, <1>1, <1>2, <1>5, <2>3, <2>5, CallRefused
<1> QED
  BY Zenon, <1>3, <1>4, <1>5 DEF RefuseForeign

\* Tasks go from an argument of a call, or from a donor's private queue, to the
\* public queue of a worker.
LEMMA Handed ==
    ASSUME Typed, Booked, NEW t \in Threads, NEW w \in Workers, NEW s \in Seq(Items), NoRepeats(s),
           NEW k0 \in {"call", "private"}, UNCHANGED <<running, tasks>>,
           \A u \in Tasks : /\ u \in Range(s) => IsIn(k0, t, u) /\ ~IsIn(k0, t, u)'
                            /\ u \notin Range(s) => (IsIn(k0, t, u)' <=> IsIn(k0, t, u)),
           \A x \in Workers : /\ public'[x] = IF x = w THEN public[w] \o s ELSE public[x]
                              /\ (k0 = "private" /\ x = t) \/ private'[x] = private[x],
           \A x \in Threads : (k0 = "call" /\ x = t) \/ \A u : InCall(x, u)' <=> InCall(x, u)
    PROVE  (\A u \in Tasks : Proceeds(u)) /\ NoRepeats(public'[w])
<1>1. t \in Spots /\ w \in Spots /\ "public" \in Kinds /\ k0 \in Kinds /\ k0 # "public"
  BY Zenon, PlaceTyped
<1>2. public[w] \in Seq(Items) /\ NoRepeats(public[w])
  BY Zenon DEF Typed, Booked, Queued
<1>3. /\ Range(public'[w]) = Range(public[w]) \cup Range(s)
      /\ Range(public[w]) \cap Range(s) \subseteq {Null} => NoRepeats(public'[w])
  <2>1. public'[w] = public[w] \o s
    BY Zenon
  <2> QED
    BY <1>2, <2>1, Concat
<1>4. \A u \in Tasks : Located(u) /\ u # Null
  BY Zenon, TasksAreItems DEF Booked
<1>5. \A u \in Tasks : ~(u \in Range(s) /\ u \in Range(public[w]))
  <2> SUFFICES ASSUME NEW u \in Tasks, u \in Range(s), u \in Range(public[w]) PROVE FALSE
    BY Zenon
  <2>1. IsIn(k0, t, u) /\ IsIn("public", w, u)
    BY Zenon, PlacesAre
  <2> QED
    BY Zenon, <1>1, <1>4, <2>1 DEF Located
<1>6. NoRepeats(public'[w])
  <2>1. Range(s) \subseteq Items
    BY Zenon, Elements
  <2>2. Range(public[w]) \cap Range(s) \subseteq {Null}
    BY Zenon, <1>5, <2>1 DEF Items
  <2> QED
    BY Zenon, <1>3, <2>2
<1>7. ASSUME NEW u \in Tasks
      PROVE  Proceeds(u)
  <2>1. Located(u) /\ UNCHANGED <<made, ran, dropped, running>>
    BY Zenon, <1>4 DEF tasks
  <2>2. CASE u \in Range(s)
    <3>1. IsIn(k0, t, u) /\ ~IsIn(k0, t, u)'
      BY Zenon, <2>2
    <3>2. /\ \A x \in Workers : u \in Range(private'[x]) => u \in Range(private[x])
          /\ \A x \in Threads : InCall(x, u)' => InCall(x, u)
      <4>1. CASE k0 = "private"
        <5>1. ~(t \in Workers /\ u \in Range(private'[t]))
          BY Zenon, <3>1, <4>1, NextPlacesAre
        <5>2. k0 # "call"
          BY Zenon, <4>1
        <5> QED
          BY Zenon, <5>1, <5>2
      <4>2. CASE k0 = "call"
        <5>1. ~InCall(t, u)'
          BY Zenon, <3>1, <4>2, NextPlacesAre
        <5>2. k0 # "private"
          BY Zenon, <4>2
        <5> QED
          BY Zenon, <5>1, <5>2
      <4> QED
        BY Zenon, <4>1, <4>2
    <3>3. \A x \in Workers : u \in Range(public'[x]) => u \in Range(public[x]) \/ w = x
      BY Zenon
    <3>4. Arrives(u, "public", w)
      BY Zenon, <2>1, <3>2, <3>3 DEF Arrives
    <3>5. IsIn("public", w, u)'
      BY Zenon, <1>3, <2>2, NextPlacesAre
    <3>6. u <= made'
      BY Zenon, <1>1, <2>1, <3>1 DEF Located
    <3> QED
      BY Zenon, <1>1, <2>1, <3>1, <3>4, <3>5, <3>6, ArrivingLocated, Passages
  <2>3. CASE u \notin Range(s)
    <3>1. IsIn(k0, t, u)' <=> IsIn(k0, t, u)
      BY Zenon, <2>3
    <3>2. /\ \A x \in Workers : u \in Range(private'[x]) <=> u \in Range(private[x])
          /\ \A x \in Threads : InCall(x, u)' <=> InCall(x, u)
      <4>1. CASE k0 = "private"
        <5>1. t \in Workers => (u \in Range(private'[t]) <=> u \in Range(private[t]))
          BY Zenon, <3>1, <4>1, PlacesAre, NextPlacesAre
        <5>2. k0 # "call"
          BY Zenon, <4>1
        <5> QED
          BY Zenon, <5>1, <5>2
      <4>2. CASE k0 = "call"
        <5>1. InCall(t, u)' <=> InCall(t, u)
          BY Zenon, <3>1, <4>2, PlacesAre, NextPlacesAre
        <5>2. k0 # "private"
          BY Zenon, <4>2
        <5> QED
          BY Zenon, <5>1, <5>2
      <4> QED
        BY Zenon, <4>1, <4>2
    <3>3. \A x \in Workers : u \in Range(public'[x]) <=> u \in Range(public[x])
      BY Zenon, <1>3, <2>3
    <3>4. Stays(u)
      BY Zenon, <2>1, <3>2, <3>3 DEF Stays
    <3> QED
      BY Zenon, <2>1, <3>4, StayingLocated
  <2> QED
    BY Zenon, <2>2, <2>3
<1> QED
  BY Zenon, <1>6, <1>7

\* The arguments of the first call and those of the calls behind it.
LEMMA CallSplit ==
    ASSUME Typed, NEW t \in Threads, jobs[t] # <<>>, ArgumentsApart(t), jobs'[t] = Tail(jobs[t])
    PROVE  /\ NoRepeats(Head(jobs[t]).tasks) /\ ArgumentsApart(t)'
           /\ \A u : u \in CallTasks(t) <=> u \in Range(Head(jobs[t]).tasks) \/ u \in CallTasks(t)'
           /\ \A u \in Tasks : ~(u \in Range(Head(jobs[t]).tasks) /\ u \in CallTasks(t)')
<1> DEFINE c == jobs[t]
           r == Tail(jobs[t])
           n == Len(c)
<1>1. /\ Head(c) = c[1] /\ 1 \in DOMAIN c /\ n \in Nat \ {0} /\ DOMAIN c = 1 .. n
      /\ DOMAIN r = 1 .. n - 1 /\ \A j \in 1 .. n - 1 : r[j] = c[j + 1]
  <2>1. c \in Seq(Call) /\ r \in Seq(Call)
    BY Zenon, CallTyped DEF Typed
  <2> QED
    BY <2>1, CallTyped, Elements
<1> HIDE DEF c, r, n
<1>2. ASSUME NEW j \in DOMAIN r
      PROVE  j + 1 \in DOMAIN c /\ j + 1 # 1 /\ r[j] = c[j + 1]
  BY <1>1, <1>2
<1>3. ASSUME NEW j \in DOMAIN c
      PROVE  j = 1 \/ \E i \in DOMAIN r : r[i] = c[j]
  <2>1. j = 1 \/ (j - 1 \in DOMAIN r /\ (j - 1) + 1 = j)
    BY <1>1, <1>3
  <2> QED
    BY Zenon, <1>2, <2>1
<1>4. \A j, k \in DOMAIN c : /\ NoRepeats(c[j].tasks)
                             /\ j # k => Range(c[j].tasks) \cap Range(c[k].tasks) \subseteq {Null}
  BY Zenon DEF ArgumentsApart, c
<1>5. ArgumentsApart(t)'
  <2>1. \A j, k \in DOMAIN r : j # k => j + 1 # k + 1
    BY <1>1
  <2>2. \A j, k \in DOMAIN r : /\ NoRepeats(r[j].tasks)
                               /\ j # k => Range(r[j].tasks) \cap Range(r[k].tasks) \subseteq {Null}
    BY Zenon, <1>2, <1>4, <2>1
  <2> QED
    BY Zenon, <2>2 DEF ArgumentsApart, r
<1>6. /\ \A u : u \in CallTasks(t) <=> \E j \in DOMAIN c : u \in Range(c[j].tasks)
      /\ \A u : u \in CallTasks(t)' <=> \E j \in DOMAIN r : u \in Range(r[j].tasks)
  BY Zenon DEF CallTasks, c, r
<1>7. \A u : u \in CallTasks(t) <=> u \in Range(c[1].tasks) \/ u \in CallTasks(t)'
  <2>1. 1 \in DOMAIN c
    BY Zenon, <1>1
  <2>2. \A i \in DOMAIN r : \E j \in DOMAIN c : r[i] = c[j]
    BY Zenon, <1>2
  <2>3. \A j \in DOMAIN c : j = 1 \/ \E i \in DOMAIN r : r[i] = c[j]
    BY Zenon, <1>3
  <2> QED
    BY <1>6, <2>1, <2>2, <2>3
<1>8. \A u : u \in Range(c[1].tasks) /\ u \in CallTasks(t)' => u \in {Null}
  <2> SUFFICES ASSUME NEW u, u \in Range(c[1].tasks), NEW j \in DOMAIN r, u \in Range(r[j].tasks)
               PROVE  u \in {Null}
    BY Zenon, <1>6
  <2>1. j + 1 \in DOMAIN c /\ j + 1 # 1 /\ u \in Range(c[j + 1].tasks)
    BY Zenon, <1>2
  <2>2. Range(c[1].tasks) \cap Range(c[j + 1].tasks) \subseteq {Null}
    BY Zenon, <1>1, <1>4, <2>1
  <2> QED
    BY Zenon, <2>1, <2>2
<1>9. NoRepeats(Head(c).tasks) /\ Head(c).tasks = c[1].tasks
  BY Zenon, <1>1, <1>4
<1> QED
  BY Zenon, <1>5, <1>7, <1>8, <1>9, TasksAreItems DEF c

\* The tasks that a donor donates and those that it keeps.
LEMMA DonationSplit ==
    ASSUME Typed, NEW t \in Workers, Donor(t), jobs[t] # <<>>, NoRepeats(private[t]),
           NEW s, s = Head(jobs[t]).tasks, NEW d, d = Donated(t, Len(Tail(jobs[t])))
    PROVE  /\ NoRepeats(s) /\ NoRepeats(d)
           /\ \A u \in Tasks : /\ u \in Range(private[t]) <=> u \in Range(s) \/ u \in Range(d)
                               /\ ~(u \in Range(s) /\ u \in Range(d))
<1> DEFINE q == private[t]
           P == Parts(t)
           L == Len(idle_list[t])
           J == Len(jobs[t])
           k == Done(t)
           left == Len(Tail(jobs[t]))
<1>1. /\ q \in Seq(Items) /\ idle_list[t] \in Seq(Workers) /\ t \in Threads
      /\ jobs[t] \in Seq(Call) /\ Null \in Items /\ L \in Nat /\ Len(q) \in Nat
  BY Zenon, TasksAreItems, Elements DEF Typed, Threads
<1>2. Head(jobs[t]) = jobs[t][1] /\ left = J - 1 /\ J \in Nat \ {0}
  BY Zenon, <1>1, CallTyped
<1>3. J \in 1 .. L /\ k = L - J /\ P = L + 1
  BY Zenon DEF Donor, Done, Parts
<1>4. /\ \A j \in 1 .. J : jobs[t][j].tasks = Slice(q, P, k + j)
      /\ \A i \in 1 .. From(q, P, k + 1) : q[i] = Null
  BY Zenon DEF Donor
<1>5. Donation(t, left) = P - left - 1
  BY Zenon DEF Donation
<1> HIDE DEF q, P, L, J, k, left
<1>6. /\ left \in Nat /\ left < L /\ P - left - 1 = k + 1 /\ k + 1 \in 1 .. P
      /\ P \in Nat \ {0} /\ 1 \in 1 .. J
  BY <1>1, <1>2, <1>3
<1>7. s = Slice(q, P, k + 1)
  BY Zenon, <1>2, <1>4, <1>6
<1>8. PICK a, e, n : a = From(q, P, k + 1) /\ e = To(q, P, k + 1) /\ n = Len(q)
  BY Zenon
<1>9. s \in Seq(Items) /\ IsPart(s, q, a, e)
  BY Zenon, <1>1, <1>6, <1>7, <1>8, SliceIsPart
<1>10. /\ \A x \in Items \ {Null} : x \in Range(d) <=> \E i \in e + 1 .. n : q[i] = x
       /\ NoRepeats(d)
  <2>1. /\ private[t] \in Seq(Items) /\ left < Len(idle_list[t]) /\ d = Donated(t, left)
        /\ e = To(private[t], Parts(t), Donation(t, left)) /\ n = Len(private[t])
    BY Zenon, <1>1, <1>5, <1>6, <1>8 DEF q, L, P, left
  <2> QED
    BY <1>1, <1>6, <2>1, DonatedQueue DEF q
<1>11. NoRepeats(s) /\ \A x : x \in Range(s) <=> \E i \in a + 1 .. e : q[i] = x
  BY <1>1, <1>9, ElementsOfPart, NoRepeatsInPart DEF q
<1>12. a \in Nat /\ e \in Nat /\ n \in Nat /\ a <= e /\ e <= n
  BY Zenon, <1>1, <1>8, <1>9 DEF IsPart
<1>13. /\ \A x : x \in Range(q) <=> \E i \in 1 .. n : q[i] = x
       /\ DOMAIN q = 1 .. n
  BY Zenon, <1>1, <1>8, Elements
<1>14. /\ \A i \in 1 .. n : i \in 1 .. a \/ i \in a + 1 .. e \/ i \in e + 1 .. n
       /\ \A i \in a + 1 .. e : i \in 1 .. n /\ i \notin e + 1 .. n
       /\ \A i \in e + 1 .. n : i \in 1 .. n
  BY <1>12
<1>15. ASSUME NEW u \in Tasks
       PROVE  /\ u \in Range(q) <=> u \in Range(s) \/ u \in Range(d)
              /\ ~(u \in Range(s) /\ u \in Range(d))
  <2>1. u # Null /\ u \in Items \ {Null}
    BY Zenon, TasksAreItems
  <2>2. u \in Range(d) <=> \E i \in e + 1 .. n : q[i] = u
    BY Zenon, <1>10, <2>1
  <2>3. \A i \in 1 .. a : q[i] # u
    BY Zenon, <1>4, <1>8, <2>1
  <2>4. u \in Range(q) <=> u \in Range(s) \/ u \in Range(d)
    BY Zenon, <1>11, <1>13, <1>14, <2>2, <2>3
  <2>5. \A i, j \in 1 .. n : q[i] = u /\ q[j] = u => i = j
    BY Zenon, <1>13, <2>1 DEF NoRepeats, q
  <2>6. ~(u \in Range(s) /\ u \in Range(d))
    BY Zenon, <1>11, <1>14, <2>2, <2>5
  <2> QED
    BY Zenon, <2>4, <2>6
<1> QED
  BY Zenon, <1>10, <1>11, <1>15 DEF q

\* A call that is not refused.
LEMMA BookedAccept ==
    ASSUME Typed, Booked, Donors, \A x \in Workers : Controlled(x), NEW t \in Threads,
           enqueue_foreign(t), AcceptForeign(t)
    PROVE  Balanced
<1>0. PICK w, s, rest : Accepted(t, w, s, rest)
  BY Zenon, Accept
<1>1. /\ w \in Workers /\ s \in Seq(Items) /\ s = Head(jobs[t]).tasks /\ rest = Tail(jobs[t])
      /\ jobs[t] # <<>> /\ jobs'[t] = rest /\ \A x \in Threads : x # t => jobs'[x] = jobs[x]
      /\ UNCHANGED <<running, tasks>> /\ Workers \subseteq Threads
      /\ \A x \in Workers : public'[x] = IF x = w THEN public[w] \o s ELSE public[x]
      /\ \A x \in Workers : x # t \/ ~DonatingTo(t) => private'[x] = private[x]
      /\ DonatingTo(t) => t \in Workers /\ private'[t] = Donated(t, Len(rest))
  BY Zenon, <1>0, PlaceTyped DEF Accepted, DonatingTo
<1>2. \A x \in Workers : pc'[x] = IF x = w /\ m_idle[w] THEN "drain"
                            ELSE IF x = t /\ DonatingTo(t) /\ rest = <<>> THEN "pop" ELSE pc[x]
  BY Zenon, <1>0 DEF Accepted
<1>3. \A x \in Threads : x # t \/ ~DonatingTo(t) \/ rest # <<>> => (DonatingTo(x)' <=> DonatingTo(x))
  <2>1. \A x \in Workers : m_idle[x] <=> pc[x] = "none"
    BY Zenon DEF Controlled, Active
  <2>2. \A x \in Workers : x # t \/ ~DonatingTo(t) \/ rest # <<>> =>
                           (pc'[x] = "donate" <=> pc[x] = "donate")
    BY Zenon, <1>2, <2>1
  <2> QED
    BY Zenon, <2>2 DEF DonatingTo
<1>4. ran' \in [Tasks -> {0, 1}] /\ dropped' \in [Tasks -> {0, 1}]
  BY Zenon, <1>1 DEF Booked, tasks
<1>5. \A x \in Threads : x # t => /\ \A u : InCall(x, u)' <=> InCall(x, u)
                                  /\ ~DonatingTo(x)' => ArgumentsApart(x)'
  BY Zenon, <1>1, <1>3, SameCall DEF Booked, Arguments
<1>6. CASE ~DonatingTo(t)
  <2>1. /\ NoRepeats(s) /\ ArgumentsApart(t)'
        /\ \A u : u \in CallTasks(t) <=> u \in Range(s) \/ u \in CallTasks(t)'
        /\ \A u \in Tasks : ~(u \in Range(s) /\ u \in CallTasks(t)')
    <3>1. ArgumentsApart(t)
      BY Zenon, <1>6 DEF Booked, Arguments
    <3> QED
      BY Zenon, <1>1, <3>1, CallSplit
  <2>2. \A u \in Tasks : /\ u \in Range(s) => InCall(t, u) /\ ~InCall(t, u)'
                         /\ u \notin Range(s) => (InCall(t, u)' <=> InCall(t, u))
    BY Zenon, <1>3, <1>6, <2>1 DEF InCall
  <2>3. \A u \in Tasks : /\ u \in Range(s) => IsIn("call", t, u) /\ ~IsIn("call", t, u)'
                         /\ u \notin Range(s) => (IsIn("call", t, u)' <=> IsIn("call", t, u))
    BY Zenon, <2>2, PlacesAre, NextPlacesAre
  <2>4. \A x \in Threads : x = t \/ \A u : InCall(x, u)' <=> InCall(x, u)
    BY Zenon, <1>5
  <2>5. \A x \in Workers : private'[x] = private[x]
    BY Zenon, <1>1, <1>6
  <2>6. (\A u \in Tasks : Proceeds(u)) /\ NoRepeats(public'[w])
    <3>1. "call" \in {"call", "private"}
      BY Zenon
    <3> QED
      BY Zenon, <1>1, <2>1, <2>3, <2>4, <2>5, <3>1, Handed
  <2>7. Queued'
    BY Zenon, <1>1, <2>5, <2>6 DEF Booked, Queued
  <2>8. Arguments'
    BY Zenon, <1>5, <2>1 DEF Arguments
  <2> QED
    BY Zenon, <1>4, <2>6, <2>7, <2>8 DEF Booked, Balanced, Proceeds
<1>7. CASE DonatingTo(t)
  <2>1. PICK d : d = Donated(t, Len(Tail(jobs[t])))
    BY Zenon
  <2>2. t \in Workers /\ Donor(t) /\ NoRepeats(private[t]) /\ private'[t] = d
    BY Zenon, <1>1, <1>7, <2>1 DEF Donors, Booked, Queued
  <2>3. /\ NoRepeats(s) /\ NoRepeats(d)
        /\ \A u \in Tasks : /\ u \in Range(private[t]) <=> u \in Range(s) \/ u \in Range(d)
                            /\ ~(u \in Range(s) /\ u \in Range(d))
    BY <1>1, <2>1, <2>2, DonationSplit
  <2>4. \A u \in Tasks :
            /\ u \in Range(s) => IsIn("private", t, u) /\ ~IsIn("private", t, u)'
            /\ u \notin Range(s) => (IsIn("private", t, u)' <=> IsIn("private", t, u))
    BY Zenon, <2>2, <2>3, PlacesAre, NextPlacesAre
  <2>5. (\A u : InCall(t, u)' <=> InCall(t, u)) /\ (~DonatingTo(t)' => ArgumentsApart(t)')
    <3>1. CASE rest # <<>>
      BY Zenon, <1>1, <1>3, <1>7, <3>1 DEF InCall
    <3>2. CASE rest = <<>>
      BY Zenon, <1>1, <1>7, <3>2, NoNextCall DEF InCall
    <3> QED
      BY Zenon, <3>1, <3>2
  <2>6. \A x \in Threads : \A u : InCall(x, u)' <=> InCall(x, u)
    BY Zenon, <1>5, <2>5
  <2>7. \A x \in Workers : x = t \/ private'[x] = private[x]
    BY Zenon, <1>1
  <2>8. (\A u \in Tasks : Proceeds(u)) /\ NoRepeats(public'[w])
    <3>1. "private" \in {"call", "private"}
      BY Zenon
    <3> QED
      BY Zenon, <1>1, <2>3, <2>4, <2>6, <2>7, <3>1, Handed
  <2>9. Queued'
    BY Zenon, <1>1, <2>2, <2>3, <2>7, <2>8 DEF Booked, Queued
  <2>10. Arguments'
    BY Zenon, <1>5, <2>5 DEF Arguments
  <2> QED
    BY Zenon, <1>4, <2>8, <2>9, <2>10 DEF Booked, Balanced, Proceeds
<1> QED
  BY Zenon, <1>6, <1>7

\* A call, whatever becomes of it, and the release of a semaphore.
LEMMA BookedCalls ==
    ASSUME Typed, Booked, Donors, \A x \in Workers : Controlled(x), NEW t \in Threads,
           enqueue_foreign(t) \/ release_semaphore(t)
    PROVE  Balanced
<1>1. CASE enqueue_foreign(t)
  <2>1. RefuseForeign(t) \/ AcceptForeign(t)
    BY Zenon, <1>1 DEF enqueue_foreign
  <2> QED
    BY Zenon, <1>1, <2>1, BookedRefuse, BookedAccept
<1>2. CASE release_semaphore(t)
  <2>1. UNCHANGED <<queues, running, tasks, pc, jobs>>
    BY Zenon, <1>2 DEF release_semaphore
  <2>2. \A x \in Threads : (DonatingTo(x)' <=> DonatingTo(x)) /\ jobs'[x] = jobs[x]
    BY Zenon, <2>1 DEF DonatingTo
  <2> QED
    BY Zenon, <2>1, <2>2, NothingMoves
<1> QED
  BY Zenon, <1>1, <1>2

\* The tasks that an enqueuer makes are the next ones, and are nowhere yet.
LEMMA NewTasks ==
    ASSUME Typed, Booked, NEW n \in Nat, Make(n)
    PROVE  /\ NextTasks(n) \in Seq(Items) /\ NoRepeats(NextTasks(n)) /\ Len(NextTasks(n)) = n
           /\ \A u \in Tasks : /\ u \in Range(NextTasks(n)) => u <= made' /\ ~(u <= made)
                               /\ u \notin Range(NextTasks(n)) => (u <= made' <=> u <= made)
<1>1. TypeOK
  BY Zenon, BookedIs
<1>2. made \in Nat /\ made + n <= MaxTasks /\ made' = made + n /\ Tasks \subseteq Nat
  BY Zenon, <1>1, Types, TasksAreItems DEF Make
<1>3. /\ NextTasks(n) \in Seq(Items) /\ NoRepeats(NextTasks(n)) /\ Len(NextTasks(n)) = n
      /\ \A u : u \in Range(NextTasks(n)) <=> u \in made + 1 .. made + n
  BY Zenon, <1>1, <1>2, NextTasksTyped
<1>4. ASSUME NEW u \in Tasks
      PROVE  /\ u \in made + 1 .. made + n => u <= made' /\ ~(u <= made)
             /\ u \notin made + 1 .. made + n => (u <= made' <=> u <= made)
  BY <1>2, <1>4
<1> QED
  BY Zenon, <1>3, <1>4

\* New tasks are the arguments of calls that a thread is going to make.
LEMMA TasksCalled ==
    ASSUME Typed, Booked, NEW x \in Threads, NEW n \in Nat, Make(n), jobs[x] = <<>>,
           ~DonatingTo(x), UNCHANGED <<queues, running, ran, dropped, pc>>,
           \A y \in Threads : y # x => jobs'[y] = jobs[y],
           \A u \in Tasks : u \in CallTasks(x)' <=> u \in Range(NextTasks(n)), ArgumentsApart(x)'
    PROVE  Balanced
<1>1. \A y \in Threads : DonatingTo(y)' <=> DonatingTo(y)
  BY Zenon DEF DonatingTo
<1>2. Arguments' /\ \A y \in Threads : y # x => \A u : InCall(y, u)' <=> InCall(y, u)
  BY Zenon, <1>1, SameCall DEF Booked, Arguments
<1>3. \A u \in Tasks : ~InCall(x, u) /\ (InCall(x, u)' <=> u \in Range(NextTasks(n)))
  BY Zenon, <1>1, NoCall DEF InCall
<1>4. Queued' /\ ran' \in [Tasks -> {0, 1}] /\ dropped' \in [Tasks -> {0, 1}]
  BY Zenon DEF Booked, Queued, queues
<1>5. ASSUME NEW u \in Tasks
      PROVE  Proceeds(u)
  <2>1. Located(u) /\ UNCHANGED <<private, public, running, ran, dropped>>
    BY Zenon DEF Booked, queues
  <2>2. x \in Spots /\ "call" \in Kinds
    BY Zenon, PlaceTyped
  <2>3. CASE u \in Range(NextTasks(n))
    <3>1. u <= made' /\ ~(u <= made)
      BY Zenon, <2>3, NewTasks
    <3>2. Arrives(u, "call", x)
      BY Zenon, <1>2, <2>1 DEF Arrives
    <3>3. IsIn("call", x, u)'
      BY Zenon, <1>3, <2>3, NextPlacesAre
    <3> QED
      BY Zenon, <2>1, <2>2, <3>1, <3>2, <3>3, ArrivingLocated, Passages
  <2>4. CASE u \notin Range(NextTasks(n))
    <3>1. u <= made' <=> u <= made
      BY Zenon, <2>4, NewTasks
    <3>2. Stays(u)
      BY Zenon, <1>2, <1>3, <2>1, <2>4 DEF Stays
    <3> QED
      BY Zenon, <2>1, <3>1, <3>2, StayingLocated
  <2> QED
    BY Zenon, <2>3, <2>4
<1> QED
  BY Zenon, <1>2, <1>4, <1>5 DEF Booked, Balanced, Proceeds

\* A single call with the next tasks.
LEMMA SingleCall ==
    ASSUME NEW x, NEW w, NEW s, NoRepeats(s), jobs'[x] = <<[to |-> w, tasks |-> s]>>
    PROVE  ArgumentsApart(x)' /\ \A u \in Tasks : u \in CallTasks(x)' <=> u \in Range(s)
<1>1. DOMAIN jobs'[x] = {1} /\ jobs'[x][1].tasks = s
  OBVIOUS
<1>2. ArgumentsApart(x)'
  BY Zenon, <1>1 DEF ArgumentsApart
<1>3. \A u : u \in CallTasks(x)' <=> \E j \in DOMAIN jobs'[x] : u \in Range(jobs'[x][j].tasks)
  BY Zenon DEF CallTasks
<1> QED
  BY Zenon, <1>1, <1>2, <1>3

\* A span that is dealt to all workers: every task goes to one of them.
LEMMA SpanDealt ==
    ASSUME NEW x, NEW s \in Seq(Items), NoRepeats(s), NEW all \in Seq(Workers), Len(all) = Size,
           jobs'[x] = Deal(s, all, Size)
    PROVE  ArgumentsApart(x)' /\ \A u \in Tasks : u \in CallTasks(x)' <=> u \in Range(s)
<1> DEFINE d == Deal(s, all, Size)
           n == Len(s)
<1>1. /\ d \in Seq(Call) /\ Len(d) = Size /\ n \in Nat
      /\ \A j \in 1 .. Size : d[j].tasks = Slice(s, Size, j)
  <2>1. Len(all) <= Size
    BY SizeIsPositive
  <2> QED
    BY <2>1, SizeIsPositive, DealTyped, Elements
<1>2. DOMAIN d = 1 .. Size
  BY Zenon, <1>1, Elements
<1> HIDE DEF d, n
<1>3. \A j \in 1 .. Size : /\ Slice(s, Size, j) \in Seq(Items)
                           /\ IsPart(Slice(s, Size, j), s, From(s, Size, j), To(s, Size, j))
  BY Zenon, SizeIsPositive, SliceIsPart
<1>4. \A j \in 1 .. Size : NoRepeats(Slice(s, Size, j))
  BY Zenon, <1>3, NoRepeatsInPart
<1>5. \A j, k \in 1 .. Size : j # k =>
          Range(Slice(s, Size, j)) \cap Range(Slice(s, Size, k)) \subseteq {Null}
  BY Zenon, SizeIsPositive, SlicesApart
<1>6. jobs'[x] = d
  BY Zenon DEF d
<1>7. ArgumentsApart(x)'
  <2>1. \A j, k \in DOMAIN d : /\ NoRepeats(d[j].tasks)
                               /\ j # k => Range(d[j].tasks) \cap Range(d[k].tasks) \subseteq {Null}
    BY Zenon, <1>1, <1>2, <1>4, <1>5
  <2> QED
    BY Zenon, <1>6, <2>1 DEF ArgumentsApart
<1>8. \A u : u \in CallTasks(x)' <=> \E j \in 1 .. Size : u \in Range(Slice(s, Size, j))
  <2>1. \A u : u \in CallTasks(x)' <=> \E j \in DOMAIN d : u \in Range(d[j].tasks)
    BY Zenon, <1>6 DEF CallTasks
  <2> QED
    BY Zenon, <1>1, <1>2, <2>1
<1>9. \A u : u \in Range(s) <=> \E i \in 1 .. n : s[i] = u
  BY Zenon, Elements DEF n
<1>10. \A j \in 1 .. Size : \A u :
          u \in Range(Slice(s, Size, j)) <=> \E i \in From(s, Size, j) + 1 .. To(s, Size, j) : s[i] = u
  <2> SUFFICES ASSUME NEW j \in 1 .. Size
               PROVE  \A u : u \in Range(Slice(s, Size, j)) <=>
                             \E i \in From(s, Size, j) + 1 .. To(s, Size, j) : s[i] = u
    BY Zenon
  <2>1. PICK a, b, r : a = From(s, Size, j) /\ b = To(s, Size, j) /\ r = Slice(s, Size, j)
    BY Zenon
  <2>2. r \in Seq(Items) /\ IsPart(r, s, a, b)
    BY Zenon, <1>3, <2>1
  <2>3. \A u : u \in Range(r) <=> \E i \in a + 1 .. b : s[i] = u
    BY <2>2, ElementsOfPart
  <2> QED
    BY Zenon, <2>1, <2>3
<1>11. \A j \in 1 .. Size : \A i \in From(s, Size, j) + 1 .. To(s, Size, j) : i \in 1 .. n
  <2> SUFFICES ASSUME NEW j \in 1 .. Size, NEW i \in From(s, Size, j) + 1 .. To(s, Size, j)
               PROVE  i \in 1 .. n
    BY Zenon
  <2>1. PICK a, b : a = From(s, Size, j) /\ b = To(s, Size, j)
    BY Zenon
  <2>2. a \in Nat /\ b \in Nat /\ b <= n /\ i \in a + 1 .. b
    BY Zenon, <1>3, <2>1 DEF IsPart, n
  <2> QED
    BY <1>1, <2>2
<1>12. \A i \in 1 .. n : \E j \in 1 .. Size : i \in From(s, Size, j) + 1 .. To(s, Size, j)
  <2> SUFFICES ASSUME NEW i \in 1 .. n
               PROVE  \E j \in 1 .. Size : i \in From(s, Size, j) + 1 .. To(s, Size, j)
    BY Zenon
  <2>1. PICK j \in 1 .. Size : i \in SliceBegin(n, Size, j) + 1 ..
                                     SliceBegin(n, Size, j) + SliceLength(n, Size, j)
    BY Zenon, <1>1, SizeIsPositive, SlicesHaveAll
  <2>2. SliceBegin(n, Size, j + 1) = SliceBegin(n, Size, j) + SliceLength(n, Size, j)
    BY Zenon, <1>1, SizeIsPositive, SlicesAdjoin
  <2> QED
    BY Zenon, <2>1, <2>2 DEF From, To, n
<1>13. \A u : u \in CallTasks(x)' <=> u \in Range(s)
  <2>1. ASSUME NEW u, u \in CallTasks(x)'
        PROVE  u \in Range(s)
    <3>1. PICK j \in 1 .. Size : u \in Range(Slice(s, Size, j))
      BY Zenon, <1>8, <2>1
    <3>2. PICK i \in From(s, Size, j) + 1 .. To(s, Size, j) : s[i] = u
      BY Zenon, <1>10, <3>1
    <3> QED
      BY Zenon, <1>9, <1>11, <3>2
  <2>2. ASSUME NEW u, u \in Range(s)
        PROVE  u \in CallTasks(x)'
    <3>1. PICK i \in 1 .. n : s[i] = u
      BY Zenon, <1>9, <2>2
    <3>2. PICK j \in 1 .. Size : i \in From(s, Size, j) + 1 .. To(s, Size, j)
      BY Zenon, <1>12
    <3>3. u \in Range(Slice(s, Size, j))
      BY Zenon, <1>10, <3>1, <3>2
    <3> QED
      BY Zenon, <1>8, <3>3
  <2> QED
    BY Zenon, <2>1, <2>2
<1> QED
  BY Zenon, <1>7, <1>13

\* A task enqueues to the worker that it runs on.
LEMMA BookedLocal ==
    ASSUME Typed, Booked, NEW w \in Workers, NEW n \in Nat, pc[w] = "task", Make(n),
           enqueue_local(w, n), UNCHANGED public
    PROVE  Balanced
<1> DEFINE s == NextTasks(n)
<1>1. /\ UNCHANGED jobs /\ \A x \in Threads : DonatingTo(x)' <=> DonatingTo(x)
  <2>1. UNCHANGED jobs /\ (UNCHANGED pc \/ Goes(w, "task", "aborted"))
    BY Zenon DEF enqueue_local
  <2>2. "task" # "donate" /\ "aborted" # "donate"
    BY Zenon
  <2>3. CASE UNCHANGED pc
    BY Zenon, <2>1, <2>3 DEF DonatingTo
  <2> QED
    BY Zenon, <2>1, <2>2, <2>3, DonatesAsBefore
<1>2. Arguments' /\ \A x \in Threads : \A u : InCall(x, u)' <=> InCall(x, u)
  BY Zenon, <1>1, SameCall DEF Booked, Arguments
<1>3. /\ s \in Seq(Items) /\ NoRepeats(s)
      /\ \A u \in Tasks : /\ u \in Range(s) => u <= made' /\ ~(u <= made)
                          /\ u \notin Range(s) => (u <= made' <=> u <= made)
  BY Zenon, NewTasks
<1>4. TypeOK /\ Once /\ w \in Spots /\ NoWorker \in Spots /\ Workers \subseteq Spots
      /\ {"private", "public", "running", "call", "ran", "dropped"} = Kinds
  BY Zenon, BookedIs, PlaceTyped
<1>5. \A u \in Tasks : Located(u) /\ u # Null
  BY Zenon, TasksAreItems DEF Booked
<1>6. CASE private' = [private EXCEPT ![w] = @ \o s] /\ UNCHANGED <<dropped, ran, running>>
  <2>1. private'[w] = private[w] \o s /\ \A x \in Workers : x # w => private'[x] = private[x]
    BY Zenon, <1>6 DEF Typed
  <2>2. private[w] \in Seq(Items) /\ NoRepeats(private[w]) /\ Range(s) \subseteq Items
    BY Zenon, <1>3, Elements DEF Typed, Booked, Queued
  <2>3. /\ Range(private'[w]) = Range(private[w]) \cup Range(s)
        /\ Range(private[w]) \cap Range(s) \subseteq {Null} => NoRepeats(private'[w])
    BY <1>3, <2>1, <2>2, Concat
  <2>4. \A u \in Tasks : ~(u \in Range(s) /\ u \in Range(private[w]))
    <3> SUFFICES ASSUME NEW u \in Tasks, u \in Range(s), u \in Range(private[w]) PROVE FALSE
      BY Zenon
    <3>1. IsIn("private", w, u) /\ "private" \in Kinds
      BY Zenon, <1>4, PlacesAre
    <3>2. u <= made
      BY Zenon, <1>4, <1>5, <3>1 DEF Located
    <3> QED
      BY Zenon, <1>3, <3>2
  <2>5. Queued'
    <3>1. Range(private[w]) \cap Range(s) \subseteq {Null}
      BY Zenon, <2>2, <2>4 DEF Items
    <3> QED
      BY Zenon, <2>1, <2>3, <3>1 DEF Booked, Queued
  <2>6. ASSUME NEW u \in Tasks
        PROVE  Proceeds(u)
    <3>1. CASE u \in Range(s)
      <4>1. Arrives(u, "private", w)
        BY Zenon, <1>2, <1>6, <2>1 DEF Arrives
      <4>2. IsIn("private", w, u)' /\ u <= made' /\ ~(u <= made)
        BY Zenon, <1>3, <2>3, <3>1, NextPlacesAre
      <4>3. "private" \in Kinds
        BY Zenon, <1>4
      <4> QED
        BY Zenon, <1>4, <1>5, <4>1, <4>2, <4>3, ArrivingLocated, Passages
    <3>2. CASE u \notin Range(s)
      <4>1. Stays(u)
        BY Zenon, <1>2, <1>6, <2>1, <2>3, <3>2 DEF Stays
      <4> QED
        BY Zenon, <1>3, <1>5, <3>2, <4>1, StayingLocated
    <3> QED
      BY Zenon, <3>1, <3>2
  <2> QED
    BY Zenon, <1>2, <1>6, <2>5, <2>6 DEF Booked, Balanced, Proceeds
<1>7. CASE /\ Drop(Range(s)) /\ UNCHANGED private
           /\ \/ UNCHANGED <<ran, running>>
              \/ Ran(w) /\ running' = [running EXCEPT ![w] = Null]
  <2>1. \A u \in Tasks : u \in Range(s) => dropped[u] = 0
    <3> SUFFICES ASSUME NEW u \in Tasks, u \in Range(s), dropped[u] # 0 PROVE FALSE
      BY Zenon
    <3>1. dropped[u] > 0
      BY DEF Booked
    <3>2. IsIn("dropped", NoWorker, u) /\ "dropped" \in Kinds
      BY Zenon, <1>4, <3>1, PlacesAre
    <3>3. u <= made
      BY Zenon, <1>4, <1>5, <3>2 DEF Located
    <3> QED
      BY Zenon, <1>3, <3>3
  <2>2. /\ dropped' \in [Tasks -> {0, 1}]
        /\ \A u \in Tasks : dropped'[u] > 0 <=> dropped[u] > 0 \/ u \in Range(s)
    <3>1. PICK D : D = Range(s)
      BY Zenon
    <3>2. (\A u \in Tasks : u \in D => dropped[u] = 0) /\ Drop(D)
      BY Zenon, <1>7, <2>1, <3>1
    <3> QED
      BY Zenon, <1>4, <3>1, <3>2, DroppedOnce
  <2>3. /\ ran' \in [Tasks -> {0, 1}]
        /\ \/ UNCHANGED <<ran, running>>
           \/ /\ running' = [running EXCEPT ![w] = Null]
              /\ \A u \in Tasks : ran'[u] > 0 <=> ran[u] > 0 \/ running[w] = u
    BY Zenon, <1>4, <1>7, RanOnce DEF Booked
  <2>4. Queued'
    BY Zenon, <1>7 DEF Booked, Queued
  <2>5. ASSUME NEW u \in Tasks
        PROVE  Proceeds(u)
    <3>1. UNCHANGED <<private, public>>
      BY Zenon, <1>7
    <3>2. /\ "ran" \in Kinds /\ "running" \in Kinds /\ "dropped" \in Kinds
      BY Zenon, <1>4
    <3>3. \/ UNCHANGED <<ran, running>>
          \/ /\ running'[w] = Null
             /\ \A x \in Workers : x # w => running'[x] = running[x]
             /\ ran'[u] > 0 <=> ran[u] > 0 \/ running[w] = u
      BY Zenon, <2>3 DEF Typed
    <3>4. CASE u \in Range(s)
      <4>1. u <= made' /\ ~(u <= made)
        BY Zenon, <1>3, <3>4
      <4>2. running[w] # u
        <5>1. ~IsIn("running", w, u)
          BY Zenon, <1>4, <1>5, <3>2, <4>1 DEF Located
        <5> QED
          BY Zenon, <5>1, PlacesAre
      <4>3. Arrives(u, "dropped", NoWorker)
        BY Zenon, <1>2, <1>5, <3>1, <3>3, <4>2 DEF Arrives
      <4>4. IsIn("dropped", NoWorker, u)'
        BY Zenon, <2>2, <3>4, NextPlacesAre
      <4> QED
        BY Zenon, <1>4, <1>5, <3>2, <4>1, <4>3, <4>4, ArrivingLocated, Passages
    <3>5. CASE u \notin Range(s) /\ ~UNCHANGED <<ran, running>> /\ running[w] = u
      <4>1. /\ running'[w] = Null /\ ran'[u] > 0 /\ u # Null
            /\ \A x \in Workers : x # w => running'[x] = running[x]
        BY Zenon, <1>5, <3>3, <3>5
      <4>2. dropped'[u] > 0 <=> dropped[u] > 0
        BY Zenon, <2>2, <3>5
      <4>3. Arrives(u, "ran", NoWorker)
        BY Zenon, <1>2, <3>1, <4>1, <4>2 DEF Arrives
      <4>4. IsIn("running", w, u) /\ ~IsIn("running", w, u)'
        BY Zenon, <3>5, <4>1, PlacesAre, NextPlacesAre
      <4>5. IsIn("ran", NoWorker, u)'
        BY Zenon, <4>1, NextPlacesAre
      <4>6. u <= made'
        BY Zenon, <1>3, <1>4, <1>5, <3>2, <3>5, <4>4 DEF Located
      <4> QED
        BY Zenon, <1>4, <1>5, <3>2, <4>3, <4>4, <4>5, <4>6, ArrivingLocated, Passages
    <3>6. CASE u \notin Range(s) /\ (UNCHANGED <<ran, running>> \/ running[w] # u)
      <4>1. \A x \in Workers : running'[x] = u <=> running[x] = u
        BY Zenon, <1>5, <3>3, <3>6
      <4>2. ran'[u] > 0 <=> ran[u] > 0
        BY Zenon, <3>3, <3>6
      <4>3. dropped'[u] > 0 <=> dropped[u] > 0
        BY Zenon, <2>2, <3>6
      <4>4. Stays(u)
        BY Zenon, <1>2, <3>1, <4>1, <4>2, <4>3 DEF Stays
      <4> QED
        BY Zenon, <1>3, <1>5, <3>6, <4>4, StayingLocated
    <3> QED
      BY Zenon, <3>4, <3>5, <3>6
  <2> QED
    BY Zenon, <1>2, <2>2, <2>3, <2>4, <2>5 DEF Booked, Balanced, Proceeds
<1> QED
  BY Zenon, <1>6, <1>7 DEF enqueue_local

\* enqueue, by a thread of no pool or by a task.
LEMMA BookedEnqueue ==
    ASSUME Typed, Booked, EnqueueCall
    PROVE  Balanced
<1>0. jobs \in [Threads -> Seq(Call)] /\ Workers \subseteq Threads /\ Clients \subseteq Threads
  BY Zenon DEF Typed, Threads
<1>1. ASSUME NEW x \in Threads, NEW w, jobs[x] = <<>>, ~DonatingTo(x), Make(1),
             UNCHANGED <<queues, running, ran, dropped, pc>>,
             jobs' = [jobs EXCEPT ![x] = <<[to |-> w, tasks |-> NextTasks(1)]>>]
      PROVE  Balanced
  <2>1. /\ jobs'[x] = <<[to |-> w, tasks |-> NextTasks(1)]>>
        /\ \A y \in Threads : y # x => jobs'[y] = jobs[y]
    BY Zenon, <1>0, <1>1
  <2>2. 1 \in Nat
    BY Zenon
  <2>3. NoRepeats(NextTasks(1))
    BY Zenon, <1>1, <2>2, NewTasks
  <2>4. /\ ArgumentsApart(x)'
        /\ \A u \in Tasks : u \in CallTasks(x)' <=> u \in Range(NextTasks(1))
    BY Zenon, <2>1, <2>3, SingleCall
  <2> QED
    BY Zenon, <1>1, <2>1, <2>2, <2>4, TasksCalled
<1>2. ASSUME NEW c \in Clients, NEW p \in Pools, client_enqueue(c, p)
      PROVE  Balanced
  <2>1. /\ jobs[c] = <<>> /\ Make(1) /\ UNCHANGED <<queues, running, ran, dropped, pc>>
        /\ \E w : jobs' = [jobs EXCEPT ![c] = <<[to |-> w, tasks |-> NextTasks(1)]>>]
    BY Zenon, <1>2 DEF client_enqueue
  <2>2. c \in Threads /\ ~DonatingTo(c)
    BY Zenon, <1>0, ClientsAreNoWorkers DEF DonatingTo
  <2> QED
    BY Zenon, <1>1, <2>1, <2>2
<1>3. ASSUME NEW c \in Clients, NEW p \in Pools, NEW n \in 1 .. MaxTasks, client_bulk_enqueue(c, p, n)
      PROVE  Balanced
  <2> DEFINE all == [j \in 1 .. Size |-> <<p, j - 1>>]
  <2>1. /\ Make(n) /\ jobs' = [jobs EXCEPT ![c] = Deal(NextTasks(n), all, Size)]
        /\ UNCHANGED <<queues, running, ran, dropped, pc>> /\ jobs[c] = <<>>
    BY Zenon, <1>3 DEF client_bulk_enqueue
  <2>2. c \in Threads /\ ~DonatingTo(c) /\ n \in Nat
    BY <1>0, ClientsAreNoWorkers DEF DonatingTo
  <2>3. all \in Seq(Workers) /\ Len(all) = Size
    <3>1. \A j \in 1 .. Size : <<p, j - 1>> \in Workers
      BY SizeIsPositive, WorkerIsPair
    <3> QED
      BY <3>1, SizeIsPositive
  <2> HIDE DEF all
  <2>4. NextTasks(n) \in Seq(Items) /\ NoRepeats(NextTasks(n))
    BY Zenon, <2>1, <2>2, NewTasks
  <2>5. /\ jobs'[c] = Deal(NextTasks(n), all, Size)
        /\ \A y \in Threads : y # c => jobs'[y] = jobs[y]
    BY Zenon, <1>0, <2>1, <2>2
  <2>6. /\ ArgumentsApart(c)'
        /\ \A u \in Tasks : u \in CallTasks(c)' <=> u \in Range(NextTasks(n))
    BY Zenon, <2>3, <2>4, <2>5, SpanDealt
  <2> QED
    BY Zenon, <2>1, <2>2, <2>5, <2>6, TasksCalled
<1>4. ASSUME NEW w \in Workers, NEW p \in Pools, worker_enqueue(w, p)
      PROVE  Balanced
  <2>1. /\ pc[w] = "task" /\ jobs[w] = <<>> /\ Make(1) /\ UNCHANGED public
        /\ \/ enqueue_local(w, 1)
           \/ /\ \E x : jobs' = [jobs EXCEPT ![w] = <<[to |-> x, tasks |-> NextTasks(1)]>>]
              /\ UNCHANGED <<private, dropped, ran, running, pc>>
    BY Zenon, <1>4 DEF worker_enqueue
  <2>2. w \in Threads /\ ~DonatingTo(w) /\ 1 \in Nat
    BY Zenon, <1>0, <2>1 DEF DonatingTo
  <2>3. CASE enqueue_local(w, 1)
    BY Zenon, <2>1, <2>2, <2>3, BookedLocal
  <2>4. CASE /\ \E x : jobs' = [jobs EXCEPT ![w] = <<[to |-> x, tasks |-> NextTasks(1)]>>]
             /\ UNCHANGED <<private, dropped, ran, running, pc>>
    <3>1. UNCHANGED <<queues, running, ran, dropped, pc>>
      BY Zenon, <2>1, <2>4 DEF queues
    <3> QED
      BY Zenon, <1>1, <2>1, <2>2, <2>4, <3>1
  <2> QED
    BY Zenon, <2>1, <2>3, <2>4
<1>5. ASSUME NEW w \in Workers, NEW p \in Pools, NEW n \in 1 .. MaxTasks, worker_bulk_enqueue(w, p, n)
      PROVE  Balanced
  <2>1. pc[w] = "task" /\ Make(n) /\ UNCHANGED public /\ enqueue_local(w, n)
    BY Zenon, <1>5 DEF worker_bulk_enqueue
  <2>2. n \in Nat
    OBVIOUS
  <2> QED
    BY Zenon, <2>1, <2>2, BookedLocal
<1> QED
  BY Zenon, <1>2, <1>3, <1>4, <1>5 DEF EnqueueCall

\* What is left in the queues of a worker that shutdown has joined is destroyed.
LEMMA BookedShutdown ==
    ASSUME Typed, Booked, NEW p \in Pools, shutdown(p) \/ ShutdownStep(p),
           shut[p].step = "join" => shut[p].at < Size
    PROVE  Balanced
<1>0. UNCHANGED <<pc, jobs, running, made, ran>>
  BY Zenon DEF shutdown, ShutdownStep, shutdown_atomic_abort, shutdown_abort, shutdown_announce,
     shutdown_release, shutdown_join, calls, tasks
<1>1. \A x \in Threads : (DonatingTo(x)' <=> DonatingTo(x)) /\ jobs'[x] = jobs[x]
  BY Zenon, <1>0 DEF DonatingTo
<1>2. CASE ~shutdown_join(p)
  <2>1. UNCHANGED <<queues, running, tasks>>
    BY Zenon, <1>2 DEF shutdown, ShutdownStep, shutdown_atomic_abort, shutdown_abort,
       shutdown_announce, shutdown_release
  <2> QED
    BY Zenon, <1>1, <2>1, NothingMoves
<1>3. CASE shutdown_join(p)
  <2>0. PICK w : w = Shutting(p)
    BY Zenon
  <2>1. /\ shut[p].step = "join" /\ Drop(Range(private[w]) \cup Range(public[w]))
        /\ private' = [private EXCEPT ![w] = <<>>] /\ public' = [public EXCEPT ![w] = <<>>]
    BY Zenon, <1>3, <2>0 DEF shutdown_join
  <2>2. w \in Workers
    BY <2>0, <2>1, SizeIsPositive DEF Shutting, Workers, Typed
  <2>3. /\ private'[w] = <<>> /\ public'[w] = <<>>
        /\ \A x \in Workers : x # w => private'[x] = private[x] /\ public'[x] = public[x]
    BY Zenon, <2>1, <2>2 DEF Typed
  <2>4. Arguments' /\ \A x \in Threads : \A u : InCall(x, u)' <=> InCall(x, u)
    BY Zenon, <1>1, SameCall DEF Booked, Arguments
  <2>5. Queued'
    BY Zenon, <2>3, NoElements DEF Booked, Queued
  <2>6. TypeOK /\ Once /\ Range(<<>>) = {} /\ w \in Spots /\ NoWorker \in Spots
    BY Zenon, <2>2, BookedIs, PlaceTyped, NoElements
  <2>7. "private" \in Kinds /\ "public" \in Kinds /\ "dropped" \in Kinds
    BY Zenon, PlaceTyped
  <2>8. \A u \in Tasks : u \in Range(private[w]) \cup Range(public[w]) => dropped[u] = 0
    <3> SUFFICES ASSUME NEW u \in Tasks, u \in Range(private[w]) \cup Range(public[w])
                 PROVE  dropped[u] = 0
      BY Zenon
    <3>1. IsIn("private", w, u) \/ IsIn("public", w, u)
      BY Zenon, <2>2, PlacesAre
    <3>2. "private" \notin {"ran", "dropped"} /\ "public" \notin {"ran", "dropped"}
      BY Zenon
    <3> QED
      BY Zenon, <2>6, <3>1, <3>2, NotYet
  <2>9. /\ dropped' \in [Tasks -> {0, 1}]
        /\ \A u \in Tasks : dropped'[u] > 0 <=>
              dropped[u] > 0 \/ u \in Range(private[w]) \cup Range(public[w])
    <3>1. PICK D : D = Range(private[w]) \cup Range(public[w])
      BY Zenon
    <3>2. (\A u \in Tasks : u \in D => dropped[u] = 0) /\ Drop(D)
      BY Zenon, <2>1, <2>8, <3>1
    <3> QED
      BY Zenon, <2>6, <3>1, <3>2, DroppedOnce
  <2>10. ASSUME NEW u \in Tasks
         PROVE  Proceeds(u)
    <3>1. Located(u)
      BY Zenon DEF Booked
    <3>2. CASE u \in Range(private[w]) \cup Range(public[w])
      <4>1. Arrives(u, "dropped", NoWorker)
        BY Zenon, <1>0, <2>3, <2>4, <2>6 DEF Arrives
      <4>2. IsIn("dropped", NoWorker, u)'
        BY Zenon, <2>9, <3>2, NextPlacesAre
      <4>3. \/ IsIn("private", w, u) /\ ~IsIn("private", w, u)'
            \/ IsIn("public", w, u) /\ ~IsIn("public", w, u)'
        BY Zenon, <2>2, <2>3, <2>6, <3>2, PlacesAre, NextPlacesAre
      <4>4. u <= made'
        BY Zenon, <1>0, <2>6, <2>7, <3>1, <4>3 DEF Located
      <4> QED
        BY Zenon, <2>6, <2>7, <3>1, <4>1, <4>2, <4>3, <4>4, ArrivingLocated, Passages
    <3>3. CASE u \notin Range(private[w]) \cup Range(public[w])
      <4>1. Stays(u)
        BY Zenon, <1>0, <2>3, <2>4, <2>6, <2>9, <3>3 DEF Stays
      <4> QED
        BY Zenon, <1>0, <3>1, <4>1, StayingLocated
    <3> QED
      BY Zenon, <3>2, <3>3
  <2> QED
    BY Zenon, <1>0, <2>4, <2>5, <2>9, <2>10 DEF Booked, Balanced, Proceeds
<1> QED
  BY Zenon, <1>2, <1>3

\* No step loses a task, duplicates it, or runs or destroys it again.
LEMMA BookedStep ==
    ASSUME Typed, Booked, Donors, Flags, \A x \in Workers : Controlled(x), [Next]_vars
    PROVE  Balanced
<1>1. CASE UNCHANGED vars
  <2>1. UNCHANGED <<queues, running, tasks, pc, jobs>>
    BY Zenon, <1>1 DEF vars, calls
  <2>2. \A x \in Threads : (DonatingTo(x)' <=> DonatingTo(x)) /\ jobs'[x] = jobs[x]
    BY Zenon, <2>1 DEF DonatingTo
  <2> QED
    BY Zenon, <2>1, <2>2, NothingMoves
<1>2. ASSUME NEW w \in Workers, WorkerStep(w) \/ time_out(w)
      PROVE  Balanced
  BY Zenon, <1>2, BookedThread
<1>3. ASSUME NEW t \in Threads, CallStep(t)
      PROVE  Balanced
  BY Zenon, <1>3, BookedCalls DEF CallStep
<1>4. ASSUME NEW p \in Pools, shutdown(p) \/ ShutdownStep(p)
      PROVE  Balanced
  <2>1. shut[p].step = "join" => shut[p].at < Size
    BY Zenon DEF Flags
  <2> QED
    BY Zenon, <1>4, <2>1, BookedShutdown
<1> QED
  BY Zenon, <1>1, <1>2, <1>3, <1>4, BookedEnqueue DEF Next

-----------------------------------------------------------------------------
(* The invariant.                                                          *)

\* The inductive invariant in the parts the lemmas are stated for.
LEMMA IInvIs ==
    IInv <=> Typed /\ Booked /\ Donors /\ Aborts /\ \A w \in Workers : Controlled(w)
  BY Zenon, BookedIs DEF IInv

\* Before anything is enqueued.
LEMMA IInvInit == Init => IInv
<1> SUFFICES ASSUME Init PROVE IInv
  BY Zenon
<1>1. Size \in Nat \ {0} /\ MaxTasks \in Nat
  BY Zenon, SizeIsPositive, MaxTasksIsNat
<1>2. Typed /\ TypeOK
  <2>1. <<>> \in Seq(Items) /\ <<>> \in Seq(Workers) /\ <<>> \in Seq(Call)
    BY Zenon, NoElements
  <2>2. 0 \in 0 .. MaxTokens /\ 0 \in 0 .. Size - 1 /\ 0 \in 0 .. Size /\ 0 \in 0 .. MaxTasks
    BY <1>1 DEF MaxTokens
  <2>3. private \in [Workers -> Seq(Items)] /\ public \in [Workers -> Seq(Items)]
    BY Zenon, <2>1 DEF Init
  <2>4. /\ m_idle \in [Workers -> BOOLEAN] /\ m_abort \in [Workers -> BOOLEAN]
        /\ m_atomic_abort \in [Workers -> BOOLEAN]
        /\ m_task_found_or_abort \in [Workers -> BOOLEAN]
    BY Zenon DEF Init
  <2>5. sem \in [Workers -> 0 .. MaxTokens] /\ idle_list \in [Workers -> Seq(Workers)]
    BY Zenon, <2>1, <2>2 DEF Init
  <2>6. pc \in [Workers -> Labels] /\ running \in [Workers -> Items] /\ idle_flags \subseteq Workers
    BY Zenon, TasksAreItems DEF Init, Labels
  <2>7. cursor \in [Pools -> 0 .. Size - 1] /\ jobs \in [Threads -> Seq(Call)]
    BY Zenon, <2>1, <2>2 DEF Init
  <2>8. owes \in [Threads -> Workers \cup {NoWorker}] /\ made \in 0 .. MaxTasks
    BY Zenon, <2>2 DEF Init
  <2>9. shut \in [Pools -> [at : 0 .. Size,
                            step : {"no", "atomic", "lock", "announce", "release", "join"}]]
    BY Zenon, <2>2 DEF Init
  <2>10. ran \in [Tasks -> {0, 1}] /\ dropped \in [Tasks -> {0, 1}]
    BY Zenon DEF Init
  <2>11. Typed
    BY Zenon, <2>3, <2>4, <2>5, <2>6, <2>7, <2>8, <2>9 DEF Typed
  <2> QED
    BY Zenon, <2>10, <2>11, TypedIs
<1>3. /\ \A w \in Workers : /\ private[w] = <<>> /\ public[w] = <<>> /\ running[w] = Null
                            /\ idle_list[w] = <<>> /\ pc[w] = "none" /\ m_idle[w] /\ ~m_abort[w]
                            /\ ~m_atomic_abort[w]
      /\ \A x \in Threads : jobs[x] = <<>> /\ owes[x] = NoWorker
      /\ \A t \in Tasks : ran[t] = 0 /\ dropped[t] = 0
      /\ \A p \in Pools : shut[p].at = 0 /\ shut[p].step = "no"
      /\ Workers \subseteq Threads /\ made = 0
  BY Zenon DEF Init, Threads
<1>4. Range(<<>>) = {} /\ NoRepeats(<<>>) /\ Len(<<>>) = 0
  BY Zenon, NoElements
<1>5. Booked
  <2>1. Queued
    BY Zenon, <1>3, <1>4 DEF Queued
  <2>2. Arguments /\ \A x \in Threads : \A t : ~InCall(x, t)
    BY Zenon, <1>3, NoCall DEF Arguments
  <2>3. ASSUME NEW t \in Tasks
        PROVE  Located(t)
    <3>1. t # Null /\ ~(t <= made)
      BY <1>3, TasksAreItems DEF Tasks
    <3>2. ASSUME NEW k \in Kinds, NEW x \in Spots, IsIn(k, x, t)
          PROVE  FALSE
      <4>1. ~IsIn("private", x, t) /\ ~IsIn("public", x, t)
        BY Zenon, <1>3, <1>4, PlacesAre
      <4>2. ~IsIn("running", x, t) /\ ~IsIn("call", x, t)
        BY <1>3, <2>2, <3>1, PlacesAre
      <4>3. ~IsIn("ran", x, t) /\ ~IsIn("dropped", x, t)
        BY <1>3, PlacesAre
      <4> QED
        BY Zenon, <3>2, <4>1, <4>2, <4>3 DEF Kinds
    <3> QED
      BY Zenon, <3>1, <3>2 DEF Located
  <2>4. ran \in [Tasks -> {0, 1}] /\ dropped \in [Tasks -> {0, 1}]
    BY Zenon DEF Init
  <2> QED
    BY Zenon, <2>1, <2>2, <2>3, <2>4 DEF Booked
<1>6. Donors
  <2>1. \A w \in Workers : ~DonatingTo(w)
    BY Zenon, <1>3 DEF DonatingTo
  <2> QED
    BY Zenon, <1>3, <2>1 DEF Donors, LeftList
<1>7. \A w \in Workers : w[1] \in Pools /\ w[2] \in 0 .. Size - 1
  BY Zenon, WorkerIsPair
<1>8. Aborts
  <2>1. Flags
    BY <1>1, <1>3, <1>7 DEF Flags
  <2> QED
    BY Zenon, <1>3, <2>1 DEF Aborts
<1>9. ASSUME NEW w \in Workers
      PROVE  Controlled(w)
  <2>1. Caller(w)
    BY Zenon, <1>3 DEF Caller
  <2>2. Active(w) /\ Quiet(w) /\ EmptyUntilShutdown(w) /\ Woken(w)
    BY Zenon, <1>1, <1>3, <1>7 DEF Active, Quiet, EmptyUntilShutdown, Woken
  <2> QED
    BY Zenon, <2>1, <2>2 DEF Controlled
<1> QED
  BY Zenon, <1>2, <1>5, <1>6, <1>8, <1>9, IInvIs

\* What a step keeps, in the order in which the parts depend on each other.
LEMMA IInvStep ==
    ASSUME IInv, [Next]_vars
    PROVE  IInv' /\ Balanced
<1>1. Typed /\ Booked /\ Donors /\ Aborts /\ (\A w \in Workers : Controlled(w)) /\ Flags
  BY Zenon, IInvIs DEF Aborts
<1>2. Typed'
  <2>1. \A w \in Workers : pc[w] = "pop" => private[w] # <<>>
    BY Zenon, <1>1 DEF Controlled, Caller
  <2>2. DonationsLeft
    BY Zenon, <1>1 DEF DonationsLeft, Donors, Donor
  <2>3. \A p \in Pools :
            shut[p].step \in {"lock", "announce", "release", "join"} => shut[p].at < Size
    BY Zenon, <1>1 DEF Flags
  <2> QED
    BY Zenon, <1>1, <2>1, <2>2, <2>3, TypedNext
<1>3. Aborts' /\ \A w \in Workers : m_abort[w] => m_abort'[w]
  BY Zenon, <1>1, <1>2, AbortsStep
<1>4. \A w \in Workers : Controlled(w)'
  BY Zenon, <1>1, ControlledStep
<1>5. Donors'
  BY Zenon, <1>1, <1>3, DonorsStep
<1>6. Balanced
  BY Zenon, <1>1, BookedStep
<1>7. IInv' <=> (Typed /\ Booked /\ Donors /\ Aborts /\ \A w \in Workers : Controlled(w))'
  BY IInvIs, PTL
<1>8. (Typed /\ Booked /\ Donors /\ Aborts /\ \A w \in Workers : Controlled(w))'
  BY Zenon, <1>2, <1>3, <1>4, <1>5, <1>6 DEF Balanced
<1> QED
  BY Zenon, <1>6, <1>7, <1>8

\* Every reachable state satisfies the inductive invariant.
LEMMA IInvHolds == Spec => []IInv
<1>1. IInv /\ [Next]_vars => IInv'
  BY Zenon, IInvStep
<1> QED
  BY <1>1, IInvInit, PTL DEF Spec

\* A task that was made is in one place.
LEMMA OnePlace ==
    ASSUME NEW t \in Tasks, Located(t)
    PROVE  IF t <= made THEN \E place \in Places(t) : Places(t) = {place} ELSE Places(t) = {}
<1>1. \A place : place \in Places(t) <=>
          \E k \in Kinds, x \in Spots : place = <<k, x>> /\ IsIn(k, x, t)
  BY DEF Places, Spots
<1>2. CASE t <= made
  <2>1. PICK k \in Kinds, x \in Spots : IsIn(k, x, t)
    BY Zenon, <1>2 DEF Located
  <2>2. <<k, x>> \in Places(t)
    BY Zenon, <1>1, <2>1
  <2>3. ASSUME NEW place \in Places(t)
        PROVE  place = <<k, x>>
    <3>1. PICK k2 \in Kinds, x2 \in Spots : place = <<k2, x2>> /\ IsIn(k2, x2, t)
      BY Zenon, <1>1, <2>3
    <3>2. k2 = k /\ x2 = x
      BY Zenon, <2>1, <3>1 DEF Located
    <3> QED
      BY Zenon, <3>1, <3>2
  <2>4. Places(t) = {<<k, x>>}
    BY Zenon, <2>2, <2>3
  <2> QED
    BY Zenon, <1>2, <2>2, <2>4
<1>3. CASE ~(t <= made)
  <2>1. \A place : place \notin Places(t)
    BY Zenon, <1>1, <1>3 DEF Located
  <2> QED
    BY Zenon, <1>3, <2>1
<1> QED
  BY Zenon, <1>2, <1>3

\* The calls of a donor are slices of its queue.
LEMMA DonationsApart ==
    ASSUME Typed, NEW w \in Workers, Donor(w), NoRepeats(private[w])
    PROVE  ArgumentsApart(w)
<1> DEFINE q == private[w]
           P == Parts(w)
           L == Len(idle_list[w])
           J == Len(jobs[w])
           k == Done(w)
<1>1. q \in Seq(Items) /\ idle_list[w] \in Seq(Workers) /\ jobs[w] \in Seq(Call) /\ L \in Nat
  BY Zenon, Elements DEF Typed, Threads
<1>2. J \in Nat /\ DOMAIN jobs[w] = 1 .. J
  BY Zenon, <1>1, Elements
<1>3. J \in 1 .. L /\ k = L - J /\ P = L + 1
  BY Zenon DEF Donor, Done, Parts
<1>4. \A j \in 1 .. J : jobs[w][j].tasks = Slice(q, P, k + j)
  BY Zenon DEF Donor
<1> HIDE DEF P, L, J, k
<1>5. P \in Nat \ {0} /\ \A i \in 1 .. J : k + i \in 1 .. P
  BY <1>1, <1>2, <1>3
<1>6. \A i, j \in 1 .. J : i # j => k + i # k + j
  BY <1>1, <1>2, <1>3
<1>7. \A i \in 1 .. P : NoRepeats(Slice(q, P, i))
  <2>1. \A i \in 1 .. P : /\ Slice(q, P, i) \in Seq(Items)
                          /\ IsPart(Slice(q, P, i), q, From(q, P, i), To(q, P, i))
    BY Zenon, <1>1, <1>5, SliceIsPart
  <2> QED
    BY Zenon, <1>1, <2>1, NoRepeatsInPart
<1>8. \A i, j \in 1 .. P : i # j => Range(Slice(q, P, i)) \cap Range(Slice(q, P, j)) \subseteq {Null}
  BY Zenon, <1>1, <1>5, SlicesApart
<1> HIDE DEF q
<1> SUFFICES ASSUME NEW i \in 1 .. J, NEW j \in 1 .. J
             PROVE  /\ NoRepeats(jobs[w][i].tasks)
                    /\ i # j => Range(jobs[w][i].tasks) \cap Range(jobs[w][j].tasks) \subseteq {Null}
  BY Zenon, <1>2 DEF ArgumentsApart
<1>9. jobs[w][i].tasks = Slice(q, P, k + i) /\ jobs[w][j].tasks = Slice(q, P, k + j)
  BY Zenon, <1>4
<1> QED
  BY Zenon, <1>5, <1>6, <1>7, <1>8, <1>9

\* The invariant implies what it was found for.
LEMMA IInvSuffices == IInv => Inv /\ NoLostWakeUp
<1> SUFFICES ASSUME IInv PROVE Inv /\ NoLostWakeUp
  BY Zenon
<1>1. /\ Typed /\ Booked /\ Donors /\ Aborts /\ (\A w \in Workers : Controlled(w)) /\ Flags
      /\ TypeOK
  BY Zenon, IInvIs DEF Aborts, IInv
<1>2. EachTaskOnce
  <2>1. \A t \in Tasks : IF t <= made THEN \E place \in Places(t) : Places(t) = {place}
                         ELSE Places(t) = {}
    BY Zenon, <1>1, OnePlace DEF Booked
  <2>2. \A w \in Workers : NoRepeats(private[w]) /\ NoRepeats(public[w])
    BY Zenon, <1>1 DEF Booked, Queued
  <2>3. \A x \in Threads : ArgumentsApart(x)
    BY Zenon, <1>1, <2>2, DonationsApart DEF Booked, Arguments, Donors, DonatingTo
  <2> QED
    BY Zenon, <2>1, <2>2, <2>3 DEF EachTaskOnce, ArgumentsApart
<1>3. ThreadIffActive /\ QuietAfterShutdown /\ PrivateQueueEmptyOnSwap
  BY Zenon, <1>1 DEF ThreadIffActive, QuietAfterShutdown, PrivateQueueEmptyOnSwap, Controlled, Active, Quiet,
     EmptyUntilShutdown, Open
<1>4. ASSUME NEW w \in Workers, pc[w] = "wait"
      PROVE  /\ public[w] # <<>> => /\ m_task_found_or_abort[w]
                                    /\ sem[w] > 0 \/ \E t \in Threads : owes[t] = w
             /\ m_abort[w] /\ shut[w[1]].step \notin {"announce", "release"}
                  => m_task_found_or_abort[w] /\ sem[w] > 0
  <2>1. Woken(w) /\ Quiet(w)
    BY Zenon, <1>1 DEF Controlled
  <2>2. m_abort[w] => \/ w[2] < shut[w[1]].at
                      \/ shut[w[1]].step \in {"announce", "release", "join"}
    BY Zenon, <1>1 DEF Flags
  <2>3. ~(w[2] < shut[w[1]].at)
    BY Zenon, <1>4, <2>1 DEF Quiet
  <2> QED
    BY Zenon, <1>4, <2>1, <2>2, <2>3 DEF Woken, Announced
<1>5. NoLostWakeUp
  BY Zenon, <1>4 DEF NoLostWakeUp
<1> QED
  BY Zenon, <1>1, <1>2, <1>3, <1>5 DEF Inv

\* For any number of pools, workers, client threads and tasks: a task that was
\* enqueued is in one place and there once, a worker has a thread exactly when it
\* is marked active, a worker that shutdown is done with stays empty, and the
\* assertion of drain_queue holds until a pool is shut down.
THEOREM ThreadPoolIsCorrect == Spec => []Inv
  BY IInvHolds, IInvSuffices, PTL

\* A worker that waits for its semaphore with tasks in its public queue, or with
\* its abort flag set, is going to be woken.
THEOREM NoWakeUpIsLost == Spec => []NoLostWakeUp
  BY IInvHolds, IInvSuffices, PTL

-----------------------------------------------------------------------------
(* The pool is an executor.                                                *)

\* What an executor knows of a task that is in a place of kind k.
StateIn(k) == IF k \in {"private", "public"} THEN "pending" ELSE IF k = "call" THEN "none" ELSE k

\* What the abstract executor sees of a task, by the place it is in.
StatesAre ==
    \A t \in Tasks : Located(t) =>
        /\ ~(t <= made) => TaskState[t] = "none"
        /\ \A k \in Kinds, x \in Spots : IsIn(k, x, t) => TaskState[t] = StateIn(k)
        /\ TaskState[t] = "pending" => \E w \in Workers : t \in Range(private[w]) \cup Range(public[w])
        /\ TaskState[t] = "running" => \E w \in Workers : running[w] = t

\* A task that is in one place is in one state.
LEMMA StatesKnown == StatesAre
<1> SUFFICES ASSUME NEW t \in Tasks, Located(t)
             PROVE  /\ ~(t <= made) => TaskState[t] = "none"
                    /\ \A k \in Kinds, x \in Spots : IsIn(k, x, t) => TaskState[t] = StateIn(k)
                    /\ TaskState[t] = "pending" =>
                         \E w \in Workers : t \in Range(private[w]) \cup Range(public[w])
                    /\ TaskState[t] = "running" => \E w \in Workers : running[w] = t
  BY Zenon DEF StatesAre
<1>1. /\ Workers \subseteq Spots /\ NoWorker \in Spots /\ "private" \in Kinds /\ "public" \in Kinds
      /\ "running" \in Kinds /\ "ran" \in Kinds /\ "dropped" \in Kinds
  BY Zenon, PlaceTyped
<1>2. /\ ran[t] > 0 <=> IsIn("ran", NoWorker, t)
      /\ dropped[t] > 0 <=> IsIn("dropped", NoWorker, t)
  BY Zenon, PlacesAre
<1>3. /\ \A w \in Workers : running[w] = t <=> IsIn("running", w, t)
      /\ \A w \in Workers : t \in Range(private[w]) <=> IsIn("private", w, t)
      /\ \A w \in Workers : t \in Range(public[w]) <=> IsIn("public", w, t)
  BY Zenon, PlacesAre
<1>4. TaskState[t] = IF ran[t] > 0 THEN "ran"
                     ELSE IF dropped[t] > 0 THEN "dropped"
                     ELSE IF \E w \in Workers : running[w] = t THEN "running"
                     ELSE IF \E w \in Workers : t \in Range(private[w]) \cup Range(public[w]) THEN "pending"
                     ELSE "none"
  BY Zenon DEF TaskState
<1>5. CASE ~(t <= made)
  <2>1. \A k \in Kinds, x \in Spots : ~IsIn(k, x, t)
    BY Zenon, <1>5 DEF Located
  <2>2. ~(ran[t] > 0) /\ ~(dropped[t] > 0)
    BY Zenon, <1>1, <1>2, <2>1
  <2>3. \A w \in Workers : running[w] # t /\ t \notin Range(private[w]) /\ t \notin Range(public[w])
    BY Zenon, <1>1, <1>3, <2>1
  <2>4. TaskState[t] = "none"
    BY Zenon, <1>4, <2>2, <2>3
  <2> QED
    BY Zenon, <2>1, <2>4
<1>6. ASSUME NEW k \in Kinds, NEW x \in Spots, IsIn(k, x, t)
      PROVE  TaskState[t] = StateIn(k)
  <2>1. \A k2 \in Kinds, x2 \in Spots : IsIn(k2, x2, t) => k2 = k
    BY Zenon, <1>6 DEF Located
  <2>2. k # "ran" => ~(ran[t] > 0)
    BY Zenon, <1>1, <1>2, <2>1
  <2>3. k # "dropped" => ~(dropped[t] > 0)
    BY Zenon, <1>1, <1>2, <2>1
  <2>4. k # "running" => \A w \in Workers : running[w] # t
    BY Zenon, <1>1, <1>3, <2>1
  <2>5. k \notin {"private", "public"} =>
            \A w \in Workers : t \notin Range(private[w]) \cup Range(public[w])
    BY Zenon, <1>1, <1>3, <2>1
  <2>6. CASE k = "ran"
    BY Zenon, <1>2, <1>4, <1>6, <2>6, PlacesAre DEF StateIn
  <2>7. CASE k = "dropped"
    BY Zenon, <1>2, <1>4, <1>6, <2>2, <2>7, PlacesAre DEF StateIn
  <2>8. CASE k = "running"
    <3>1. x \in Workers /\ running[x] = t
      BY Zenon, <1>6, <2>8, PlacesAre
    <3> QED
      BY Zenon, <1>4, <2>2, <2>3, <2>8, <3>1 DEF StateIn
  <2>9. CASE k \in {"private", "public"}
    <3>1. x \in Workers /\ t \in Range(private[x]) \cup Range(public[x])
      BY Zenon, <1>6, <2>9, PlacesAre
    <3> QED
      BY Zenon, <1>4, <2>2, <2>3, <2>4, <2>9, <3>1 DEF StateIn
  <2>10. CASE k = "call"
    BY Zenon, <1>4, <2>2, <2>3, <2>4, <2>5, <2>10 DEF StateIn
  <2> QED
    BY Zenon, <2>6, <2>7, <2>8, <2>9, <2>10 DEF Kinds
<1>7. /\ TaskState[t] = "pending" =>
           \E w \in Workers : t \in Range(private[w]) \cup Range(public[w])
      /\ TaskState[t] = "running" => \E w \in Workers : running[w] = t
  BY Zenon, <1>4
<1> QED
  BY Zenon, <1>5, <1>6, <1>7 DEF Located

\* Tasks are destroyed only when a pool was shut down.
LEMMA KeptWhileOpen ==
    ASSUME Typed, Flags, Open, [Next]_vars, NEW t \in Tasks, dropped'[t] > 0
    PROVE  dropped[t] > 0
<1>1. \A w \in Workers : ~m_abort[w] /\ ~m_atomic_abort[w]
  <2>1. \A w \in Workers : w[1] \in Pools /\ w[2] \in 0 .. Size - 1
    BY Zenon, WorkerIsPair
  <2>2. \A p \in Pools : shut[p].step = "no" /\ shut[p].at = 0
    BY Zenon DEF Open, Flags
  <2> QED
    BY <2>1, <2>2, SizeIsPositive DEF Flags
<1>2. UNCHANGED dropped
  <2>1. CASE UNCHANGED vars
    BY Zenon, <2>1 DEF vars, tasks
  <2>2. ASSUME NEW w \in Workers, WorkerStep(w) \/ time_out(w) PROVE UNCHANGED dropped
    BY Zenon, <2>2 DEF WorkerStep, time_out, drain_queue, mark_worker_idle, try_acquire, wait_for_task,
       give_up, queue_drained, balance_work, pop_task, finish_task, abort_exit, tasks
  <2>3. ASSUME NEW x \in Threads, CallStep(x) PROVE UNCHANGED dropped
    <3>1. CASE release_semaphore(x)
      BY Zenon, <3>1 DEF release_semaphore, tasks
    <3>2. CASE enqueue_foreign(x)
      <4>1. ~m_abort[Head(jobs[x]).to]
        BY Zenon, <1>1, <3>2, CallTyped DEF enqueue_foreign
      <4> QED
        BY Zenon, <3>2, <4>1 DEF enqueue_foreign, AcceptForeign
    <3> QED
      BY Zenon, <2>3, <3>1, <3>2 DEF CallStep
  <2>4. CASE EnqueueCall
    BY Zenon, <1>1, <2>4 DEF EnqueueCall, client_enqueue, client_bulk_enqueue, worker_enqueue,
       worker_bulk_enqueue, enqueue_local
  <2>5. ASSUME NEW p \in Pools, shutdown(p) \/ ShutdownStep(p) PROVE UNCHANGED dropped
    <3>1. ~shutdown_join(p)
      BY Zenon DEF Open, shutdown_join
    <3> QED
      BY Zenon, <2>5, <3>1 DEF ShutdownStep, shutdown, shutdown_atomic_abort, shutdown_abort,
         shutdown_announce, shutdown_release, tasks
  <2> QED
    BY Zenon, <2>1, <2>2, <2>3, <2>4, <2>5 DEF Next
<1> QED
  BY Zenon, <1>2

\* A task takes the steps of an executor's task.
LEMMA TaskSteps ==
    ASSUME IInv, [Next]_vars, NEW t \in Tasks, TaskState'[t] # TaskState[t]
    PROVE  /\ <<TaskState[t], TaskState'[t]>> \in E!Life \cup E!Refusal \cup E!Destruction
           /\ Open => <<TaskState[t], TaskState'[t]>> \in E!Life
<1>1. Typed /\ Booked /\ Flags /\ Booked' /\ Passes(t)
  BY Zenon, IInvIs, IInvStep DEF Aborts, Balanced
<1>2. Located(t) /\ Located(t)'
  BY Zenon, <1>1 DEF Booked
<1>3. ~Stays(t)
  <2> SUFFICES ASSUME Stays(t) PROVE TaskState'[t] = TaskState[t]
    BY Zenon
  <2>1. /\ ran'[t] > 0 <=> ran[t] > 0
        /\ dropped'[t] > 0 <=> dropped[t] > 0
        /\ (\E w \in Workers : running'[w] = t) <=> (\E w \in Workers : running[w] = t)
        /\ (\E w \in Workers : t \in Range(private'[w]) \cup Range(public'[w]))
             <=> (\E w \in Workers : t \in Range(private[w]) \cup Range(public[w]))
    BY Zenon DEF Stays
  <2> QED
    BY Zenon, <2>1 DEF TaskState
<1>4. PICK k1 \in Kinds, x1 \in Spots :
          /\ IsIn(k1, x1, t)'
          /\ \/ ~(t <= made) /\ FirstPlace(k1)
             \/ \E k0 \in Kinds, x0 \in Spots : IsIn(k0, x0, t) /\ Passage(k0, k1)
  BY Zenon, <1>1, <1>3 DEF Passes
<1>5. StatesAre /\ StatesAre'
  BY StatesKnown, PTL
<1>6. TaskState'[t] = StateIn(k1)
  BY Zenon, <1>2, <1>4, <1>5 DEF StatesAre
<1>7. Open => k1 # "dropped" \/ IsIn("dropped", NoWorker, t)
  <2> SUFFICES ASSUME Open, k1 = "dropped" PROVE IsIn("dropped", NoWorker, t)
    BY Zenon
  <2>1. dropped'[t] > 0
    BY Zenon, <1>4, NextPlacesAre
  <2>2. dropped[t] > 0
    BY Zenon, <1>1, <2>1, KeptWhileOpen
  <2> QED
    BY Zenon, <2>2, PlacesAre
<1>8. NoWorker \in Spots /\ "dropped" \in Kinds
  BY Zenon, PlaceTyped
<1>9. CASE ~(t <= made) /\ FirstPlace(k1)
  <2>1. TaskState[t] = "none" /\ ~IsIn("dropped", NoWorker, t)
    BY Zenon, <1>2, <1>5, <1>8, <1>9 DEF StatesAre, Located
  <2>2. k1 \in {"call", "private", "dropped"}
    BY Zenon, <1>9 DEF FirstPlace
  <2> QED
    BY Zenon, <1>6, <1>7, <2>1, <2>2 DEF StateIn, E!Life, E!Refusal, E!Destruction
<1>10. ASSUME NEW k0 \in Kinds, NEW x0 \in Spots, IsIn(k0, x0, t), Passage(k0, k1)
       PROVE  /\ <<TaskState[t], TaskState'[t]>> \in E!Life \cup E!Refusal \cup E!Destruction
              /\ Open => <<TaskState[t], TaskState'[t]>> \in E!Life
  <2>1. TaskState[t] = StateIn(k0)
    BY Zenon, <1>2, <1>5, <1>10 DEF StatesAre
  <2>2. k0 # "dropped" => ~IsIn("dropped", NoWorker, t)
    BY Zenon, <1>2, <1>8, <1>10 DEF Located
  <2>3. \/ k0 \in {"private", "public"} /\ k1 \in {"private", "public"}
        \/ k0 = "call" /\ k1 = "public"
        \/ k0 = "private" /\ k1 = "running"
        \/ k0 = "running" /\ k1 = "ran"
        \/ k0 \in {"call", "private", "public"} /\ k1 = "dropped"
    BY Zenon, <1>10 DEF Passage
  <2> QED
    BY Zenon, <1>6, <1>7, <2>1, <2>2, <2>3 DEF StateIn, E!Life, E!Refusal, E!Destruction
<1> QED
  BY Zenon, <1>4, <1>9, <1>10

\* Shutdown is done with every worker of every pool.
AllShut == \A p \in Pools : shut[p].at = Size

\* Nothing is pending, and nothing runs, in a pool that was shut down.
ShutIsQuiet ==
    IInv /\ AllShut => \A t \in Tasks : TaskState[t] # "pending" /\ TaskState[t] # "running"

\* It is so in every state.
LEMMA QuietWhenShut == ShutIsQuiet
<1> SUFFICES ASSUME IInv, AllShut, NEW t \in Tasks
             PROVE  TaskState[t] # "pending" /\ TaskState[t] # "running"
  BY Zenon DEF ShutIsQuiet
<1>1. Booked /\ \A w \in Workers : Controlled(w)
  BY Zenon, IInvIs
<1>2. ASSUME NEW w \in Workers
      PROVE  private[w] = <<>> /\ public[w] = <<>> /\ running[w] = Null
  <2>1. w[2] < shut[w[1]].at
    BY WorkerIsPair, SizeIsPositive DEF AllShut
  <2> QED
    BY Zenon, <1>1, <2>1 DEF Controlled, Quiet, Caller
<1>3. t # Null /\ Range(<<>>) = {}
  BY Zenon, TasksAreItems, NoElements
<1>4. \A w \in Workers : running[w] # t /\ t \notin Range(private[w]) \cup Range(public[w])
  BY Zenon, <1>2, <1>3
<1> QED
  BY Zenon, <1>1, <1>4, StatesKnown DEF StatesAre, Booked

\* Only shutdown changes how far it has come.
LEMMA ShutdownMoves ==
    ASSUME IInv, [Next]_vars
    PROVE  /\ ~Open => ~Open'
           /\ Open /\ ~Open' => TaskState' = TaskState /\ ~AllShut'
           /\ AllShut => AllShut'
<1>1. Typed /\ Typed' /\ Aborts /\ Flags
  <2>1. IInv' => Typed'
    BY IInvIs, PTL
  <2> QED
    BY Zenon, <2>1, IInvIs, IInvStep DEF Aborts
<1>2. ~Open => ~Open'
  BY Zenon, <1>1, AbortsStep
<1>3. UNCHANGED shut \/ \E p \in Pools : shutdown(p) \/ ShutdownStep(p)
  <2>1. CASE UNCHANGED vars
    BY Zenon, <2>1 DEF vars
  <2>2. ASSUME NEW w \in Workers, WorkerStep(w) \/ time_out(w) PROVE UNCHANGED shut
    BY Zenon, <2>2 DEF WorkerStep, time_out, drain_queue, mark_worker_idle, try_acquire, wait_for_task,
       give_up, queue_drained, balance_work, pop_task, finish_task, abort_exit
  <2>3. ASSUME NEW x \in Threads, CallStep(x) PROVE UNCHANGED shut
    BY Zenon, <2>3 DEF CallStep, enqueue_foreign, release_semaphore
  <2>4. CASE EnqueueCall
    BY Zenon, <2>4 DEF EnqueueCall, client_enqueue, client_bulk_enqueue, worker_enqueue,
       worker_bulk_enqueue
  <2> QED
    BY Zenon, <2>1, <2>2, <2>3, <2>4 DEF Next
<1>4. ASSUME UNCHANGED shut
      PROVE  (Open' <=> Open) /\ (AllShut' <=> AllShut)
  BY Zenon, <1>4 DEF Open, AllShut
<1>5. ASSUME NEW p \in Pools, shutdown(p)
      PROVE  TaskState' = TaskState /\ ~AllShut' /\ ~AllShut
  <2>1. UNCHANGED <<queues, running, tasks>>
    BY Zenon, <1>5 DEF shutdown
  <2>2. TaskState' = TaskState
    BY Zenon, <2>1 DEF TaskState, queues, tasks
  <2>3. shut[p].step = "no" /\ shut'[p].at = shut[p].at
    BY Zenon, <1>1, <1>5 DEF shutdown, ShutGoes, Typed
  <2>4. shut[p].at # Size /\ shut'[p].at # Size
    BY <1>1, <2>3, SizeIsPositive DEF Flags
  <2> QED
    BY Zenon, <2>2, <2>4 DEF AllShut
<1>6. ASSUME NEW p \in Pools, ShutdownStep(p)
      PROVE  ~Open /\ ~AllShut
  <2>1. /\ shut[p].step \in {"atomic", "lock", "announce", "release", "join"}
        /\ shut[p].step = "atomic" => shut[p].at < Size
    BY Zenon, <1>6 DEF ShutdownStep, shutdown_atomic_abort, shutdown_abort, shutdown_announce,
       shutdown_release, shutdown_join, ShutGoes
  <2>2. shut[p].at < Size /\ shut[p].step # "no"
    BY Zenon, <1>1, <2>1 DEF Flags
  <2>3. shut[p].at # Size
    BY <2>2, SizeIsPositive
  <2> QED
    BY Zenon, <2>2, <2>3 DEF Open, AllShut
<1> QED
  BY Zenon, <1>2, <1>3, <1>4, <1>5, <1>6

\* Every step of the pools is a step of an executor, or none.
LEMMA StepImplements ==
    ASSUME IInv, [Next]_vars
    PROVE  [E!Next]_(E!vars)
<1>1. /\ Phase = IF Open THEN "open" ELSE IF AllShut THEN "closed" ELSE "closing"
      /\ Phase' = IF Open' THEN "open" ELSE IF AllShut' THEN "closed" ELSE "closing"
  BY Zenon DEF Phase, Open, AllShut
<1>2. /\ ~Open => ~Open'
      /\ Open /\ ~Open' => TaskState' = TaskState /\ ~AllShut'
      /\ AllShut => AllShut'
  BY Zenon, ShutdownMoves
<1>3. TaskState' \in [Tasks -> E!States]
  BY Zenon DEF TaskState, E!States
<1>4. /\ AllShut => \A t \in Tasks : TaskState[t] # "pending" /\ TaskState[t] # "running"
      /\ AllShut' => \A t \in Tasks : TaskState'[t] # "pending" /\ TaskState'[t] # "running"
  <2>1. ShutIsQuiet /\ ShutIsQuiet'
    BY QuietWhenShut, PTL
  <2>2. IInv'
    BY Zenon, IInvStep
  <2> QED
    BY Zenon, <2>1, <2>2 DEF ShutIsQuiet
<1>5. \A t \in Tasks : TaskState'[t] # TaskState[t] =>
          /\ <<TaskState[t], TaskState'[t]>> \in E!Life \cup E!Refusal \cup E!Destruction
          /\ Open => <<TaskState[t], TaskState'[t]>> \in E!Life
  BY Zenon, TaskSteps
<1>6. CASE Open /\ Open'
  <2>1. Phase = "open" /\ Phase' = "open"
    BY Zenon, <1>1, <1>6
  <2>2. E!Allowed("open") = E!Life
    BY Zenon DEF E!Allowed
  <2>3. E!Work
    BY Zenon, <1>3, <1>5, <1>6, <2>1, <2>2 DEF E!Work, E!TasksMove
  <2> QED
    BY Zenon, <2>3 DEF E!Next
<1>7. CASE Open /\ ~Open'
  <2>1. Phase = "open" /\ Phase' = "closing" /\ TaskState' = TaskState
    BY Zenon, <1>1, <1>2, <1>7
  <2> QED
    BY Zenon, <2>1 DEF E!Next, E!ShutdownCalled
<1>8. CASE ~Open /\ ~AllShut
  <2>1. Phase = "closing" /\ Phase' = IF AllShut' THEN "closed" ELSE "closing"
    BY Zenon, <1>1, <1>2, <1>8
  <2>2. E!Allowed("closing") = E!Life \cup E!Refusal \cup E!Destruction
    BY Zenon DEF E!Allowed
  <2>3. E!TasksMove
    BY Zenon, <1>3, <1>5, <2>1, <2>2 DEF E!TasksMove
  <2>4. CASE AllShut'
    <3>1. Phase' = "closed"
      BY Zenon, <2>1, <2>4
    <3>2. E!ShutdownReturns
      BY Zenon, <1>4, <2>1, <2>3, <2>4, <3>1 DEF E!ShutdownReturns
    <3> QED
      BY Zenon, <3>2 DEF E!Next
  <2>5. CASE ~AllShut'
    <3>1. Phase' = Phase
      BY Zenon, <2>1, <2>5
    <3> QED
      BY Zenon, <2>3, <3>1 DEF E!Next, E!Work
  <2> QED
    BY Zenon, <2>4, <2>5
<1>9. CASE ~Open /\ AllShut
  <2>1. Phase = "closed" /\ Phase' = "closed" /\ AllShut'
    BY Zenon, <1>1, <1>2, <1>9
  <2>2. ASSUME NEW t \in Tasks, TaskState'[t] # TaskState[t]
        PROVE  <<TaskState[t], TaskState'[t]>> \in E!Allowed("closed")
    <3>1. PICK a, b : a = TaskState[t] /\ b = TaskState'[t]
      BY Zenon
    <3>2. /\ a # "pending" /\ a # "running" /\ b # "pending" /\ b # "running"
          /\ <<a, b>> \in E!Life \cup E!Refusal \cup E!Destruction
      BY Zenon, <1>4, <1>5, <1>9, <2>1, <2>2, <3>1
    <3>3. <<a, b>> \in E!Refusal
      BY Zenon, <3>2 DEF E!Life, E!Refusal, E!Destruction
    <3>4. E!Refusal \subseteq E!Allowed("closed")
      BY Zenon DEF E!Allowed
    <3> QED
      BY Zenon, <3>1, <3>3, <3>4
  <2>3. E!TasksMove
    BY Zenon, <1>3, <2>1, <2>2 DEF E!TasksMove
  <2> QED
    BY Zenon, <2>1, <2>3 DEF E!Next, E!Work
<1> QED
  BY Zenon, <1>6, <1>7, <1>8, <1>9

\* The pools of a process are an executor: a task is run at most once, destroyed
\* without having run only once a pool is shut down, and none is accepted or run
\* after shutdown has returned everywhere.
THEOREM ThreadPoolImplementsExecutor == Spec => ImplementsExecutor
<1>1. Init => E!Init
  <2> SUFFICES ASSUME Init PROVE E!Init
    BY Zenon
  <2>1. IInv /\ made = 0 /\ Open
    BY Zenon, IInvInit DEF Init, Open
  <2>2. \A t \in Tasks : Located(t) /\ ~(t <= made)
    BY <2>1, IInvIs DEF Booked, Tasks
  <2>3. \A t \in Tasks : TaskState[t] = "none"
    BY Zenon, <2>2, StatesKnown DEF StatesAre
  <2>4. TaskState = [t \in Tasks |-> "none"]
    BY Zenon, <2>3 DEF TaskState
  <2>5. Phase = "open"
    BY Zenon, <2>1 DEF Phase, Open
  <2> QED
    BY Zenon, <2>4, <2>5 DEF E!Init
<1>2. IInv /\ [Next]_vars => [E!Next]_(E!vars)
  BY Zenon, StepImplements
<1> QED
  BY <1>1, <1>2, IInvHolds, PTL DEF Spec, ImplementsExecutor, E!Spec

=============================================================================
