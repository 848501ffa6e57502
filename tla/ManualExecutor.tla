--------------------------- MODULE ManualExecutor ---------------------------
(***************************************************************************)
(* manual_executor: a queue that any thread may run tasks from (loop),     *)
(* wait at (wait_for_tasks), clear or shut down.                           *)
(*                                                                         *)
(* A step is one critical section of m_lock, or one access outside of it.  *)
(* A thread in m_condition sleeps until it is notified, until it times out *)
(* (timed calls) or for no reason; then it takes the lock and looks again. *)
(***************************************************************************)
EXTENDS Integers, Sequences, FiniteSets, Functions

CONSTANTS
    Clients,        \* the threads that use the executor
    MaxTasks,       \* how many tasks are made; tasks are numbered as they are
    MaxCount,       \* the largest count that is passed to loop and wait_for_tasks
    MaxCalls        \* how many calls to loop and wait_for_tasks a client makes

ASSUME BoundsAreNat == MaxTasks \in Nat /\ MaxCount \in Nat /\ MaxCalls \in Nat
ASSUME ClientsAreFinite == IsFiniteSet(Clients)

Tasks == 1 .. MaxTasks
Null == 0

\* loop_impl, loop_until_impl, the two wait_for_tasks_impl, and
\* wait_for_task_for, which turns the answer of the last one into a Boolean.
Loops == {"loop", "loop_for"}
Waits == {"wait", "wait_for", "wait_for_task_for"}
Timed == {"loop_for", "wait_for", "wait_for_task_for"}

VARIABLES
    m_tasks, m_abort, m_atomic_abort,
    pc,             \* where each client is
    call,           \* its call of loop or wait: op, count and tasks executed
    running,        \* the task it runs
    owes,           \* the clients that have still to call notify_all
    answer,         \* what its last call returned
    took,           \* the tasks that its latest loop took, in this order
    found,          \* how many tasks its latest critical section found
    late,           \* its latest call began after shutdown had returned
    calls,          \* how many of these calls it has made
    made,           \* the number of tasks made so far
    ran, dropped,   \* the tasks that were run, and those destroyed, in this order
    shut            \* where the first call of shutdown is

tasks == <<made, ran, dropped>>
aborts == <<m_abort, m_atomic_abort>>
history == <<took, found, late>>
vars == <<m_tasks, aborts, pc, call, running, owes, answer, history, calls, tasks, shut>>

NoCall == [op |-> "none", count |-> 0, executed |-> 0]
Throws == -1        \* errors::runtime_shutdown
NoAnswer == [call |-> NoCall, result |-> 0]

CallRecords == [op : Loops \cup Waits \cup {"none"}, count : 0 .. MaxCount, executed : 0 .. MaxCount]

\* The state of the executor and of the calls on it.
TypeOK ==
    /\ m_tasks \in Seq(Tasks)
    /\ m_abort \in BOOLEAN /\ m_atomic_abort \in BOOLEAN
    /\ pc \in [Clients -> {"idle", "loop", "lock", "sleep", "task", "end_loop"}]
    /\ call \in [Clients -> CallRecords]
    /\ running \in [Clients -> Tasks \cup {Null}]
    /\ owes \subseteq Clients
    /\ answer \in [Clients -> [call : CallRecords, result : Throws .. MaxTasks]]
    /\ took \in [Clients -> Seq(Tasks)]
    /\ found \in [Clients -> 0 .. MaxTasks] /\ late \in [Clients -> BOOLEAN]
    /\ calls \in [Clients -> 0 .. MaxCalls]
    /\ made \in 0 .. MaxTasks
    /\ ran \in Seq(Tasks) /\ dropped \in Seq(Tasks)
    /\ shut \in {"no", "lock", "notify", "done"}

Init ==
    /\ m_tasks = <<>>
    /\ m_abort = FALSE /\ m_atomic_abort = FALSE
    /\ pc = [c \in Clients |-> "idle"]
    /\ call = [c \in Clients |-> NoCall]
    /\ running = [c \in Clients |-> Null]
    /\ owes = {}
    /\ answer = [c \in Clients |-> NoAnswer]
    /\ took = [c \in Clients |-> <<>>]
    /\ found = [c \in Clients |-> 0] /\ late = [c \in Clients |-> FALSE]
    /\ calls = [c \in Clients |-> 0]
    /\ made = 0
    /\ ran = <<>> /\ dropped = <<>>
    /\ shut = "no"

Goes(c, from, to) == pc[c] = from /\ pc' = [pc EXCEPT ![c] = to]

\* m_condition.notify_all: whoever sleeps takes the lock and looks.
Notified == [c \in Clients |-> IF pc[c] = "sleep" THEN "lock" ELSE pc[c]]

-----------------------------------------------------------------------------
(* enqueue of one task or of a span, clear and shutdown.                   *)

NextTasks(n) == [i \in 1 .. n |-> made + i]

\* By a client, or by the task that it runs.
enqueue(c, n) ==
    /\ pc[c] \in {"idle", "task"} /\ c \notin owes
    /\ made + n <= MaxTasks
    /\ made' = made + n
    /\ \/ m_abort /\ dropped' = dropped \o NextTasks(n) /\ UNCHANGED <<m_tasks, owes>>
       \/ /\ ~m_abort
          /\ m_tasks' = m_tasks \o NextTasks(n)
          /\ owes' = owes \cup {c}
          /\ UNCHANGED dropped
    /\ UNCHANGED <<aborts, pc, call, running, answer, history, calls, ran, shut>>

enqueue_notify(c) ==
    /\ c \in owes
    /\ owes' = owes \ {c}
    /\ pc' = Notified
    /\ UNCHANGED <<m_tasks, aborts, call, running, answer, history, calls, tasks, shut>>

clear(c) ==
    /\ pc[c] \in {"idle", "task"} /\ c \notin owes
    /\ ~m_abort
    /\ m_tasks # <<>>
    /\ dropped' = dropped \o m_tasks
    /\ m_tasks' = <<>>
    /\ UNCHANGED <<aborts, pc, call, running, owes, answer, history, calls, made, ran, shut>>

shutdown ==
    /\ shut = "no" /\ shut' = "lock"
    /\ m_atomic_abort' = TRUE
    /\ UNCHANGED <<m_tasks, m_abort, pc, call, running, owes, answer, history, calls, tasks>>

\* m_abort is set and the tasks are taken, to be destroyed by shutdown.
shutdown_lock ==
    /\ shut = "lock" /\ shut' = "notify"
    /\ m_abort' = TRUE
    /\ dropped' = dropped \o m_tasks
    /\ m_tasks' = <<>>
    /\ UNCHANGED <<m_atomic_abort, pc, call, running, owes, answer, history, calls, made, ran>>

\* Mutant: those who sleep are not notified.
shutdown_notify_none ==
    /\ shut = "notify" /\ shut' = "done"
    /\ UNCHANGED <<m_tasks, aborts, pc, call, running, owes, answer, history, calls, tasks>>

shutdown_notify ==
    /\ shut = "notify" /\ shut' = "done"
    /\ pc' = Notified
    /\ UNCHANGED <<m_tasks, aborts, call, running, owes, answer, history, calls, tasks>>

-----------------------------------------------------------------------------
(* Loops and waits.                                                        *)

Begin(c, op, count) ==
    /\ c \notin owes
    /\ calls[c] < MaxCalls
    /\ calls' = [calls EXCEPT ![c] = @ + 1]
    /\ Goes(c, "idle", IF op \in Loops THEN "loop" ELSE "lock")
    /\ call' = [call EXCEPT ![c] = [op |-> op, count |-> count, executed |-> 0]]
    /\ took' = [took EXCEPT ![c] = <<>>]
    /\ late' = [late EXCEPT ![c] = shut = "done"]
    /\ UNCHANGED <<m_tasks, aborts, running, owes, answer, found, tasks, shut>>

\* A count of 0 returns at once.
loop(c, op, count) == op \in Loops /\ count > 0 /\ Begin(c, op, count)

wait_for_tasks(c, op, count) ==
    /\ op \in Waits /\ count > 0
    /\ op = "wait_for_task_for" => count = 1
    /\ Begin(c, op, count)

Returns(c, from, result) ==
    /\ Goes(c, from, "idle")
    /\ answer' = [answer EXCEPT ![c] = [call |-> call[c], result |-> result]]
    /\ call' = [call EXCEPT ![c] = NoCall]

\* The head of the loops: enough executed, or (loop_for) the deadline is over.
loop_head(c) ==
    /\ \/ call[c].executed < call[c].count /\ Goes(c, "loop", "lock")
       \/ call[c].executed = call[c].count /\ Goes(c, "loop", "end_loop")
       \/ call[c].op = "loop_for" /\ Goes(c, "loop", "end_loop")
    /\ UNCHANGED <<m_tasks, aborts, call, running, owes, answer, history, calls, tasks, shut>>

\* What a critical section sees of the queue.
Looks(c) == found' = [found EXCEPT ![c] = Len(m_tasks)]

\* What a sleeper waits for.
Satisfied(c) ==
    \/ m_abort
    \/ IF call[c].op \in Waits THEN Len(m_tasks) >= call[c].count ELSE m_tasks # <<>>

\* Mutant: the task is left in the queue while it runs.
loop_lock_unpopped(c) ==
    /\ call[c].op \in Loops
    /\ ~m_abort /\ m_tasks # <<>>
    /\ Goes(c, "lock", "task")
    /\ running' = [running EXCEPT ![c] = Head(m_tasks)]
    /\ took' = [took EXCEPT ![c] = Append(@, Head(m_tasks))]
    /\ Looks(c)
    /\ UNCHANGED <<m_tasks, aborts, call, owes, answer, late, calls, tasks, shut>>

\* The critical section of the loops, with or without a wait before it.
loop_lock(c) ==
    /\ call[c].op \in Loops
    /\ \/ /\ m_abort \/ (call[c].op = "loop" /\ m_tasks = <<>>)
          /\ Goes(c, "lock", "end_loop")
          /\ UNCHANGED <<m_tasks, running, took>>
       \/ /\ ~m_abort /\ m_tasks = <<>> /\ call[c].op = "loop_for"
          /\ \E place \in {"sleep", "end_loop"} : Goes(c, "lock", place)
          /\ UNCHANGED <<m_tasks, running, took>>
       \/ /\ ~m_abort /\ m_tasks # <<>>
          /\ Goes(c, "lock", "task")
          /\ running' = [running EXCEPT ![c] = Head(m_tasks)]
          /\ took' = [took EXCEPT ![c] = Append(@, Head(m_tasks))]
          /\ m_tasks' = Tail(m_tasks)
    /\ Looks(c)
    /\ UNCHANGED <<aborts, call, owes, answer, late, calls, tasks, shut>>

finish_task(c) ==
    /\ c \notin owes
    /\ Goes(c, "task", "loop")
    /\ ran' = Append(ran, running[c])
    /\ running' = [running EXCEPT ![c] = Null]
    /\ call' = [call EXCEPT ![c].executed = @ + 1]
    /\ UNCHANGED <<m_tasks, aborts, owes, answer, history, calls, made, dropped, shut>>

end_loop(c) ==
    /\ Returns(c, "end_loop", IF m_atomic_abort THEN Throws ELSE call[c].executed)
    /\ UNCHANGED <<m_tasks, aborts, running, owes, history, calls, tasks, shut>>

\* What the waits return when they have the lock and are done.
WaitResult(c) ==
    IF m_abort THEN Throws
    ELSE IF call[c].op = "wait_for_task_for" THEN IF Len(m_tasks) = 1 THEN 1 ELSE 0
    ELSE Len(m_tasks)

\* Mutant: a thread that wakes up takes for granted that its tasks are there.
wait_lock_unlooped(c) ==
    /\ call[c].op \in Waits
    /\ \/ Returns(c, "lock", WaitResult(c))
       \/ /\ ~Satisfied(c)
          /\ Goes(c, "lock", "sleep")
          /\ UNCHANGED <<answer, call>>
    /\ Looks(c)
    /\ UNCHANGED <<m_tasks, aborts, running, owes, took, late, calls, tasks, shut>>

wait_lock(c) ==
    /\ call[c].op \in Waits
    /\ \/ /\ Satisfied(c) \/ call[c].op \in Timed
          /\ Returns(c, "lock", WaitResult(c))
       \/ /\ ~Satisfied(c)
          /\ Goes(c, "lock", "sleep")
          /\ UNCHANGED <<answer, call>>
    /\ Looks(c)
    /\ UNCHANGED <<m_tasks, aborts, running, owes, took, late, calls, tasks, shut>>

\* A time-out, or a spurious wake-up.
wake(c) ==
    /\ Goes(c, "sleep", "lock")
    /\ UNCHANGED <<m_tasks, aborts, call, running, owes, answer, history, calls, tasks, shut>>

-----------------------------------------------------------------------------

\* What a client that is in a call does next.
ClientStep(c) ==
    \/ enqueue_notify(c) \/ loop_head(c) \/ loop_lock(c) \/ finish_task(c) \/ end_loop(c)
    \/ wait_lock(c)

ShutdownStep == shutdown_lock \/ shutdown_notify

Next ==
    \/ \E c \in Clients : ClientStep(c) \/ wake(c) \/ clear(c)
    \/ \E c \in Clients, n \in 1 .. MaxCount : enqueue(c, n)
    \/ \E c \in Clients, op \in Loops \cup Waits, n \in 1 .. MaxCount :
           loop(c, op, n) \/ wait_for_tasks(c, op, n)
    \/ shutdown \/ ShutdownStep

Spec == Init /\ [][Next]_vars

\* Threads run; which calls are made, and when a wait times out, is left open.
FairSpec == Spec /\ (\A c \in Clients : WF_vars(ClientStep(c))) /\ WF_vars(ShutdownStep)

-----------------------------------------------------------------------------
(* Properties.                                                             *)

InHand == {running[c] : c \in Clients} \ {Null}

\* Each task is at every moment in exactly one place: in the queue, run by one
\* of the clients, or done, and it is done once.
EachTaskOnce ==
    LET lists == m_tasks \o ran \o dropped
    IN  /\ Len(lists) + Cardinality({c \in Clients : running[c] # Null}) = made
        /\ Range(lists) \cup InHand = 1 .. made

\* A thread that sleeps although what it waits for is there is going to be
\* notified (enqueue and shutdown notify after they have unlocked).
NoLostNotify ==
    \A c \in Clients : pc[c] = "sleep" /\ Satisfied(c) => owes # {} \/ shut = "notify"

\* What a call may have answered when it returned: a loop answers the number of
\* tasks that it took, all of which were run, as many as it was asked for at most
\* and, if it does not wait, fewer only if it found the queue empty; a wait has
\* found as many tasks as it asked for, or answers how many it found;
\* wait_for_task_for says yes exactly when it found one task, which is not what it
\* should say (see WaitForTaskForIsRight); a call throws only when the executor is
\* being shut down, and always if shutdown had returned before the call began.
RightAnswer(c) ==
    LET a == answer[c]
    IN  IF a.result = Throws THEN shut # "no"
        ELSE /\ ~late[c]
             /\ a.call.op \in Loops =>
                   /\ a.result = Len(took[c]) /\ Range(took[c]) \subseteq Range(ran)
                   /\ a.result <= a.call.count
                   /\ a.call.op = "loop" /\ a.result < a.call.count => found[c] = 0
             /\ a.call.op = "wait" => found[c] >= a.call.count
             /\ a.call.op = "wait_for" => a.result = found[c]
             /\ a.call.op = "wait_for_task_for" => (a.result = 1 <=> found[c] = 1)

AnswersAreRight == \A c \in Clients : pc[c] = "idle" => RightAnswer(c)

\* A loop takes tasks in the order in which they were enqueued, whichever other
\* threads take tasks as well, and no more than it was asked for.
TakenInOrder ==
    \A c \in Clients :
        /\ \A i, j \in DOMAIN took[c] : i < j => took[c][i] < took[c][j]
        /\ pc[c] # "idle" => Len(took[c]) <= call[c].count

\* The above together: tasks are not lost or doubled, sleepers are notified, loops
\* take tasks in order, and the answers are those that AnswersAreRight states.
Inv == TypeOK /\ EachTaskOnce /\ NoLostNotify /\ TakenInOrder /\ AnswersAreRight

\* README: wait_for_task_for "Returns true if at at least one task is available
\* for execution, false otherwise."
WaitForTaskForIsRight ==
    \A c \in Clients :
        LET a == answer[c]
        IN  pc[c] = "idle" /\ a.call.op = "wait_for_task_for" /\ a.result # Throws =>
                (a.result = 1 <=> found[c] > 0)

TaskState ==
    [t \in Tasks |->
        IF t \in Range(ran) THEN "ran"
        ELSE IF t \in Range(dropped) THEN "dropped"
        ELSE IF t \in InHand THEN "running"
        ELSE IF t <= made THEN "pending" ELSE "none"]

Phase == IF shut = "no" THEN "open" ELSE IF shut = "done" THEN "closed" ELSE "closing"

E == INSTANCE Executor WITH task <- TaskState, phase <- Phase, Clearable <- TRUE, Joins <- FALSE

\* The manual executor is an executor: a task is run at most once, and after
\* shutdown none is accepted or started.
ImplementsExecutor == E!Spec

\* Calls end: shutdown ends every loop and every wait, and a thread does not
\* sleep on while what it waits for is there.
CallsEnd ==
    \A c \in Clients :
        /\ shut # "no" ~> pc[c] = "idle"
        /\ pc[c] = "sleep" /\ Satisfied(c) ~> pc[c] # "sleep" \/ ~Satisfied(c)

=============================================================================
