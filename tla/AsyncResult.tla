------------------------------ MODULE AsyncResult ------------------------------
(***************************************************************************)
(* What a result object promises, without threads, atomics or contexts: an *)
(* outcome that is published once, and calls on it that answer with that   *)
(* outcome, or that give up while it is still pending.                     *)
(***************************************************************************)
CONSTANT Results

VARIABLES
    outcome,    \* "pending", then "value" or "exception" for ever
    client,     \* what the holder of the result is doing
    answer      \* the status that the holder was last told

vars == <<outcome, client, answer>>

Init ==
    /\ outcome = [r \in Results |-> "pending"]
    /\ client = [r \in Results |-> "holding"]
    /\ answer = [r \in Results |-> "none"]

ClientGoes(r, from, to) ==
    /\ client[r] = from
    /\ client' = [client EXCEPT ![r] = to]

Ready(r) == outcome[r] # "pending"

Told(r, status) == answer' = [answer EXCEPT ![r] = status]

Publish(r) ==
    /\ ~Ready(r)
    /\ \E s \in {"value", "exception"} : outcome' = [outcome EXCEPT ![r] = s]
    /\ UNCHANGED <<client, answer>>

\* A question that does not wait.
Query(r) ==
    /\ client[r] = "holding"
    /\ Told(r, IF Ready(r) THEN outcome[r] ELSE "idle")
    /\ UNCHANGED <<outcome, client>>

Begin(r) ==
    /\ ClientGoes(r, "holding", "calling")
    /\ UNCHANGED <<outcome, answer>>

\* A call ends with a ready result, which the client keeps.
Answer(r) ==
    /\ Ready(r)
    /\ ClientGoes(r, "calling", "holding")
    /\ Told(r, outcome[r]) \/ UNCHANGED answer
    /\ UNCHANGED outcome

\* A call ends by handing the outcome over; the result is then empty.
Take(r) ==
    /\ Ready(r)
    /\ ClientGoes(r, "calling", "finished")
    /\ Told(r, outcome[r])
    /\ UNCHANGED outcome

\* A call may only give up while the outcome is pending.
GiveUp(r) ==
    /\ ~Ready(r)
    /\ ClientGoes(r, "calling", "timed_out")
    /\ UNCHANGED <<outcome, answer>>

AnswerIdle(r) ==
    /\ ClientGoes(r, "timed_out", "holding")
    /\ Told(r, "idle")
    /\ UNCHANGED outcome

Discard(r) ==
    /\ ClientGoes(r, "holding", "finished")
    /\ UNCHANGED <<outcome, answer>>

Next == \E r \in Results :
    \/ Publish(r) \/ Query(r) \/ Begin(r) \/ Answer(r) \/ Take(r)
    \/ GiveUp(r) \/ AnswerIdle(r) \/ Discard(r)

Spec == Init /\ [][Next]_vars

=============================================================================
