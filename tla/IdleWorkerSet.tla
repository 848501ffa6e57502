---------------------------- MODULE IdleWorkerSet ----------------------------
(***************************************************************************)
(* idle_worker_set, the part of a thread pool that knows which workers are *)
(* idle: one atomic flag per worker, and m_approx_size, which counts the   *)
(* flags but is updated after them.  A worker marks itself idle or active; *)
(* workers look for others to donate tasks to, and every enqueuer looks    *)
(* for one worker.                                                         *)
(*                                                                         *)
(* A step is one access to an atomic.                                      *)
(***************************************************************************)
EXTENDS Integers, FiniteSets, FiniteSetsExt

CONSTANTS
    Size,           \* m_size, the number of workers of the pool
    Clients,        \* threads that are not workers of the pool
    MaxCalls        \* how many threads are in a call at the same time

Workers == 0 .. Size - 1
Callers == Workers \cup Clients
NoIndex == -1       \* the caller_index of a thread that is in no pool

ASSUME SizeIsPositive == Size \in Nat \ {0}
ASSUME ClientsAreNoWorkers == IsFiniteSet(Clients) /\ Clients \cap Workers = {}
ASSUME MaxCallsIsNat == MaxCalls \in Nat

VARIABLES
    m_idle_flags,   \* the workers whose flag says idle
    m_approx_size,
    at,             \* what a thread does next in its call, "out" between calls
    scan,           \* the variables of its find_idle_worker(s) call
    asked,          \* observed: the max_count it asked for
    available       \* observed: the workers nobody else took since it read m_approx_size

idleVars == <<m_idle_flags, m_approx_size, at, scan, asked, available>>

NoScan == [caller |-> NoIndex, start |-> 0, i |-> 0, max |-> 0, found |-> {}]

\* The flags, the counter and the scans.
IdleTypeOK ==
    /\ m_idle_flags \subseteq Workers
    /\ m_approx_size \in Int
    /\ at \in [Callers -> {"out", "add", "subtract", "scan", "exchange", "acquired"}]
    /\ scan \in [Callers -> [caller : Workers \cup {NoIndex}, start : Workers, i : 0 .. Size,
                             max : 0 .. Size, found : SUBSET Workers]]
    /\ asked \in [Callers -> 0 .. Size]
    /\ available \in [Callers -> SUBSET Workers]

\* The pool's constructor marks every worker idle.
IdleInit ==
    /\ m_idle_flags = Workers
    /\ m_approx_size = Size
    /\ at = [t \in Callers |-> "out"]
    /\ scan = [t \in Callers |-> NoScan]
    /\ asked = [t \in Callers |-> 0]
    /\ available = [t \in Callers |-> {}]

At(labels) == {t \in Callers : at[t] \in labels}
CallGoes(t, to) == at' = [at EXCEPT ![t] = to]
Calls(t) == at[t] = "out" /\ Cardinality(At({"out"})) > Cardinality(Callers) - MaxCalls

\* Thread t takes worker w's flag away: w is no longer there for the others.
Clear(t, w) ==
    /\ m_idle_flags' = m_idle_flags \ {w}
    /\ available' = [u \in Callers |-> IF u = t THEN available[u] ELSE available[u] \ {w}]

-----------------------------------------------------------------------------
(* A worker's own flag.                                                    *)

set_idle(w) ==
    /\ Calls(w)
    /\ m_idle_flags' = m_idle_flags \cup {w}
    /\ CallGoes(w, IF w \in m_idle_flags THEN "out" ELSE "add")
    /\ UNCHANGED <<m_approx_size, scan, asked, available>>

add_one(w) ==
    /\ at[w] = "add"
    /\ m_approx_size' = m_approx_size + 1
    /\ CallGoes(w, "out")
    /\ UNCHANGED <<m_idle_flags, scan, asked, available>>

\* Mutant: set_active without the early return for a flag that is active already.
set_active_unchecked(w) ==
    /\ Calls(w)
    /\ Clear(w, w)
    /\ CallGoes(w, "subtract")
    /\ UNCHANGED <<m_approx_size, scan, asked>>

set_active(w) ==
    /\ Calls(w)
    /\ Clear(w, w)
    /\ CallGoes(w, IF w \in m_idle_flags THEN "subtract" ELSE "out")
    /\ UNCHANGED <<m_approx_size, scan, asked>>

subtract_one(w) ==
    /\ at[w] = "subtract"
    /\ m_approx_size' = m_approx_size - 1
    /\ CallGoes(w, "out")
    /\ UNCHANGED <<m_idle_flags, scan, asked, available>>

-----------------------------------------------------------------------------
(* find_idle_worker and find_idle_workers.                                 *)

\* A count of zero or less ends the call; a positive one also limits how many
\* workers are looked for.
MaxWaiters(max_count) == IF m_approx_size <= 0 THEN 0 ELSE Min({m_approx_size, max_count})

\* The first access, to m_approx_size.  What is available is recorded when no
\* worker has set its flag without having been counted yet.
StartScan(t, caller, start, max_count) ==
    /\ Calls(t)
    /\ CallGoes(t, "scan")
    /\ scan' = [scan EXCEPT ![t] = [caller |-> caller, start |-> start, i |-> 0,
                                    max |-> MaxWaiters(max_count), found |-> {}]]
    /\ asked' = [asked EXCEPT ![t] = max_count]
    /\ available' = [available EXCEPT ![t] = IF At({"add"}) = {} THEN m_idle_flags ELSE {}]
    /\ UNCHANGED <<m_idle_flags, m_approx_size>>

\* A worker passes its own index and starts there, a worker of another pool the
\* index that it has there; a thread in no pool starts at a hash of its id.
find_idle_worker(t) ==
    \/ t \in Workers /\ StartScan(t, t, t, 1)
    \/ t \in Clients /\ \E w \in Workers : StartScan(t, w, w, 1) \/ StartScan(t, NoIndex, w, 1)

\* balance_work asks for one worker per task that it can spare.
find_idle_workers(w) == \E max_count \in 1 .. Size - 1 : StartScan(w, w, w, max_count)

Index(t) == (scan[t].start + scan[t].i) % Size
ScanEnds(t) == scan[t].i = Size \/ Cardinality(scan[t].found) = scan[t].max
Advance(t) == [scan[t] EXCEPT !.i = @ + 1]

\* try_acquire_flag loads the flag of the next worker; a caller's own index is
\* skipped.
load_flag(t) ==
    /\ at[t] = "scan" /\ ~ScanEnds(t)
    /\ IF Index(t) # scan[t].caller /\ Index(t) \in m_idle_flags
       THEN CallGoes(t, "exchange") /\ UNCHANGED scan
       ELSE scan' = [scan EXCEPT ![t] = Advance(t)] /\ UNCHANGED at
    /\ UNCHANGED <<m_idle_flags, m_approx_size, asked, available>>

\* Mutant: try_acquire_flag trusts its load, whatever it swapped out.
exchange_flag_blind(t) ==
    /\ at[t] = "exchange"
    /\ Clear(t, Index(t))
    /\ CallGoes(t, "acquired")
    /\ UNCHANGED <<m_approx_size, scan, asked>>

\* Only the thread that changes the flag has acquired the worker.
exchange_flag(t) ==
    /\ at[t] = "exchange"
    /\ Clear(t, Index(t))
    /\ IF Index(t) \in m_idle_flags
       THEN CallGoes(t, "acquired") /\ UNCHANGED scan
       ELSE CallGoes(t, "scan") /\ scan' = [scan EXCEPT ![t] = Advance(t)]
    /\ UNCHANGED <<m_approx_size, asked>>

acquire_flag(t) ==
    /\ at[t] = "acquired"
    /\ m_approx_size' = m_approx_size - 1
    /\ CallGoes(t, "scan")
    /\ scan' = [scan EXCEPT ![t] = [Advance(t) EXCEPT !.found = @ \cup {Index(t)}]]
    /\ UNCHANGED <<m_idle_flags, asked, available>>

return_found(t) ==
    /\ at[t] = "scan" /\ ScanEnds(t)
    /\ CallGoes(t, "out")
    /\ scan' = [scan EXCEPT ![t] = NoScan]
    /\ asked' = [asked EXCEPT ![t] = 0]
    /\ available' = [available EXCEPT ![t] = {}]
    /\ UNCHANGED <<m_idle_flags, m_approx_size>>

-----------------------------------------------------------------------------
IdleNext ==
    \/ \E w \in Workers : set_idle(w) \/ add_one(w) \/ set_active(w) \/ subtract_one(w)
                          \/ find_idle_workers(w)
    \/ \E t \in Callers : find_idle_worker(t) \/ load_flag(t) \/ exchange_flag(t)
                          \/ acquire_flag(t) \/ return_found(t)

IdleSpec == IdleInit /\ [][IdleNext]_idleVars

-----------------------------------------------------------------------------
\* m_approx_size is off by the updates in flight and by nothing else, whoever
\* races for a flag: once every call has returned it counts the idle workers, so
\* it neither drifts below zero, which would hide idle workers from every later
\* call, nor above, which would send every call on a scan for nothing.
ApproxSizeIsExact ==
    m_approx_size = Cardinality(m_idle_flags) - Cardinality(At({"add"}))
                    + Cardinality(At({"subtract", "acquired"}))

\* A scan acquires no more workers than it was asked for and never the caller;
\* a flag it has cleared is one it looked at.
ScansAreBounded ==
    \A t \in Callers :
        /\ Cardinality(scan[t].found) <= scan[t].max /\ scan[t].max <= asked[t]
        /\ scan[t].caller \notin scan[t].found
        /\ at[t] \in {"exchange", "acquired"} => ~ScanEnds(t) /\ Index(t) # scan[t].caller

\* What holds of idle_worker_set between any two atomic accesses: the types, the
\* count that m_approx_size keeps, and the limits of a scan.
IdleInv == IdleTypeOK /\ ApproxSizeIsExact /\ ScansAreBounded

\* find_idle_worker(s) comes back with fewer workers than it was asked for only
\* if there were no more: as many as were idle when it read m_approx_size and
\* were left alone by everyone else until it returned.  It holds for calls that
\* start when no worker is between its flag and its fetch_add; a call that
\* starts there may miss as many workers as are not counted yet.
FindsWhatStaysIdle ==
    \A t \in Callers :
        at[t] = "scan" /\ ScanEnds(t) =>
            Cardinality(scan[t].found) >=
                Min({asked[t], Cardinality(available[t] \ {scan[t].caller})})

=============================================================================
