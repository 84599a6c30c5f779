------------------------------ MODULE Bulkhead ------------------------------
(***************************************************************************)
(* The bulkheads of bluetape-resilience: at most MaxConcurrency calls run, *)
(* the others are rejected or wait on a condition for a bounded time.      *)
(* Every step runs under the lock of the condition; the operation and the  *)
(* observer run outside it.                                                *)
(*                                                                         *)
(* The two bulkheads differ in the end of a wait.  A thread whose time is  *)
(* up looks for a permit once more.  A task is cancelled, by its timeout   *)
(* or by its owner, and leaves also if it was just notified; the condition *)
(* of asyncio then notifies another task in its place.                     *)
(***************************************************************************)
EXTENDS Naturals, FiniteSets

CONSTANTS
    Callers,         \* threads or tasks that call the bulkhead
    MaxConcurrency   \* max_concurrency

ASSUME BulkheadAssumption ==
    /\ IsFiniteSet(Callers)
    /\ MaxConcurrency \in Nat \ {0}

VARIABLES
    at,        \* where each caller is
    inFlight,  \* _in_flight
    waiters,   \* _waiters
    kind       \* what was constructed: an AsyncBulkhead?  A positive max_wait?

vars == <<at, inFlight, waiters, kind>>

CallersAt(place) == {c \in Callers : at[c] = place}

Init ==
    /\ at = [c \in Callers |-> "outside"]
    /\ inFlight = 0
    /\ waiters = 0
    /\ kind \in [tasks : BOOLEAN, waits : BOOLEAN]

Full == inFlight >= MaxConcurrency

\* condition.notify(): one of those who wait in fact will look again.
Notified(places) ==
    IF \E w \in Callers : places[w] = "waiting"
    THEN {[places EXCEPT ![w] = "notified"] :
             w \in {v \in Callers : places[v] = "waiting"}}
    ELSE {places}

\* _acquire finds a permit.
Enter(c) ==
    /\ at[c] = "outside"
    /\ ~Full
    /\ at' = [at EXCEPT ![c] = "running"]
    /\ inFlight' = inFlight + 1
    /\ UNCHANGED <<waiters, kind>>

\* BulkheadRejectedError at once
Reject(c) ==
    /\ at[c] = "outside"
    /\ Full /\ ~kind.waits
    /\ UNCHANGED vars

StartWait(c) ==
    /\ at[c] = "outside"
    /\ Full /\ kind.waits
    /\ at' = [at EXCEPT ![c] = "waiting"]
    /\ waiters' = waiters + 1
    /\ UNCHANGED <<inFlight, kind>>

\* The wait is over and there is a permit.
TakePermit(c) ==
    /\ ~Full
    /\ at' = [at EXCEPT ![c] = "running"]
    /\ inFlight' = inFlight + 1
    /\ waiters' = waiters - 1
    /\ UNCHANGED kind

\* A caller that was notified looks again: somebody may have been faster.
Wake(c) ==
    /\ at[c] = "notified"
    /\ \/ TakePermit(c)
       \/ /\ Full
          /\ at' = [at EXCEPT ![c] = "waiting"]
          /\ UNCHANGED <<inFlight, waiters, kind>>

\* Faulty variant of Expire: a thread whose time is up leaves at once, even if
\* it was notified.
ExpireBlind(c) ==
    /\ ~kind.tasks
    /\ at[c] \in {"waiting", "notified"}
    /\ at' = [at EXCEPT ![c] = "outside"]
    /\ waiters' = waiters - 1
    /\ UNCHANGED <<inFlight, kind>>

\* The time of a waiting thread is up: a free permit is still taken.
Expire(c) ==
    /\ ~kind.tasks
    /\ at[c] \in {"waiting", "notified"}
    /\ \/ TakePermit(c)
       \/ /\ Full
          /\ at' = [at EXCEPT ![c] = "outside"]
          /\ waiters' = waiters - 1
          /\ UNCHANGED <<inFlight, kind>>

\* Condition.wait of asyncio notifies another waiter when it is cancelled.
PassOn(places) == Notified(places)

\* Faulty variant of Abandon: a task that is cancelled is still counted.
AbandonCounted(c) ==
    /\ kind.tasks
    /\ at[c] \in {"waiting", "notified"}
    /\ at' \in PassOn([at EXCEPT ![c] = "outside"])
    /\ UNCHANGED <<inFlight, waiters, kind>>

\* A waiting task is cancelled by its timeout or by its owner.
Abandon(c) ==
    /\ kind.tasks
    /\ at[c] \in {"waiting", "notified"}
    /\ at' \in PassOn([at EXCEPT ![c] = "outside"])
    /\ waiters' = waiters - 1
    /\ UNCHANGED <<inFlight, kind>>

\* Faulty variant of Release: nobody is told.
ReleaseQuiet(c) ==
    /\ at[c] = "running"
    /\ at' = [at EXCEPT ![c] = "outside"]
    /\ inFlight' = inFlight - 1
    /\ UNCHANGED <<waiters, kind>>

\* The call ends, in whatever way, and gives its permit back.
Release(c) ==
    /\ at[c] = "running"
    /\ at' \in Notified([at EXCEPT ![c] = "outside"])
    /\ inFlight' = inFlight - 1
    /\ UNCHANGED <<waiters, kind>>

Next ==
    \E c \in Callers :
        \/ Enter(c) \/ Reject(c) \/ StartWait(c)
        \/ Wake(c) \/ Expire(c) \/ Abandon(c)
        \/ Release(c)

Spec == Init /\ [][Next]_vars

-----------------------------------------------------------------------------
(* Properties                                                              *)

\* The types of the counters; _in_flight stays within max_concurrency, whoever
\* competes for the last permit.
TypeOK ==
    /\ at \in [Callers -> {"outside", "waiting", "notified", "running"}]
    /\ inFlight \in 0 .. MaxConcurrency
    /\ waiters \in Nat
    /\ kind \in [tasks : BOOLEAN, waits : BOOLEAN]

\* The snapshot tells the truth: every permit belongs to a call that runs, and
\* every waiter that is counted waits, however their waits and calls end.
PermitsCounted ==
    /\ inFlight = Cardinality(CallersAt("running"))
    /\ waiters = Cardinality(CallersAt("waiting") \cup CallersAt("notified"))

\* As long as somebody sleeps, every permit is in use or somebody was woken
\* for it: no wake-up is lost, although newcomers may be faster than the
\* caller that was woken, and although that caller may time out.
NoLostWakeup ==
    CallersAt("waiting") # {} =>
        inFlight + Cardinality(CallersAt("notified")) >= MaxConcurrency

\* A permit does not lie idle while callers sleep.
NoIdlePermit == []<>(Full \/ CallersAt("waiting") = {})

=============================================================================
