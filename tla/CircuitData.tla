----------------------------- MODULE CircuitData -----------------------------
(***************************************************************************)
(* _CircuitData of bluetape-resilience, the state machine that both        *)
(* circuit breakers drive under their lock: every operation is an operator *)
(* from a circuit to a circuit.                                            *)
(***************************************************************************)
EXTENDS Naturals

CONSTANTS
    FailureThreshold,   \* failure_threshold
    OpenDuration,       \* open_duration, in ticks
    HalfOpenMax,        \* half_open_max_calls
    RecoveryThreshold   \* recovery_success_threshold

ASSUME ThresholdAssumption ==
    /\ FailureThreshold \in Nat \ {0}
    /\ OpenDuration \in Nat \ {0}
    /\ HalfOpenMax \in Nat \ {0}
    /\ RecoveryThreshold \in Nat \ {0}

ClosedCircuit ==
    [state |-> "CLOSED", failures |-> 0, successes |-> 0, slots |-> 0,
     openUntil |-> 0, generation |-> 0]

\* Faulty variant of Transition: the slots of the last generation stay taken.
TransitionKept(d, state, now) ==
    [state |-> state, failures |-> 0, successes |-> 0, slots |-> d.slots,
     openUntil |-> IF state = "OPEN" THEN now + OpenDuration ELSE d.openUntil,
     generation |-> d.generation + 1]

\* _transition: a new generation, in which nothing has been counted.
Transition(d, state, now) ==
    [state |-> state, failures |-> 0, successes |-> 0, slots |-> 0,
     openUntil |-> IF state = "OPEN" THEN now + OpenDuration ELSE d.openUntil,
     generation |-> d.generation + 1]

\* First half of admit: after the deadline an open circuit is tried again.
Tried(d, now) ==
    IF d.state = "OPEN" /\ now >= d.openUntil
    THEN Transition(d, "HALF_OPEN", now)
    ELSE d

Admits(d) ==
    \/ d.state = "CLOSED"
    \/ d.state = "HALF_OPEN" /\ d.slots < HalfOpenMax

\* Second half of admit: a call of a half-open circuit takes a slot.
Admitted(d) ==
    IF d.state = "HALF_OPEN" THEN [d EXCEPT !.slots = @ + 1] ELSE d

\* Faulty variant of IsCurrent: the generation is not compared.
IsCurrentAlways(d, a) == TRUE

\* Is the admission a of the generation the circuit is in?
IsCurrent(d, a) == a.generation = d.generation

OwnsSlot(d, a) == IsCurrent(d, a) /\ a.probe /\ d.state = "HALF_OPEN"

\* Faulty variant of Ignored: a call that is not counted keeps its slot.
IgnoredKept(d, a) == d

\* ignore
Ignored(d, a) == IF OwnsSlot(d, a) THEN [d EXCEPT !.slots = @ - 1] ELSE d

\* succeed
Succeeded(d, a, now) ==
    IF OwnsSlot(d, a)
    THEN IF d.successes + 1 >= RecoveryThreshold
         THEN Transition(d, "CLOSED", now)
         ELSE [d EXCEPT !.slots = @ - 1, !.successes = @ + 1]
    ELSE IF IsCurrent(d, a) /\ d.state = "CLOSED"
    THEN [d EXCEPT !.failures = 0]
    ELSE d

\* fail
Failed(d, a, now) ==
    IF OwnsSlot(d, a)
    THEN Transition(d, "OPEN", now)
    ELSE IF IsCurrent(d, a) /\ d.state = "CLOSED"
    THEN IF d.failures + 1 >= FailureThreshold
         THEN Transition(d, "OPEN", now)
         ELSE [d EXCEPT !.failures = @ + 1]
    ELSE d

Circuits ==
    [state : {"CLOSED", "OPEN", "HALF_OPEN"},
     failures : 0 .. FailureThreshold - 1,
     successes : 0 .. RecoveryThreshold - 1,
     slots : 0 .. HalfOpenMax,
     openUntil : Nat,
     generation : Nat]

=============================================================================
