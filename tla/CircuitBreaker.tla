--------------------------- MODULE CircuitBreaker ---------------------------
(***************************************************************************)
(* The circuit breaker of bluetape-resilience that several threads share.  *)
(* Its state changes under a lock, when a call is admitted and when it     *)
(* ends; the operation, the failure predicate, the observer and the clock  *)
(* run outside the lock.  The clock is read before the lock is taken, so   *)
(* an admission may be decided on any earlier reading, and the end of a    *)
(* call on any reading since its admission.                                *)
(*                                                                         *)
(* A call that an operation or an observer makes is one more call.         *)
(***************************************************************************)
EXTENDS CircuitData, FiniteSets

CONSTANTS
    Calls,    \* calls that may run at the same time
    Outage,   \* the last instant at which operations fail
    MaxTick   \* bound: the last instant of the clock

ASSUME CallAssumption ==
    /\ IsFiniteSet(Calls)
    /\ Outage \in Nat
    /\ MaxTick \in Nat

VARIABLES
    circuit,  \* _data
    call,     \* the admission of each call
    clock,    \* what the clock shows
    fresh     \* auxiliary: running calls admitted since the last transition

vars == <<circuit, call, clock, fresh>>

\* at is what the clock showed at the admission.
NoCall == [running |-> FALSE, generation |-> 0, probe |-> FALSE, at |-> 0]

Init ==
    /\ circuit = ClosedCircuit
    /\ call = [c \in Calls |-> NoCall]
    /\ clock = 0
    /\ fresh = {}

Admit(c, now) ==
    /\ ~call[c].running
    /\ LET d == Tried(circuit, now)
       IN  /\ Admits(d)
           /\ circuit' = Admitted(d)
           /\ call' = [call EXCEPT ![c] =
                         [running |-> TRUE, generation |-> d.generation,
                          probe |-> d.state = "HALF_OPEN", at |-> clock]]
           /\ fresh' = IF d.state = circuit.state THEN fresh \cup {c} ELSE {c}
    /\ UNCHANGED clock

\* CircuitOpenError.  A circuit that is tried again has a slot for the call
\* that does it, so a call that is rejected changes nothing.
Reject(c, now) ==
    /\ ~call[c].running
    /\ ~Admits(Tried(circuit, now))
    /\ UNCHANGED vars

\* The call ends and leaves the circuit d; a transition makes the calls that
\* still run calls of the past.
End(c, d) ==
    /\ call[c].running
    /\ circuit' = d
    /\ call' = [call EXCEPT ![c] = NoCall]
    /\ fresh' = IF d.state = circuit.state THEN fresh \ {c} ELSE {}
    /\ UNCHANGED clock

Succeed(c, now) ==
    /\ now >= call[c].at
    /\ End(c, Succeeded(circuit, call[c], now))

\* The operation raises and the predicate counts it.
Fail(c, now) ==
    /\ clock <= Outage
    /\ now >= call[c].at
    /\ End(c, Failed(circuit, call[c], now))

\* _release: the call is not counted.  The predicate declines, the observer,
\* the predicate or the clock raises, or the operation is interrupted.
Release(c) ==
    /\ clock <= Outage
    /\ End(c, Ignored(circuit, call[c]))

Tick ==
    /\ clock < MaxTick
    /\ clock' = clock + 1
    /\ UNCHANGED <<circuit, call, fresh>>

Next ==
    \/ \E c \in Calls, now \in 0 .. clock :
          Admit(c, now) \/ Reject(c, now) \/ Succeed(c, now) \/ Fail(c, now)
    \/ \E c \in Calls : Release(c)
    \/ Tick

Spec == Init /\ [][Next]_vars

\* Time passes, operations end, and callers come back: a caller that comes
\* again and again will read the clock in time for one of its calls.
Fairness ==
    /\ WF_vars(Tick)
    /\ \A c \in Calls :
          /\ WF_vars(\E now \in 0 .. clock : Admit(c, now))
          /\ WF_vars(\E now \in 0 .. clock : Succeed(c, now))

FairSpec == Spec /\ Fairness

-----------------------------------------------------------------------------
(* Properties                                                              *)

\* Types; the counters of _data stay below their thresholds and the probes
\* within half_open_max_calls.
TypeOK ==
    /\ circuit \in Circuits
    /\ call \in [Calls -> [running : BOOLEAN, generation : Nat,
                           probe : BOOLEAN, at : Nat]]
    /\ clock \in Nat
    /\ fresh \subseteq Calls

\* half_open_in_flight is the number of probes that run and were admitted
\* since the circuit became half-open: no slot leaks, whichever way a call
\* ends and however many transitions it outlives, and none is given twice.
SlotsCounted ==
    circuit.slots = IF circuit.state = "HALF_OPEN" THEN Cardinality(fresh) ELSE 0

\* The end of a call that was admitted before the last transition of the
\* circuit changes nothing: a late success does not close a circuit that was
\* opened again, and a late failure does not open one that recovered.
LateEndsHarmless ==
    [][\A c \in Calls :
          call[c].running /\ ~call'[c].running /\ c \notin fresh =>
              circuit' = circuit]_vars

\* When the outage is over and callers keep calling, the circuit closes and
\* stays closed, whatever probes failed or were interrupted before.
Recovers == <>[](circuit.state = "CLOSED")

-----------------------------------------------------------------------------
(* The inductive invariant behind the safety properties                    *)

\* The generation of a call tells whether it is of the past.
GenerationInv ==
    /\ fresh = {c \in Calls : call[c].running
                                /\ call[c].generation = circuit.generation}
    /\ \A c \in Calls : call[c].running =>
          call[c].generation <= circuit.generation
    /\ \A c \in fresh : call[c].probe <=> circuit.state = "HALF_OPEN"
    /\ circuit.state = "OPEN" => fresh = {}

IInv ==
    /\ TypeOK
    /\ GenerationInv
    /\ SlotsCounted

=============================================================================
