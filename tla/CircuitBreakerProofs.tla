------------------------ MODULE CircuitBreakerProofs ------------------------
(* Proofs about the circuit breakers: the probes of a half-open circuit    *)
(* are counted exactly, calls of earlier generations count for nothing,    *)
(* and the breaker for tasks does nothing the one for threads cannot do.   *)
EXTENDS AsyncCircuitBreaker, FiniteSetTheorems, TLAPS

Admissions == [running : BOOLEAN, generation : Nat, probe : BOOLEAN, at : Nat]

\* A new generation is a circuit in which nothing is counted yet.
LEMMA TransitionOK ==
    ASSUME NEW d \in Circuits, NEW now \in Nat,
           NEW s \in {"CLOSED", "OPEN", "HALF_OPEN"}
    PROVE  /\ Transition(d, s, now) \in Circuits
           /\ Transition(d, s, now).state = s
           /\ Transition(d, s, now).slots = 0
           /\ Transition(d, s, now).generation = d.generation + 1
  BY ThresholdAssumption DEF Transition, Circuits

\* The calls of the current generation are finitely many.
LEMMA FreshFinite ==
    ASSUME TypeOK
    PROVE  IsFiniteSet(fresh) /\ Cardinality(fresh) \in Nat
  BY CallAssumption, FS_Subset, FS_CardinalityType DEF TypeOK

\* How the end of a call may change the circuit: it stays in its generation
\* and gets the slot of a probe back, or it begins a new generation.
Stays(c, d) ==
    /\ d.state = circuit.state
    /\ d.generation = circuit.generation
    /\ d.slots = IF circuit.state = "HALF_OPEN" /\ c \in fresh
                 THEN circuit.slots - 1 ELSE circuit.slots

Moves(d) ==
    /\ d.state # circuit.state
    /\ d.generation = circuit.generation + 1
    /\ d.slots = 0

\* A transition to another state begins a new generation.
LEMMA TransitionMoves ==
    ASSUME circuit \in Circuits, NEW now \in Nat,
           NEW s \in {"CLOSED", "OPEN", "HALF_OPEN"}, s # circuit.state
    PROVE  /\ Transition(circuit, s, now) \in Circuits
           /\ Moves(Transition(circuit, s, now))
  BY TransitionOK DEF Moves

\* A probe that runs has a slot, so the count does not become negative.
LEMMA SlotOfProbe ==
    ASSUME IInv, NEW c \in fresh, circuit.state = "HALF_OPEN"
    PROVE  /\ circuit.slots \in 1 .. HalfOpenMax
           /\ Cardinality(fresh \ {c}) = circuit.slots - 1
  <1>1. TypeOK /\ SlotsCounted BY DEF IInv
  <1>2. IsFiniteSet(fresh) /\ Cardinality(fresh) \in Nat BY <1>1, FreshFinite
  <1>3. circuit.slots = Cardinality(fresh) BY <1>1 DEF SlotsCounted
  <1>4. Cardinality(fresh) # 0 BY <1>2, FS_EmptySet
  <1>5. Cardinality(fresh \ {c}) = Cardinality(fresh) - 1
    BY <1>2, FS_RemoveElement
  <1>6. circuit.slots \in 0 .. HalfOpenMax BY <1>1 DEF TypeOK, Circuits
  <1> QED BY <1>2, <1>3, <1>4, <1>5, <1>6, ThresholdAssumption

\* A call is of the current generation exactly if it is fresh, and owns a
\* slot exactly if the circuit is half-open as well.
LEMMA CurrentIsFresh ==
    ASSUME IInv, NEW c \in Calls, call[c].running
    PROVE  /\ IsCurrent(circuit, call[c]) <=> c \in fresh
           /\ OwnsSlot(circuit, call[c]) <=>
                 c \in fresh /\ circuit.state = "HALF_OPEN"
  BY DEF IInv, GenerationInv, IsCurrent, OwnsSlot

\* ignore gives the slot of a probe back and does nothing else.
LEMMA IgnoredOK ==
    ASSUME IInv, NEW c \in Calls, call[c].running
    PROVE  /\ Ignored(circuit, call[c]) \in Circuits
           /\ Stays(c, Ignored(circuit, call[c]))
  <1>1. circuit \in Circuits BY DEF IInv, TypeOK
  <1>2. CASE OwnsSlot(circuit, call[c])
    <2>1. c \in fresh /\ circuit.state = "HALF_OPEN" BY <1>2, CurrentIsFresh
    <2>2. circuit.slots \in 1 .. HalfOpenMax BY <2>1, SlotOfProbe
    <2> QED BY <1>1, <1>2, <2>1, <2>2, ThresholdAssumption
            DEF Ignored, Stays, Circuits
  <1>3. CASE ~OwnsSlot(circuit, call[c])
    BY <1>1, <1>3, CurrentIsFresh DEF Ignored, Stays
  <1> QED BY <1>2, <1>3

\* succeed counts a probe, closes the circuit, or resets the failures.
LEMMA SucceededOK ==
    ASSUME IInv, NEW c \in Calls, call[c].running, NEW now \in Nat
    PROVE  LET d == Succeeded(circuit, call[c], now)
           IN  d \in Circuits /\ (Stays(c, d) \/ Moves(d))
  <1>1. circuit \in Circuits BY DEF IInv, TypeOK
  <1>2. CASE OwnsSlot(circuit, call[c])
    <2>1. c \in fresh /\ circuit.state = "HALF_OPEN" BY <1>2, CurrentIsFresh
    <2>2. circuit.slots \in 1 .. HalfOpenMax BY <2>1, SlotOfProbe
    <2>3. CASE circuit.successes + 1 >= RecoveryThreshold
      <3>1. Succeeded(circuit, call[c], now) = Transition(circuit, "CLOSED", now)
        BY <1>2, <2>3 DEF Succeeded
      <3>2. /\ Transition(circuit, "CLOSED", now) \in Circuits
            /\ Moves(Transition(circuit, "CLOSED", now))
        BY <1>1, <2>1, TransitionMoves
      <3> QED BY <3>1, <3>2
    <2>4. CASE ~(circuit.successes + 1 >= RecoveryThreshold)
      <3>1. Succeeded(circuit, call[c], now) =
              [circuit EXCEPT !.slots = @ - 1, !.successes = @ + 1]
        BY <1>2, <2>4 DEF Succeeded
      <3>2. circuit.successes + 1 \in 0 .. RecoveryThreshold - 1
        BY <1>1, <2>4, ThresholdAssumption DEF Circuits
      <3>3. circuit.slots - 1 \in 0 .. HalfOpenMax
        BY <2>2, ThresholdAssumption
      <3>4. Succeeded(circuit, call[c], now) \in Circuits
        BY <1>1, <3>1, <3>2, <3>3 DEF Circuits
      <3>5. Stays(c, Succeeded(circuit, call[c], now))
        BY <1>1, <2>1, <3>1 DEF Stays, Circuits
      <3> QED BY <3>4, <3>5
    <2> QED BY <2>3, <2>4
  <1>3. CASE ~OwnsSlot(circuit, call[c])
    <2>1. ~(c \in fresh /\ circuit.state = "HALF_OPEN") BY <1>3, CurrentIsFresh
    <2>2. \/ Succeeded(circuit, call[c], now) = [circuit EXCEPT !.failures = 0]
          \/ Succeeded(circuit, call[c], now) = circuit
      BY <1>3 DEF Succeeded
    <2> QED BY <1>1, <2>1, <2>2, ThresholdAssumption DEF Stays, Circuits
  <1> QED BY <1>2, <1>3

\* fail opens the circuit or counts a failure of the closed one.
LEMMA FailedOK ==
    ASSUME IInv, NEW c \in Calls, call[c].running, NEW now \in Nat
    PROVE  LET d == Failed(circuit, call[c], now)
           IN  d \in Circuits /\ (Stays(c, d) \/ Moves(d))
  <1>1. circuit \in Circuits BY DEF IInv, TypeOK
  <1>2. CASE OwnsSlot(circuit, call[c])
    <2>1. circuit.state = "HALF_OPEN" BY <1>2, CurrentIsFresh
    <2>2. Failed(circuit, call[c], now) = Transition(circuit, "OPEN", now)
      BY <1>2 DEF Failed
    <2>3. /\ Transition(circuit, "OPEN", now) \in Circuits
          /\ Moves(Transition(circuit, "OPEN", now))
      BY <1>1, <2>1, TransitionMoves
    <2> QED BY <2>2, <2>3
  <1>3. CASE ~OwnsSlot(circuit, call[c])
    <2>1. ~(c \in fresh /\ circuit.state = "HALF_OPEN") BY <1>3, CurrentIsFresh
    <2>2. \/ Failed(circuit, call[c], now) = circuit
          \/ /\ circuit.state = "CLOSED"
             /\ Failed(circuit, call[c], now) = Transition(circuit, "OPEN", now)
          \/ /\ ~(circuit.failures + 1 >= FailureThreshold)
             /\ Failed(circuit, call[c], now) =
                  [circuit EXCEPT !.failures = @ + 1]
      BY <1>3 DEF Failed
    <2>3. CASE Failed(circuit, call[c], now) = circuit
      BY <1>1, <2>1, <2>3 DEF Stays
    <2>4. CASE /\ circuit.state = "CLOSED"
               /\ Failed(circuit, call[c], now) = Transition(circuit, "OPEN", now)
      <3>1. /\ Transition(circuit, "OPEN", now) \in Circuits
            /\ Moves(Transition(circuit, "OPEN", now))
        BY <1>1, <2>4, TransitionMoves
      <3> QED BY <2>4, <3>1
    <2>5. CASE /\ ~(circuit.failures + 1 >= FailureThreshold)
               /\ Failed(circuit, call[c], now) =
                    [circuit EXCEPT !.failures = @ + 1]
      BY <1>1, <2>1, <2>5, ThresholdAssumption DEF Stays, Circuits
    <2> QED BY <2>2, <2>3, <2>4, <2>5
  <1> QED BY <1>2, <1>3

\* The end of a call keeps the invariant.
LEMMA EndStep ==
    ASSUME IInv, NEW c \in Calls, NEW d \in Circuits, End(c, d),
           Stays(c, d) \/ Moves(d)
    PROVE  IInv'
  <1>1. TypeOK /\ GenerationInv /\ SlotsCounted BY DEF IInv
  <1>2. /\ call[c].running /\ circuit' = d /\ clock' = clock
        /\ call' = [call EXCEPT ![c] = NoCall]
        /\ fresh' = IF d.state = circuit.state THEN fresh \ {c} ELSE {}
    BY DEF End
  <1>3. NoCall \in Admissions BY DEF NoCall, Admissions
  <1>4. TypeOK' BY <1>1, <1>2, <1>3 DEF TypeOK, Admissions
  <1>5. circuit.generation \in Nat /\ call \in [Calls -> Admissions]
    BY <1>1 DEF TypeOK, Circuits, Admissions
  <1>6. \A b \in Calls : call'[b] = IF b = c THEN NoCall ELSE call[b]
    BY <1>2, <1>5
  <1>7. CASE Stays(c, d)
    <2>1. fresh' = fresh \ {c} /\ circuit'.state = circuit.state
          /\ circuit'.generation = circuit.generation
      BY <1>2, <1>7 DEF Stays
    <2>2. GenerationInv'
      BY <1>1, <1>6, <2>1 DEF GenerationInv, NoCall
    <2>3. SlotsCounted'
      <3>1. CASE circuit.state = "HALF_OPEN" /\ c \in fresh
        BY <1>2, <1>7, <2>1, <3>1, SlotOfProbe DEF Stays, SlotsCounted
      <3>2. CASE circuit.state # "HALF_OPEN"
        BY <1>1, <1>2, <1>7, <2>1, <3>2 DEF Stays, SlotsCounted
      <3>3. CASE circuit.state = "HALF_OPEN" /\ c \notin fresh
        <4>1. fresh \ {c} = fresh BY <3>3
        <4> QED BY <1>1, <1>2, <1>7, <2>1, <3>3, <4>1 DEF Stays, SlotsCounted
      <3> QED BY <3>1, <3>2, <3>3
    <2> QED BY <1>4, <2>2, <2>3 DEF IInv
  <1>8. CASE Moves(d)
    <2>1. fresh' = {} /\ circuit'.generation = circuit.generation + 1
          /\ circuit'.slots = 0
      BY <1>2, <1>8 DEF Moves
    <2>2. \A b \in Calls : call'[b].running =>
             call'[b].generation \in Nat /\ call'[b].generation <= circuit.generation
      BY <1>1, <1>5, <1>6 DEF GenerationInv, NoCall, Admissions
    <2>3. GenerationInv' BY <1>5, <2>1, <2>2 DEF GenerationInv
    <2>4. SlotsCounted' BY <2>1, FS_EmptySet DEF SlotsCounted
    <2> QED BY <1>4, <2>3, <2>4 DEF IInv
  <1> QED BY <1>7, <1>8

\* The admission of a call keeps the invariant.
LEMMA AdmitStep ==
    ASSUME IInv, NEW c \in Calls, NEW now \in Nat, Admit(c, now)
    PROVE  IInv'
  <1> DEFINE d == Tried(circuit, now)
  <1> DEFINE a == [running |-> TRUE, generation |-> d.generation,
                   probe |-> d.state = "HALF_OPEN", at |-> clock]
  <1>1. TypeOK /\ GenerationInv /\ SlotsCounted BY DEF IInv
  <1>2. /\ ~call[c].running /\ Admits(d) /\ circuit' = Admitted(d)
        /\ call' = [call EXCEPT ![c] = a]
        /\ fresh' = IF d.state = circuit.state THEN fresh \cup {c} ELSE {c}
        /\ clock' = clock
    BY DEF Admit
  <1>3. circuit \in Circuits /\ clock \in Nat /\ call \in [Calls -> Admissions]
    BY <1>1 DEF TypeOK, Admissions
  <1>4. \/ d = circuit
        \/ /\ circuit.state = "OPEN" /\ d.state = "HALF_OPEN" /\ d.slots = 0
           /\ d.generation = circuit.generation + 1 /\ d \in Circuits
    BY <1>3, TransitionOK DEF Tried
  <1>5. d \in Circuits BY <1>3, <1>4
  <1>6. /\ d.generation \in Nat /\ circuit.generation \in Nat
        /\ d.slots \in 0 .. HalfOpenMax
    BY <1>3, <1>5 DEF Circuits
  <1>7. /\ circuit'.state = d.state /\ circuit'.generation = d.generation
        /\ circuit'.slots = IF d.state = "HALF_OPEN" THEN d.slots + 1 ELSE d.slots
        /\ circuit' \in Circuits
        /\ d.state # "OPEN"
    BY <1>2, <1>5, ThresholdAssumption DEF Admitted, Admits, Circuits
  <1>8. a \in Admissions BY <1>3, <1>6 DEF Admissions
  <1> HIDE DEF d, a
  <1>9. \A b \in Calls : call'[b] = IF b = c THEN a ELSE call[b] BY <1>2, <1>3
  <1>10. /\ a.running /\ a.generation = d.generation
         /\ a.probe <=> d.state = "HALF_OPEN"
    BY DEF a
  <1>11. TypeOK'
    <2>1. call' \in [Calls -> Admissions] BY <1>2, <1>3, <1>8
    <2>2. fresh' \subseteq Calls BY <1>1, <1>2 DEF TypeOK
    <2> QED BY <1>2, <1>3, <1>7, <2>1, <2>2 DEF TypeOK, Admissions
  <1>12. c \notin fresh BY <1>1, <1>2 DEF GenerationInv
  <1>13. CASE d = circuit
    <2>1. fresh' = fresh \cup {c} BY <1>2, <1>13
    <2>2. GenerationInv'
      BY <1>1, <1>6, <1>7, <1>9, <1>10, <1>13, <2>1 DEF GenerationInv
    <2>3. Cardinality(fresh \cup {c}) = Cardinality(fresh) + 1
      BY <1>1, <1>12, FreshFinite, FS_AddElement
    <2>4. SlotsCounted'
      BY <1>1, <1>7, <1>13, <2>1, <2>3 DEF SlotsCounted
    <2> QED BY <1>11, <2>2, <2>4 DEF IInv
  <1>14. CASE /\ circuit.state = "OPEN" /\ d.state = "HALF_OPEN" /\ d.slots = 0
              /\ d.generation = circuit.generation + 1
    <2>1. fresh' = {c} BY <1>2, <1>14
    <2>2. \A b \in Calls : call[b].running =>
             call[b].generation \in Nat /\ call[b].generation <= circuit.generation
      BY <1>1, <1>3 DEF GenerationInv, Admissions
    <2>3. \A b \in Calls : call'[b].running /\ call'[b].generation = circuit'.generation
             <=> b = c
      BY <1>6, <1>7, <1>9, <1>10, <1>14, <2>2
    <2>4. fresh' = {b \in Calls : call'[b].running
                       /\ call'[b].generation = circuit'.generation}
      BY <2>1, <2>3
    <2>5. \A b \in Calls : call'[b].running =>
             call'[b].generation <= circuit'.generation
      BY <1>6, <1>7, <1>9, <1>10, <1>14, <2>2
    <2>6. GenerationInv'
      BY <1>7, <1>9, <1>10, <1>14, <2>1, <2>4, <2>5 DEF GenerationInv
    <2>7. Cardinality({c}) = 1 BY FS_Singleton
    <2>8. SlotsCounted' BY <1>7, <1>14, <2>1, <2>7 DEF SlotsCounted
    <2> QED BY <1>11, <2>6, <2>8 DEF IInv
  <1> QED BY <1>4, <1>13, <1>14

\* What a step of the breaker can be.
LEMMA StepCases ==
    ASSUME IInv, Next
    PROVE  \/ \E c \in Calls, now \in Nat : Admit(c, now)
           \/ UNCHANGED vars
           \/ \E c \in Calls, d \in Circuits :
                 /\ End(c, d)
                 /\ Stays(c, d) \/ Moves(d)
                 /\ c \notin fresh => d = circuit
           \/ UNCHANGED <<circuit, call, fresh>> /\ clock' \in Nat
  <1>0. clock \in Nat BY DEF IInv, TypeOK
  <1>1. CASE \E c \in Calls, now \in 0 .. clock : Admit(c, now)
    BY <1>0, <1>1
  <1>2. CASE \E c \in Calls, now \in 0 .. clock : Reject(c, now)
    BY <1>2 DEF Reject
  <1>3. CASE \E c \in Calls, now \in 0 .. clock : Succeed(c, now)
    <2>1. PICK c \in Calls, now \in 0 .. clock : Succeed(c, now) BY <1>3
    <2>2. call[c].running /\ End(c, Succeeded(circuit, call[c], now))
      BY <2>1 DEF Succeed, End
    <2>3. c \notin fresh => Succeeded(circuit, call[c], now) = circuit
      BY <2>2, CurrentIsFresh DEF Succeeded
    <2>4. now \in Nat BY <1>0
    <2> QED BY <2>2, <2>3, <2>4, SucceededOK
  <1>4. CASE \E c \in Calls, now \in 0 .. clock : Fail(c, now)
    <2>1. PICK c \in Calls, now \in 0 .. clock : Fail(c, now) BY <1>4
    <2>2. call[c].running /\ End(c, Failed(circuit, call[c], now))
      BY <2>1 DEF Fail, End
    <2>3. c \notin fresh => Failed(circuit, call[c], now) = circuit
      BY <2>2, CurrentIsFresh DEF Failed
    <2>4. now \in Nat BY <1>0
    <2> QED BY <2>2, <2>3, <2>4, FailedOK
  <1>5. CASE \E c \in Calls : Release(c)
    <2>1. PICK c \in Calls : Release(c) BY <1>5
    <2>2. call[c].running /\ End(c, Ignored(circuit, call[c]))
      BY <2>1 DEF Release, End
    <2>3. c \notin fresh => Ignored(circuit, call[c]) = circuit
      BY <2>2, CurrentIsFresh DEF Ignored
    <2> QED BY <2>2, <2>3, IgnoredOK
  <1>6. CASE Tick
    BY <1>0, <1>6 DEF Tick
  <1> QED BY <1>1, <1>2, <1>3, <1>4, <1>5, <1>6 DEF Next

\* The invariant holds at the start.
LEMMA IInvInit == Init => IInv
  <1> SUFFICES ASSUME Init PROVE IInv OBVIOUS
  <1>1. TypeOK
    BY ThresholdAssumption DEF Init, TypeOK, ClosedCircuit, Circuits, NoCall
  <1>2. GenerationInv BY DEF Init, GenerationInv, NoCall
  <1>3. SlotsCounted BY DEF Init, SlotsCounted, ClosedCircuit
  <1> QED BY <1>1, <1>2, <1>3 DEF IInv

\* Every step keeps the invariant.
LEMMA IInvStep == IInv /\ [Next]_vars => IInv'
  <1> SUFFICES ASSUME IInv, [Next]_vars PROVE IInv' OBVIOUS
  <1>1. CASE UNCHANGED vars
    BY <1>1 DEF vars, IInv, TypeOK, GenerationInv, SlotsCounted
  <1>2. CASE UNCHANGED <<circuit, call, fresh>> /\ clock' \in Nat
    BY <1>2 DEF IInv, TypeOK, GenerationInv, SlotsCounted
  <1>3. CASE \E c \in Calls, now \in Nat : Admit(c, now)
    BY <1>3, AdmitStep
  <1>4. CASE \E c \in Calls, d \in Circuits : End(c, d) /\ (Stays(c, d) \/ Moves(d))
    BY <1>4, EndStep
  <1> QED BY <1>1, <1>2, <1>3, <1>4, StepCases

\* The invariant holds in every behaviour of the breaker.
THEOREM Invariance == Spec => []IInv
  <1> QED BY IInvInit, IInvStep, PTL DEF Spec

\* Every variable keeps its type, and the counters of the circuit stay below
\* their thresholds.
THEOREM TypeCorrect == Spec => []TypeOK
  <1>1. IInv => TypeOK BY DEF IInv
  <1> QED BY <1>1, Invariance, PTL

\* half_open_in_flight is the number of running probes of this generation.
THEOREM SlotsCorrect == Spec => []SlotsCounted
  <1>1. IInv => SlotsCounted BY DEF IInv
  <1> QED BY <1>1, Invariance, PTL

\* Calls of an earlier generation end without any effect on the circuit.
THEOREM LateEndsCorrect == Spec => LateEndsHarmless
  <1> DEFINE Harmless ==
        \A c \in Calls :
            call[c].running /\ ~call'[c].running /\ c \notin fresh =>
                circuit' = circuit
  <1>1. IInv /\ [Next]_vars => Harmless \/ UNCHANGED vars
    <2> SUFFICES ASSUME IInv, Next PROVE Harmless OBVIOUS
    <2> SUFFICES ASSUME NEW c \in Calls, call[c].running, ~call'[c].running,
                        c \notin fresh
                 PROVE  circuit' = circuit
      OBVIOUS
    <2>0. call \in [Calls -> Admissions] BY DEF IInv, TypeOK, Admissions
    <2>1. CASE UNCHANGED vars BY <2>1 DEF vars
    <2>2. CASE UNCHANGED <<circuit, call, fresh>> BY <2>2
    <2>3. CASE \E b \in Calls, now \in Nat : Admit(b, now)
      <3>1. PICK b \in Calls, now \in Nat : Admit(b, now) BY <2>3
      <3>2. call'[c].running BY <2>0, <3>1 DEF Admit
      <3> QED BY <3>2
    <2>4. CASE \E b \in Calls, d \in Circuits :
                  End(b, d) /\ (b \notin fresh => d = circuit)
      <3>1. PICK b \in Calls, d \in Circuits :
               End(b, d) /\ (b \notin fresh => d = circuit)
        BY <2>4
      <3>2. b = c BY <2>0, <3>1 DEF End
      <3> QED BY <3>1, <3>2 DEF End
    <2> QED BY <2>1, <2>2, <2>3, <2>4, StepCases
  <1>2. IInv /\ [Next]_vars => [Harmless]_vars BY <1>1
  <1> QED BY <1>2, Invariance, PTL DEF Spec, LateEndsHarmless

-----------------------------------------------------------------------------
(* The breaker for tasks                                                   *)

\* A task does nothing to the circuit that a thread could not do: its reading
\* of the clock is one of those a thread may have, and a cancellation is a
\* call that is not counted.
LEMMA AsyncStep ==
    ASSUME clock \in Nat, BreakerNext
    PROVE  Next \/ UNCHANGED vars
  <1>0. clock \in 0 .. clock OBVIOUS
  <1>1. CASE ThreadsNext BY <1>1 DEF ThreadsNext
  <1>2. CASE \E c \in Calls : Observe(c) BY <1>2 DEF Observe
  <1>3. CASE \E c \in Calls : AsyncAdmit(c) BY <1>0, <1>3 DEF AsyncAdmit, Next
  <1>4. CASE \E c \in Calls : AsyncReject(c) BY <1>0, <1>4 DEF AsyncReject, Next
  <1>5. CASE \E c \in Calls : AsyncSucceed(c) BY <1>0, <1>5 DEF AsyncSucceed, Next
  <1>6. CASE \E c \in Calls : AsyncFail(c) BY <1>0, <1>6 DEF AsyncFail, Next
  <1>7. CASE \E c \in Calls : AsyncRelease(c) BY <1>7 DEF AsyncRelease, Next
  <1>8. CASE Tick BY <1>8 DEF Next
  <1> QED BY <1>1, <1>2, <1>3, <1>4, <1>5, <1>6, <1>7, <1>8
          DEF BreakerNext, AsyncNext

\* Both breakers implement the breaker for threads, so that what is proved of
\* it holds of either: the slots are counted and late ends are harmless.
THEOREM AsyncImplements == BreakerSpec => Spec
  <1>1. BreakerInit => Init BY DEF BreakerInit
  <1>2. BreakerInit => IInv BY <1>1, IInvInit
  <1>3. IInv /\ [BreakerNext]_breakerVars => [Next]_vars
    <2> SUFFICES ASSUME IInv, [BreakerNext]_breakerVars PROVE [Next]_vars OBVIOUS
    <2>1. clock \in Nat BY DEF IInv, TypeOK
    <2>2. CASE BreakerNext BY <2>1, <2>2, AsyncStep
    <2>3. CASE UNCHANGED breakerVars BY <2>3 DEF breakerVars
    <2> QED BY <2>2, <2>3
  <1>4. IInv /\ [BreakerNext]_breakerVars => IInv' BY <1>3, IInvStep
  <1> QED BY <1>1, <1>2, <1>3, <1>4, PTL DEF Spec, BreakerSpec

\* No task of another event loop runs under the breaker.
THEOREM OneLoopCorrect == BreakerSpec => []OneLoop
  <1> DEFINE LoopInv == TypeOK /\ loop \in Loops \cup {NoLoop, Threads} /\ OneLoop
                        /\ (loop = NoLoop => \A c \in Calls : ~call[c].running)
  <1>1. BreakerInit => LoopInv
    BY IInvInit DEF BreakerInit, IInv, Init, NoCall, OneLoop
  <1>2. LoopInv /\ TypeOK' /\ [BreakerNext]_breakerVars => LoopInv'
    <2> SUFFICES ASSUME LoopInv, TypeOK', [BreakerNext]_breakerVars PROVE LoopInv'
      OBVIOUS
    <2>0. /\ call \in [Calls -> Admissions]
          /\ LoopOf \in [Calls -> Loops]
          /\ NoLoop \notin Loops
          /\ Threads \notin Loops \cup {NoLoop}
      BY LoopAssumption DEF TypeOK, Admissions
    <2>1. CASE UNCHANGED <<call, loop>> BY <2>1 DEF OneLoop
    <2>2. CASE loop = Threads /\ loop' = loop BY <2>2, <2>0 DEF OneLoop
    <2>3. CASE \E c \in Calls : BindLoop(c) /\ UNCHANGED vars
      <3>1. PICK c \in Calls : BindLoop(c) /\ UNCHANGED vars BY <2>3
      <3> QED BY <2>0, <3>1 DEF BindLoop, vars, OneLoop
    <2>4. CASE \E c \in Calls : AsyncAdmit(c)
      <3>1. PICK c \in Calls : BindLoop(c) /\ Admit(c, clock)
        BY <2>4 DEF AsyncAdmit
      <3>2. \A b \in Calls \ {c} : call'[b] = call[b] BY <2>0, <3>1 DEF Admit
      <3>3. loop' = LoopOf[c] /\ loop \in {NoLoop, LoopOf[c]}
        BY <3>1 DEF BindLoop
      <3> QED BY <2>0, <3>2, <3>3 DEF OneLoop
    <2>5. CASE \E c \in Calls : \E d : loop = LoopOf[c] /\ loop' = loop /\ End(c, d)
      <3>0. PICK c \in Calls : \E d : loop = LoopOf[c] /\ loop' = loop /\ End(c, d)
        BY <2>5
      <3>1. PICK d : loop = LoopOf[c] /\ loop' = loop /\ End(c, d) BY <3>0
      <3>2. \A b \in Calls : call'[b].running => call[b].running
        BY <2>0, <3>1 DEF End, NoCall
      <3> QED BY <2>0, <3>1, <3>2 DEF OneLoop
    <2>6. CASE ThreadsNext BY <2>2, <2>6 DEF ThreadsNext
    <2>7. CASE \E c \in Calls : Observe(c) BY <2>3, <2>7 DEF Observe
    <2>8. CASE \E c \in Calls : AsyncReject(c)
      BY <2>3, <2>8 DEF AsyncReject, Reject
    <2>9. CASE \E c \in Calls : AsyncSucceed(c) \/ AsyncFail(c) \/ AsyncRelease(c)
      BY <2>5, <2>9 DEF AsyncSucceed, AsyncFail, AsyncRelease, Resumes,
                        Succeed, Fail, Release
    <2>10. CASE Tick /\ UNCHANGED loop BY <2>1, <2>10 DEF Tick
    <2>11. CASE UNCHANGED breakerVars BY <2>1, <2>11 DEF breakerVars, vars
    <2> QED BY <2>4, <2>6, <2>7, <2>8, <2>9, <2>10, <2>11
            DEF BreakerNext, AsyncNext
  <1>3. LoopInv => OneLoop OBVIOUS
  <1> QED BY <1>1, <1>2, <1>3, AsyncImplements, TypeCorrect, PTL DEF BreakerSpec

=============================================================================
