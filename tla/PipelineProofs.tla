--------------------------- MODULE PipelineProofs ---------------------------
(* Proofs about Bulkhead and Pipeline.  A bulkhead counts its permits and  *)
(* waiters exactly and loses no wake-up; the argument counts the callers   *)
(* at each place before and after a step.  A pipeline uses its bulkhead as *)
(* Bulkhead allows, so that the same holds of it, and the permit of a call *)
(* is never leaked; the invariant says for every call where it is among    *)
(* its policies, and what that means for its permit.                       *)
EXTENDS Pipeline, Integers, FiniteSetTheorems, TLAPS

-----------------------------------------------------------------------------
(* The bulkhead                                                            *)

Places == {"outside", "waiting", "notified", "running"}

\* The number of callers that f puts in one of the places P.
Count(f, P) == Cardinality({c \in Callers : f[c] \in P})

Sleeping == {"waiting"}
Woken    == {"notified"}
InWait   == {"waiting", "notified"}
Inside   == {"running"}

\* The inductive invariant, in terms of counts.
IInv ==
    /\ TypeOK
    /\ inFlight = Count(at, Inside)
    /\ waiters = Count(at, InWait)
    /\ Count(at, Sleeping) # 0 =>
          inFlight + Count(at, Woken) >= MaxConcurrency

\* Counts are numbers, and zero means that nobody is there.
LEMMA CountType ==
    ASSUME NEW f, NEW P
    PROVE  /\ IsFiniteSet({c \in Callers : f[c] \in P})
           /\ Count(f, P) \in Nat
           /\ Count(f, P) = 0 <=> \A c \in Callers : f[c] \notin P
  <1> DEFINE S == {c \in Callers : f[c] \in P}
  <1>1. IsFiniteSet(S) BY BulkheadAssumption, FS_Subset
  <1>2. Cardinality(S) \in Nat BY <1>1, FS_CardinalityType
  <1>3. Cardinality(S) = 0 <=> S = {} BY <1>1, FS_EmptySet
  <1> QED BY <1>1, <1>2, <1>3 DEF Count

\* What a change of one caller's place does to the count of a set of places.
LEMMA MoveCount ==
    ASSUME NEW f \in [Callers -> Places], NEW c \in Callers, NEW p \in Places,
           NEW P
    PROVE  LET g == [f EXCEPT ![c] = p]
           IN  /\ (p \in P <=> f[c] \in P) => Count(g, P) = Count(f, P)
               /\ p \in P /\ f[c] \notin P => Count(g, P) = Count(f, P) + 1
               /\ p \notin P /\ f[c] \in P => Count(g, P) = Count(f, P) - 1
  <1> DEFINE g == [f EXCEPT ![c] = p]
             S == {b \in Callers : f[b] \in P}
             T == {b \in Callers : g[b] \in P}
  <1>1. IsFiniteSet(S) /\ Cardinality(S) \in Nat BY CountType DEF Count
  <1>2. Count(f, P) = Cardinality(S) /\ Count(g, P) = Cardinality(T) BY DEF Count
  <1>3. \A b \in Callers : g[b] = IF b = c THEN p ELSE f[b] OBVIOUS
  <1> HIDE DEF g
  <1>4. ASSUME p \in P <=> f[c] \in P PROVE T = S BY <1>3, <1>4
  <1>5. ASSUME p \in P, f[c] \notin P PROVE T = S \cup {c} /\ c \notin S
    BY <1>3, <1>5
  <1>6. ASSUME p \notin P, f[c] \in P PROVE T = S \ {c} /\ c \in S
    BY <1>3, <1>6
  <1>7. c \notin S => Cardinality(S \cup {c}) = Cardinality(S) + 1
    BY <1>1, FS_AddElement
  <1>8. c \in S => Cardinality(S \ {c}) = Cardinality(S) - 1
    BY <1>1, FS_RemoveElement
  <1> HIDE DEF S, T
  <1> QED BY <1>2, <1>4, <1>5, <1>6, <1>7, <1>8 DEF g

\* What a caller that leaves does to the count of the places inside.
LEMMA LeaveCount ==
    ASSUME NEW f \in [Callers -> Places], NEW c \in Callers,
           NEW P, "outside" \notin P
    PROVE  LET g == [f EXCEPT ![c] = "outside"]
           IN  /\ f[c] \in P => Count(g, P) = Count(f, P) - 1
               /\ f[c] \notin P => Count(g, P) = Count(f, P)
  <1>1. PICK p \in Places : p = "outside" BY DEF Places
  <1>2. p \notin P BY <1>1
  <1> DEFINE g == [f EXCEPT ![c] = p]
  <1>3. /\ (p \in P <=> f[c] \in P) => Count(g, P) = Count(f, P)
        /\ p \notin P /\ f[c] \in P => Count(g, P) = Count(f, P) - 1
    BY MoveCount
  <1>4. g = [f EXCEPT ![c] = "outside"] BY <1>1
  <1> HIDE DEF g
  <1> QED BY <1>2, <1>3, <1>4

\* notify() wakes one of the sleepers if there is one.
LEMMA NotifyCount ==
    ASSUME NEW f \in [Callers -> Places], NEW g \in Notified(f)
    PROVE  /\ g \in [Callers -> Places]
           /\ Count(g, Inside) = Count(f, Inside)
           /\ Count(g, InWait) = Count(f, InWait)
           /\ \/ Count(f, Sleeping) = 0 /\ g = f
              \/ Count(f, Sleeping) # 0 /\ Count(g, Woken) = Count(f, Woken) + 1
  <1>1. CASE \E w \in Callers : f[w] = "waiting"
    <2>1. PICK w \in Callers : f[w] = "waiting" /\ g = [f EXCEPT ![w] = "notified"]
      BY <1>1 DEF Notified
    <2>2. "notified" \in Places BY DEF Places
    <2>3. g \in [Callers -> Places] BY <2>1, <2>2
    <2>4. Count(g, Inside) = Count(f, Inside)
      BY <2>1, <2>2, MoveCount DEF Inside
    <2>5. Count(g, InWait) = Count(f, InWait)
      BY <2>1, <2>2, MoveCount DEF InWait
    <2>6. Count(g, Woken) = Count(f, Woken) + 1
      BY <2>1, <2>2, MoveCount DEF Woken
    <2>7. Count(f, Sleeping) # 0
      <3>1. f[w] \in Sleeping BY <2>1 DEF Sleeping
      <3>2. Count(f, Sleeping) = 0 => \A c \in Callers : f[c] \notin Sleeping
        BY CountType
      <3> QED BY <3>1, <3>2
    <2> QED BY <2>3, <2>4, <2>5, <2>6, <2>7
  <1>2. CASE ~\E w \in Callers : f[w] = "waiting"
    <2>1. g = f BY <1>2 DEF Notified
    <2>2. Count(f, Sleeping) = 0 BY <1>2, CountType DEF Sleeping
    <2> QED BY <2>1, <2>2
  <1> QED BY <1>1, <1>2

\* The invariant says what the two properties say.
LEMMA InvMeaning == IInv => PermitsCounted /\ NoLostWakeup
  <1>1. /\ CallersAt("running") = {c \in Callers : at[c] \in Inside}
        /\ CallersAt("waiting") = {c \in Callers : at[c] \in Sleeping}
        /\ CallersAt("notified") = {c \in Callers : at[c] \in Woken}
        /\ CallersAt("waiting") \cup CallersAt("notified")
              = {c \in Callers : at[c] \in InWait}
    BY DEF CallersAt, Inside, Sleeping, Woken, InWait
  <1>2. CallersAt("waiting") # {} <=> Count(at, Sleeping) # 0
    <2>1. Count(at, Sleeping) = 0 <=> \A c \in Callers : at[c] \notin Sleeping
      BY CountType
    <2> QED BY <1>1, <2>1
  <1>3. /\ Cardinality(CallersAt("running")) = Count(at, Inside)
        /\ Cardinality(CallersAt("notified")) = Count(at, Woken)
        /\ Cardinality(CallersAt("waiting") \cup CallersAt("notified"))
              = Count(at, InWait)
    BY <1>1 DEF Count
  <1> QED BY <1>2, <1>3 DEF IInv, PermitsCounted, NoLostWakeup

\* A single caller that moves, and nobody is notified.
LEMMA MoveStep ==
    ASSUME IInv, NEW c \in Callers, NEW p \in Places,
           at' = [at EXCEPT ![c] = p], kind' = kind,
           \/ p = "running" /\ at[c] = "outside" /\ ~Full
                 /\ inFlight' = inFlight + 1 /\ waiters' = waiters
           \/ p = "running" /\ at[c] \in InWait /\ ~Full
                 /\ inFlight' = inFlight + 1 /\ waiters' = waiters - 1
           \/ p = "waiting" /\ at[c] = "outside" /\ Full
                 /\ inFlight' = inFlight /\ waiters' = waiters + 1
           \/ p = "waiting" /\ at[c] = "notified" /\ Full
                 /\ inFlight' = inFlight /\ waiters' = waiters
           \/ p = "outside" /\ at[c] \in InWait /\ Full
                 /\ inFlight' = inFlight /\ waiters' = waiters - 1
    PROVE  IInv'
  <1>1. /\ at \in [Callers -> Places] /\ inFlight \in 0 .. MaxConcurrency
        /\ waiters \in Nat /\ MaxConcurrency \in Nat \ {0}
    BY BulkheadAssumption DEF IInv, TypeOK, Places
  <1>2. /\ inFlight = Count(at, Inside) /\ waiters = Count(at, InWait)
        /\ Count(at, Sleeping) # 0 =>
              inFlight + Count(at, Woken) >= MaxConcurrency
    BY DEF IInv
  <1>3. at' \in [Callers -> Places] BY <1>1
  <1>4. /\ Count(at, Inside) \in Nat /\ Count(at, InWait) \in Nat
        /\ Count(at, Sleeping) \in Nat /\ Count(at, Woken) \in Nat
        /\ Count(at', Inside) \in Nat /\ Count(at', InWait) \in Nat
        /\ Count(at', Sleeping) \in Nat /\ Count(at', Woken) \in Nat
    BY CountType
  <1>5. /\ (p \in Inside <=> at[c] \in Inside) => Count(at', Inside) = Count(at, Inside)
        /\ p \in Inside /\ at[c] \notin Inside => Count(at', Inside) = Count(at, Inside) + 1
    BY <1>1, MoveCount
  <1>6. /\ (p \in InWait <=> at[c] \in InWait) => Count(at', InWait) = Count(at, InWait)
        /\ p \in InWait /\ at[c] \notin InWait => Count(at', InWait) = Count(at, InWait) + 1
        /\ p \notin InWait /\ at[c] \in InWait => Count(at', InWait) = Count(at, InWait) - 1
    BY <1>1, MoveCount
  <1>7. /\ (p \in Sleeping <=> at[c] \in Sleeping) =>
              Count(at', Sleeping) = Count(at, Sleeping)
        /\ p \notin Sleeping /\ at[c] \in Sleeping =>
              Count(at', Sleeping) = Count(at, Sleeping) - 1
    BY <1>1, MoveCount
  <1>8. /\ (p \in Woken <=> at[c] \in Woken) => Count(at', Woken) = Count(at, Woken)
        /\ p \notin Woken /\ at[c] \in Woken => Count(at', Woken) = Count(at, Woken) - 1
    BY <1>1, MoveCount
  <1>9. waiters' = Count(at', InWait) /\ waiters' \in Nat
    BY <1>2, <1>4, <1>6 DEF InWait
  <1>10. inFlight' = Count(at', Inside) /\ inFlight' \in 0 .. MaxConcurrency
    BY <1>1, <1>2, <1>4, <1>5 DEF Inside, InWait, Full
  <1>11. Count(at', Sleeping) # 0 => inFlight' + Count(at', Woken) >= MaxConcurrency
    <2>1. CASE Full /\ inFlight' = inFlight BY <1>1, <1>4, <2>1 DEF Full
    <2>2. CASE p = "running" /\ inFlight' = inFlight + 1
      <3>1. Count(at', Sleeping) # 0 => Count(at, Sleeping) # 0
        BY <1>4, <1>7, <2>2 DEF Sleeping
      <3>2. Count(at', Woken) >= Count(at, Woken) - 1
        BY <1>4, <1>8, <2>2 DEF Woken
      <3>3. Count(at, Sleeping) # 0 =>
               (inFlight + 1) + Count(at', Woken) >= MaxConcurrency
        BY <1>1, <1>2, <1>4, <3>2
      <3> QED BY <2>2, <3>1, <3>3
    <2> QED BY <2>1, <2>2
  <1>12. TypeOK'
    <2>1. kind' \in [tasks : BOOLEAN, waits : BOOLEAN] BY DEF IInv, TypeOK
    <2> QED BY <1>3, <1>9, <1>10, <2>1 DEF TypeOK, Places
  <1> QED BY <1>9, <1>10, <1>11, <1>12 DEF IInv

\* A caller leaves and notifies another one.
LEMMA LeaveStep ==
    ASSUME IInv, NEW c \in Callers,
           at' \in Notified([at EXCEPT ![c] = "outside"]), kind' = kind,
           \/ at[c] = "running" /\ inFlight' = inFlight - 1 /\ waiters' = waiters
           \/ at[c] \in InWait /\ inFlight' = inFlight /\ waiters' = waiters - 1
    PROVE  IInv'
  <1> DEFINE f == [at EXCEPT ![c] = "outside"]
  <1>1. /\ at \in [Callers -> Places] /\ inFlight \in 0 .. MaxConcurrency
        /\ waiters \in Nat /\ MaxConcurrency \in Nat \ {0}
    BY BulkheadAssumption DEF IInv, TypeOK, Places
  <1>2. /\ inFlight = Count(at, Inside) /\ waiters = Count(at, InWait)
        /\ Count(at, Sleeping) # 0 =>
              inFlight + Count(at, Woken) >= MaxConcurrency
    BY DEF IInv
  <1>3. /\ "outside" \in Places /\ f \in [Callers -> Places]
        /\ f = [at EXCEPT ![c] = "outside"]
    BY <1>1 DEF Places
  <1> HIDE DEF f
  <1>4. /\ Count(at, Inside) \in Nat /\ Count(at, InWait) \in Nat
        /\ Count(at, Sleeping) \in Nat /\ Count(at, Woken) \in Nat
        /\ Count(f, Inside) \in Nat /\ Count(f, InWait) \in Nat
        /\ Count(f, Sleeping) \in Nat /\ Count(f, Woken) \in Nat
        /\ Count(at', Inside) \in Nat /\ Count(at', InWait) \in Nat
    BY CountType
  <1>5. /\ at[c] \in Inside => Count(f, Inside) = Count(at, Inside) - 1
        /\ at[c] \notin Inside => Count(f, Inside) = Count(at, Inside)
    <2>1. "outside" \notin Inside BY DEF Inside
    <2> QED BY <1>1, <1>3, <2>1, LeaveCount
  <1>6. /\ at[c] \in InWait => Count(f, InWait) = Count(at, InWait) - 1
        /\ at[c] \notin InWait => Count(f, InWait) = Count(at, InWait)
    <2>1. "outside" \notin InWait BY DEF InWait
    <2> QED BY <1>1, <1>3, <2>1, LeaveCount
  <1>7. /\ at[c] \in Sleeping => Count(f, Sleeping) = Count(at, Sleeping) - 1
        /\ at[c] \notin Sleeping => Count(f, Sleeping) = Count(at, Sleeping)
    <2>1. "outside" \notin Sleeping BY DEF Sleeping
    <2> QED BY <1>1, <1>3, <2>1, LeaveCount
  <1>8. /\ at[c] \in Woken => Count(f, Woken) = Count(at, Woken) - 1
        /\ at[c] \notin Woken => Count(f, Woken) = Count(at, Woken)
    <2>1. "outside" \notin Woken BY DEF Woken
    <2> QED BY <1>1, <1>3, <2>1, LeaveCount
  <1>9. /\ at' \in [Callers -> Places]
        /\ Count(at', Inside) = Count(f, Inside)
        /\ Count(at', InWait) = Count(f, InWait)
        /\ \/ Count(f, Sleeping) = 0 /\ at' = f
           \/ Count(f, Sleeping) # 0 /\ Count(at', Woken) = Count(f, Woken) + 1
    BY <1>3, NotifyCount DEF f
  <1>10. inFlight' = Count(at', Inside) /\ inFlight' \in 0 .. MaxConcurrency
    BY <1>1, <1>2, <1>4, <1>5, <1>9 DEF Inside, InWait
  <1>11. waiters' = Count(at', InWait) /\ waiters' \in Nat
    BY <1>1, <1>2, <1>4, <1>6, <1>9 DEF InWait
  <1>12. Count(at', Sleeping) # 0 => inFlight' + Count(at', Woken) >= MaxConcurrency
    <2>1. CASE Count(f, Sleeping) = 0 /\ at' = f BY <2>1
    <2>2. CASE Count(f, Sleeping) # 0 /\ Count(at', Woken) = Count(f, Woken) + 1
      <3>1. inFlight + Count(at, Woken) >= MaxConcurrency
        BY <1>2, <1>4, <1>7, <2>2
      <3>2. CASE at[c] = "running" /\ inFlight' = inFlight - 1
        BY <1>1, <1>4, <1>8, <2>2, <3>1, <3>2 DEF Woken
      <3>3. CASE at[c] \in InWait /\ inFlight' = inFlight
        <4>1. Count(f, Woken) >= Count(at, Woken) - 1 BY <1>4, <1>8
        <4> QED BY <1>1, <1>4, <2>2, <3>1, <3>3, <4>1
      <3> QED BY <3>2, <3>3
    <2> QED BY <1>9, <2>1, <2>2
  <1>13. TypeOK'
    <2>1. kind' \in [tasks : BOOLEAN, waits : BOOLEAN] BY DEF IInv, TypeOK
    <2> QED BY <1>9, <1>10, <1>11, <2>1 DEF TypeOK, Places
  <1> QED BY <1>10, <1>11, <1>12, <1>13 DEF IInv

\* The invariant of the bulkhead holds at the start.
LEMMA IInvInit == Init => IInv
  <1> SUFFICES ASSUME Init PROVE IInv OBVIOUS
  <1>1. \A c \in Callers : at[c] = "outside" BY DEF Init
  <1>2. TypeOK BY BulkheadAssumption DEF Init, TypeOK
  <1>3. Count(at, Inside) = 0 BY <1>1, CountType DEF Inside
  <1>4. Count(at, InWait) = 0 BY <1>1, CountType DEF InWait
  <1>5. Count(at, Sleeping) = 0 BY <1>1, CountType DEF Sleeping
  <1> QED BY <1>2, <1>3, <1>4, <1>5 DEF Init, IInv

\* Every step of the bulkhead keeps it.
LEMMA IInvStep == IInv /\ [Next]_vars => IInv'
  <1> SUFFICES ASSUME IInv, [Next]_vars PROVE IInv' OBVIOUS
  <1> "outside" \in Places /\ "waiting" \in Places /\ "running" \in Places
    BY DEF Places
  <1>1. CASE UNCHANGED vars
    BY <1>1 DEF vars, IInv, TypeOK
  <1>2. ASSUME NEW c \in Callers, Enter(c) PROVE IInv'
    BY <1>2, MoveStep DEF Enter
  <1>3. ASSUME NEW c \in Callers, StartWait(c) PROVE IInv'
    BY <1>3, MoveStep DEF StartWait
  <1>4. ASSUME NEW c \in Callers, Wake(c) PROVE IInv'
    BY <1>4, MoveStep DEF Wake, TakePermit, InWait
  <1>5. ASSUME NEW c \in Callers, Expire(c) PROVE IInv'
    BY <1>5, MoveStep DEF Expire, TakePermit, InWait
  <1>6. ASSUME NEW c \in Callers, Abandon(c) PROVE IInv'
    BY <1>6, LeaveStep DEF Abandon, PassOn, InWait
  <1>7. ASSUME NEW c \in Callers, Release(c) PROVE IInv'
    BY <1>7, LeaveStep DEF Release
  <1>8. ASSUME NEW c \in Callers, Reject(c) PROVE IInv'
    BY <1>1, <1>8 DEF Reject
  <1> QED BY <1>1, <1>2, <1>3, <1>4, <1>5, <1>6, <1>7, <1>8 DEF Next

\* The invariant holds in every behaviour of the bulkhead.
THEOREM Invariance == Spec => []IInv
  <1> QED BY IInvInit, IInvStep, PTL DEF Spec

\* Every variable keeps its type; no more than max_concurrency calls run.
THEOREM TypeCorrect == Spec => []TypeOK
  <1>1. IInv => TypeOK BY DEF IInv
  <1> QED BY <1>1, Invariance, PTL

\* The counters of snapshot() are the numbers of running and waiting callers.
THEOREM CountsCorrect == Spec => []PermitsCounted
  <1>1. IInv => PermitsCounted BY InvMeaning
  <1> QED BY <1>1, Invariance, PTL

\* While callers sleep, every permit is used or somebody was woken for it.
THEOREM WakeupsCorrect == Spec => []NoLostWakeup
  <1>1. IInv => NoLostWakeup BY InvMeaning
  <1> QED BY <1>1, Invariance, PTL

-----------------------------------------------------------------------------
(* The pipeline                                                            *)

Len0 == Len(setup.order)

\* The positions above d that hold the bulkhead.
Beyond(d) == \E i \in 1 .. Len0 : setup.order[i] = "bulkhead" /\ i > d

Outs == {"none", "success", "error", "interrupt", "contract", "cancelled", "exhausted",
         "timeout", "circuitOpen", "rejected"}

CallType == [pc : {"idle", "down", "op", "sleep", "up"}, depth : Nat, out : Outs,
             attempt : Nat, expired : BOOLEAN, cancelled : BOOLEAN]

\* A call in state r, whose caller is at place in the bulkhead.
Placed(r, place) ==
    /\ r.pc \in {"idle", "op"} => r.depth = 0
    /\ r.pc \in {"down", "sleep", "up"} => r.depth \in 1 .. Len0
    /\ r.pc = "sleep" => setup.order[r.depth] = "retry"
    /\ place \in {"waiting", "notified"} =>
          r.pc = "down" /\ setup.order[r.depth] = "bulkhead"
    /\ place = "running" <=>
          /\ r.pc # "idle"
          /\ Beyond(r.depth) \/ (r.pc = "up" /\ setup.order[r.depth] = "bulkhead")
    /\ r.expired => r.pc = "up" /\ r.out = "cancelled"
    /\ r.cancelled => r.pc \in {"up", "idle"} /\ r.out = "cancelled"

PInv ==
    /\ IInv
    /\ setup.order \in Pipelines
    /\ call \in [Callers -> CallType]
    /\ \A c \in Callers : Placed(call[c], at[c])

-----------------------------------------------------------------------------
(* A pipeline uses its bulkhead as Bulkhead allows                         *)

\* Every step of a pipeline is a step of its bulkhead or leaves it alone.
LEMMA PipeStep == [PipeNext]_pipeVars => [Next]_vars
  <1> SUFFICES ASSUME [PipeNext]_pipeVars PROVE [Next]_vars OBVIOUS
  <1>1. CASE UNCHANGED pipeVars BY <1>1 DEF pipeVars
  <1>2. ASSUME NEW c \in Callers,
               \/ Begin(c) \/ Operate(c)
               \/ RetryBegins(c) \/ RetryEnds(c) \/ RetryScheduled(c) \/ RetryAgain(c)
               \/ TimeoutBegins(c) \/ TimeoutEnds(c)
               \/ CircuitBegins(c) \/ CircuitEnds(c)
        PROVE  UNCHANGED vars
    BY <1>2 DEF Begin, Operate, RetryBegins, RetryEnds, RetryScheduled, RetryAgain,
                TimeoutBegins, TimeoutEnds, CircuitBegins, CircuitEnds
  <1>3. ASSUME NEW c \in Callers,
               \/ BulkheadBegins(c) \/ BulkheadWakes(c)
               \/ BulkheadWaitEnds(c) \/ BulkheadEnds(c)
        PROVE  Next
    BY <1>3 DEF BulkheadBegins, BulkheadWakes, BulkheadWaitEnds, BulkheadEnds, Next
  <1>4. ASSUME NEW c \in Callers, NEW r, CancelledAt(c, r) PROVE [Next]_vars
    BY <1>4 DEF CancelledAt, Next
  <1>5. ASSUME NEW c \in Callers, TimerFires(c) \/ OwnerCancels(c) PROVE [Next]_vars
    BY <1>4, <1>5 DEF TimerFires, OwnerCancels
  <1> QED BY <1>1, <1>2, <1>3, <1>5 DEF PipeNext

\* The bulkhead inside a pipeline behaves as Bulkhead says, whatever the other
\* policies, timers and cancellations do to the calls.
THEOREM PipelineImplements == PipeSpec => Spec
  <1>1. PipeInit => Init BY DEF PipeInit
  <1> QED BY <1>1, PipeStep, PTL DEF PipeSpec, Spec

\* Permits and waiters are counted exactly under a pipeline.
THEOREM PipelineCounts == PipeSpec => []PermitsCounted
  <1> QED BY PipelineImplements, CountsCorrect, PTL

\* No wake-up is lost under a pipeline.
THEOREM PipelineWakeups == PipeSpec => []NoLostWakeup
  <1> QED BY PipelineImplements, WakeupsCorrect, PTL

-----------------------------------------------------------------------------
(* Where a call is, and its permit                                         *)

\* What the assumptions say about the order of a pipeline.
LEMMA OrderType ==
    ASSUME setup.order \in Pipelines
    PROVE  /\ Len0 \in Nat \ {0}
           /\ \A i, j \in 1 .. Len0 :
                 setup.order[i] = "bulkhead" /\ setup.order[j] = "bulkhead" => i = j
  <1>1. setup.order \in Seq({"retry", "timeout", "circuit", "bulkhead"}) \ {<<>>}
    BY PipelineAssumption
  <1>2. Len0 \in Nat /\ Len0 # 0 BY <1>1 DEF Len0
  <1> QED BY <1>2, PipelineAssumption DEF Len0

\* A call that goes one policy further in is where it should be.
LEMMA InPlaced ==
    ASSUME setup.order \in Pipelines,
           NEW d \in 1 .. Len0, NEW q \in CallType, NEW place,
           q.pc = IF d = 1 THEN "op" ELSE "down", q.depth = d - 1,
           ~q.expired, ~q.cancelled,
           place \notin {"waiting", "notified"},
           place = "running" <=> Beyond(d - 1)
    PROVE  Placed(q, place)
  <1>1. Len0 \in Nat \ {0} BY OrderType
  <1>2. d \in Nat /\ d # 1 => d - 1 \in 1 .. Len0 BY <1>1
  <1> QED BY <1>1, <1>2 DEF Placed

\* A call that leaves a policy for the one outside is where it should be.
LEMMA OutPlaced ==
    ASSUME setup.order \in Pipelines,
           NEW c \in Callers, NEW r \in CallType, NEW out \in Outs, NEW place,
           r.depth = Depth(c), Depth(c) \in 0 .. Len0,
           r.expired \/ r.cancelled => out = "cancelled",
           place \notin {"waiting", "notified"},
           place = "running" <=> Beyond(Depth(c))
    PROVE  OutTo(c, r, out) \in CallType /\ Placed(OutTo(c, r, out), place)
  <1>1. Len0 \in Nat \ {0} BY OrderType
  <1>2. CASE Depth(c) = Len0
    <2>1. OutTo(c, r, out) = [NoCall EXCEPT !.out = out, !.cancelled = r.cancelled]
      BY <1>2 DEF OutTo, Len0
    <2> DEFINE q == OutTo(c, r, out)
    <2>a. q = [pc |-> "idle", depth |-> 0, out |-> out, attempt |-> 0,
               expired |-> FALSE, cancelled |-> r.cancelled]
      BY <2>1 DEF NoCall
    <2>2. /\ q \in CallType
          /\ q.pc = "idle" /\ q.depth = 0 /\ q.out = out
          /\ q.expired = FALSE /\ q.cancelled = r.cancelled
      BY <2>a DEF CallType
    <2>3. ~Beyond(Depth(c)) BY <1>1, <1>2 DEF Beyond
    <2> HIDE DEF q
    <2> QED BY <2>2, <2>3 DEF Placed, q
  <1>3. CASE Depth(c) # Len0
    <2>1. OutTo(c, r, out) = [r EXCEPT !.depth = @ + 1, !.pc = "up", !.out = out]
      BY <1>3 DEF OutTo, Len0
    <2> DEFINE q == OutTo(c, r, out)
    <2>a. q = [pc |-> "up", depth |-> Depth(c) + 1, out |-> out, attempt |-> r.attempt,
               expired |-> r.expired, cancelled |-> r.cancelled]
      BY <2>1 DEF CallType
    <2>b. Depth(c) + 1 \in Nat BY DEF CallType
    <2>2. /\ q \in CallType
          /\ q.pc = "up" /\ q.depth = Depth(c) + 1 /\ q.out = out
          /\ q.expired = r.expired /\ q.cancelled = r.cancelled
      BY <2>a, <2>b DEF CallType
    <2>3. Depth(c) \in Nat /\ Depth(c) + 1 \in 1 .. Len0 BY <1>1, <1>3
    <2>4. Beyond(Depth(c)) <=>
             Beyond(Depth(c) + 1) \/ setup.order[Depth(c) + 1] = "bulkhead"
      BY <1>1, <2>3 DEF Beyond
    <2> HIDE DEF q
    <2> QED BY <2>2, <2>3, <2>4 DEF Placed, q
  <1> QED BY <1>2, <1>3

\* What the place of a call says of its permit.
LEMMA Permits ==
    ASSUME setup.order \in Pipelines, NEW r \in CallType, NEW place, Placed(r, place)
    PROVE  /\ r.depth \in 0 .. Len0
           /\ r.pc \in {"op", "sleep"} => place \notin {"waiting", "notified"}
           /\ r.pc = "op" => (place = "running" <=> Beyond(0))
           /\ r.pc = "sleep" => (place = "running" <=> Beyond(r.depth))
           /\ r.pc = "sleep" => Beyond(r.depth - 1) = Beyond(r.depth)
           /\ r.pc \in {"down", "up"} =>
                 IF setup.order[r.depth] = "bulkhead"
                 THEN /\ ~Beyond(r.depth) /\ Beyond(r.depth - 1)
                      /\ r.pc = "down" => place # "running"
                      /\ r.pc = "up" => place = "running"
                 ELSE /\ place = "running" <=> Beyond(r.depth)
                      /\ Beyond(r.depth - 1) = Beyond(r.depth)
                      /\ place \notin {"waiting", "notified"}
  <1>1. /\ Len0 \in Nat \ {0}
        /\ \A i, j \in 1 .. Len0 :
              setup.order[i] = "bulkhead" /\ setup.order[j] = "bulkhead" => i = j
    BY OrderType
  <1>2. r.pc \in {"idle", "down", "op", "sleep", "up"} /\ r.depth \in Nat BY DEF CallType
  <1>3. r.depth \in 0 .. Len0 BY <1>1, <1>2 DEF Placed
  <1>4. ASSUME NEW d \in 1 .. Len0
        PROVE  /\ setup.order[d] = "bulkhead" => ~Beyond(d) /\ Beyond(d - 1)
               /\ setup.order[d] # "bulkhead" => (Beyond(d - 1) <=> Beyond(d))
    BY <1>1 DEF Beyond
  <1>5. Beyond(r.depth) \in BOOLEAN /\ Beyond(r.depth - 1) \in BOOLEAN BY DEF Beyond
  <1> QED BY <1>1, <1>2, <1>3, <1>4, <1>5 DEF Placed

-----------------------------------------------------------------------------
(* The steps of one call                                                   *)

\* A step of c may only wake the other callers.
Bystanders(c) ==
    \A b \in Callers \ {c} : at'[b] = at[b] \/ (at[b] = "waiting" /\ at'[b] = "notified")

\* A step of one call that leaves it where its place in the bulkhead allows.
LEMMA OneCall ==
    ASSUME PInv, IInv', NEW c \in Callers, NEW q \in CallType,
           call' = [call EXCEPT ![c] = q], setup' = setup,
           Bystanders(c), Placed(q, at'[c])
    PROVE  PInv'
  <1>1. call \in [Callers -> CallType] /\ setup.order \in Pipelines BY DEF PInv
  <1>2. call' \in [Callers -> CallType] /\ setup'.order \in Pipelines BY <1>1
  <1>3. ASSUME NEW b \in Callers PROVE Placed(call'[b], at'[b])
    <2>1. CASE b = c BY <1>1, <2>1
    <2>2. CASE b # c
      <3>1. call'[b] = call[b] /\ Placed(call[b], at[b]) BY <1>1, <2>2 DEF PInv
      <3>2. \/ at'[b] = at[b]
            \/ at[b] = "waiting" /\ at'[b] = "notified"
        BY <2>2 DEF Bystanders
      <3>3. CASE at'[b] = at[b] BY <3>1, <3>3
      <3>4. CASE at[b] = "waiting" /\ at'[b] = "notified" BY <3>1, <3>4 DEF Placed
      <3> QED BY <3>2, <3>3, <3>4
    <2> QED BY <2>1, <2>2
  <1>4. ASSUME NEW b \in Callers PROVE Placed(call[b], at[b])'
    BY <1>3 DEF Placed, Beyond, Len0
  <1> QED BY <1>2, <1>4 DEF PInv

\* A call returns or raises to the policy outside.
LEMMA OutStep ==
    ASSUME PInv, IInv', NEW c \in Callers, NEW r \in CallType, NEW out \in Outs,
           r.depth = Depth(c), r.expired \/ r.cancelled => out = "cancelled",
           call' = [call EXCEPT ![c] = OutTo(c, r, out)], setup' = setup,
           Bystanders(c), at'[c] \notin {"waiting", "notified"},
           at'[c] = "running" <=> Beyond(Depth(c))
    PROVE  PInv'
  <1>1. setup.order \in Pipelines /\ call[c] \in CallType /\ Placed(call[c], at[c])
    BY DEF PInv
  <1>2. Depth(c) \in 0 .. Len0 BY <1>1, Permits DEF Depth
  <1>3. OutTo(c, r, out) \in CallType /\ Placed(OutTo(c, r, out), at'[c])
    BY <1>1, <1>2, OutPlaced
  <1> QED BY <1>3, OneCall

\* A call goes on to the policy inside.
LEMMA InStep ==
    ASSUME PInv, IInv', NEW c \in Callers, NEW q \in CallType,
           call[c].pc \in {"down", "sleep"}, ~q.expired, ~q.cancelled,
           q.pc = IF Depth(c) = 1 THEN "op" ELSE "down", q.depth = Depth(c) - 1,
           call' = [call EXCEPT ![c] = q], setup' = setup,
           Bystanders(c), at'[c] \notin {"waiting", "notified"},
           at'[c] = "running" <=> Beyond(Depth(c) - 1)
    PROVE  PInv'
  <1>1. setup.order \in Pipelines /\ Placed(call[c], at[c]) BY DEF PInv
  <1>2. Depth(c) \in 1 .. Len0 BY <1>1 DEF Depth, Placed
  <1>3. Placed(q, at'[c]) BY <1>1, <1>2, InPlaced
  <1> QED BY <1>3, OneCall

\* What a step of the bulkhead does to the places.
LEMMA PlaceSteps ==
    ASSUME TypeOK, NEW c \in Callers
    PROVE  /\ UNCHANGED vars => Bystanders(c) /\ at'[c] = at[c]
           /\ Enter(c) => Bystanders(c) /\ at'[c] = "running"
           /\ StartWait(c) => Bystanders(c) /\ at'[c] = "waiting"
           /\ Wake(c) => Bystanders(c) /\ at'[c] \in {"running", "waiting"}
           /\ Expire(c) => Bystanders(c) /\ at'[c] \in {"running", "outside"}
           /\ Abandon(c) \/ Release(c) => Bystanders(c) /\ at'[c] = "outside"
  <1>0. at \in [Callers -> {"outside", "waiting", "notified", "running"}] BY DEF TypeOK
  <1>1. UNCHANGED vars => Bystanders(c) /\ at'[c] = at[c] BY DEF vars, Bystanders
  <1>2. Enter(c) => Bystanders(c) /\ at'[c] = "running" BY <1>0 DEF Enter, Bystanders
  <1>3. StartWait(c) => Bystanders(c) /\ at'[c] = "waiting"
    BY <1>0 DEF StartWait, Bystanders
  <1>4. Wake(c) => Bystanders(c) /\ at'[c] \in {"running", "waiting"}
    BY <1>0 DEF Wake, TakePermit, Bystanders
  <1>5. Expire(c) => Bystanders(c) /\ at'[c] \in {"running", "outside"}
    BY <1>0 DEF Expire, TakePermit, Bystanders
  <1>6. ASSUME at' \in Notified([at EXCEPT ![c] = "outside"])
        PROVE  Bystanders(c) /\ at'[c] = "outside"
    <2> DEFINE f == [at EXCEPT ![c] = "outside"]
    <2>1. \A b \in Callers : f[b] = IF b = c THEN "outside" ELSE at[b] BY <1>0
    <2>2. f \in [Callers -> {"outside", "waiting", "notified", "running"}] BY <1>0
    <2>3. at' = f \/ \E w \in Callers : f[w] = "waiting" /\ at' = [f EXCEPT ![w] = "notified"]
      BY <1>6 DEF Notified
    <2> HIDE DEF f
    <2> QED BY <2>1, <2>2, <2>3 DEF Bystanders
  <1>7. Abandon(c) \/ Release(c) => Bystanders(c) /\ at'[c] = "outside"
    BY <1>6 DEF Abandon, Release, PassOn
  <1> QED BY <1>1, <1>2, <1>3, <1>4, <1>5, <1>7

\* Does the call meet a policy that is not the bulkhead, or none?
Besides(c) ==
    \/ call[c].pc \in {"op", "sleep"}
    \/ call[c].pc \in {"down", "up"} /\ setup.order[Depth(c)] # "bulkhead"

\* Besides the bulkhead, a call that goes up or down keeps what it has.
LEMMA UpStep ==
    ASSUME PInv, IInv', NEW c \in Callers, NEW r \in CallType, NEW out \in Outs,
           r.depth = Depth(c), r.expired \/ r.cancelled => out = "cancelled",
           Besides(c), UNCHANGED vars, Becomes(c, OutTo(c, r, out))
    PROVE  PInv'
  <1>1. setup.order \in Pipelines /\ call[c] \in CallType /\ Placed(call[c], at[c])
    BY DEF PInv
  <1>2. Bystanders(c) /\ at'[c] = at[c] BY PlaceSteps DEF PInv, IInv
  <1>3. call[c].pc = "op" => Depth(c) = 0 BY <1>1 DEF Placed, Depth
  <1>4. at[c] \notin {"waiting", "notified"} /\ (at[c] = "running" <=> Beyond(Depth(c)))
    BY <1>1, <1>3, Permits DEF Besides, Depth
  <1> QED BY <1>2, <1>4, OutStep DEF Becomes

\* A call goes one policy further in, without a step of the bulkhead.
LEMMA DownStep ==
    ASSUME PInv, IInv', NEW c \in Callers, NEW q \in CallType,
           call[c].pc \in {"down", "sleep"}, ~q.expired, ~q.cancelled,
           q.pc = IF Depth(c) = 1 THEN "op" ELSE "down", q.depth = Depth(c) - 1,
           Besides(c), UNCHANGED vars, Becomes(c, q)
    PROVE  PInv'
  <1>1. setup.order \in Pipelines /\ call[c] \in CallType /\ Placed(call[c], at[c])
    BY DEF PInv
  <1>2. Bystanders(c) /\ at'[c] = at[c] BY PlaceSteps DEF PInv, IInv
  <1>3. /\ at[c] \notin {"waiting", "notified"}
        /\ at[c] = "running" <=> Beyond(Depth(c))
        /\ Beyond(Depth(c) - 1) = Beyond(Depth(c))
    BY <1>1, Permits DEF Besides, Depth
  <1> QED BY <1>2, <1>3, InStep DEF Becomes

\* A call that goes in has not been told to stop.
LEMMA IntoType ==
    ASSUME PInv, NEW c \in Callers, call[c].pc \in {"down", "sleep"}, NEW n \in Nat,
           NEW q,
           \/ q = Into(c, call[c])
           \/ q = [Into(c, call[c]) EXCEPT !.attempt = n]
           \/ q = [Into(c, call[c]) EXCEPT !.expired = FALSE]
    PROVE  /\ q \in CallType
           /\ q.pc = IF Depth(c) = 1 THEN "op" ELSE "down"
           /\ q.depth = Depth(c) - 1
           /\ ~q.expired /\ ~q.cancelled
  <1> DEFINE r == call[c]
             pc == IF Depth(c) = 1 THEN "op" ELSE "down"
  <1>1. r \in CallType /\ Placed(r, at[c]) /\ setup.order \in Pipelines BY DEF PInv
  <1>2. Depth(c) \in 1 .. Len0 /\ Len0 \in Nat BY <1>1, OrderType DEF Placed, Depth
  <1>3. Depth(c) - 1 \in Nat /\ pc \in {"op", "down"} BY <1>2
  <1>4. ~r.expired /\ ~r.cancelled BY <1>1 DEF Placed
  <1>5. Into(c, r) = [r EXCEPT !.depth = Depth(c) - 1, !.out = "none", !.pc = pc]
    BY DEF Into, Depth
  <1> DEFINE i == Into(c, r)
             d == Depth(c) - 1
  <1> HIDE DEF r, pc, i, d
  <1>6. i = [r EXCEPT !.depth = d, !.out = "none", !.pc = pc] BY <1>5 DEF i, d
  <1>7. r \in CallType /\ d \in Nat /\ pc \in {"op", "down"} BY <1>1, <1>3 DEF d
  <1>8. i \in CallType BY <1>6, <1>7 DEF CallType, Outs
  <1>9. i.pc = pc /\ i.depth = d /\ i.expired = r.expired /\ i.cancelled = r.cancelled
    BY <1>6, <1>7 DEF CallType
  <1>10. ~i.expired /\ ~i.cancelled BY <1>4, <1>9
  <1>11. q \in CallType /\ q.pc = pc /\ q.depth = d /\ ~q.expired /\ ~q.cancelled
    <2>1. CASE q = i BY <1>8, <1>9, <1>10, <2>1
    <2>2. CASE q = [i EXCEPT !.attempt = n]
      <3>1. q \in CallType BY <1>8, <2>2 DEF CallType
      <3>2. /\ q.pc = i.pc /\ q.depth = i.depth
            /\ q.expired = i.expired /\ q.cancelled = i.cancelled
        BY <1>8, <2>2 DEF CallType
      <3> QED BY <1>9, <1>10, <3>1, <3>2
    <2>3. CASE q = [i EXCEPT !.expired = FALSE]
      <3>1. q \in CallType BY <1>8, <2>3 DEF CallType
      <3>2. q.pc = i.pc /\ q.depth = i.depth /\ ~q.expired /\ q.cancelled = i.cancelled
        BY <1>8, <2>3 DEF CallType
      <3> QED BY <1>9, <1>10, <3>1, <3>2
    <2> QED BY <2>1, <2>2, <2>3 DEF i, r
  <1> QED BY <1>11 DEF pc, d

-----------------------------------------------------------------------------
(* The invariant                                                           *)

\* The invariant of the pipeline holds at the start.
LEMMA PInvInit == PipeInit => PInv
  <1> SUFFICES ASSUME PipeInit PROVE PInv OBVIOUS
  <1>1. IInv /\ at = [c \in Callers |-> "outside"]
    BY IInvInit DEF PipeInit, Init
  <1>2. setup.order \in Pipelines /\ call = [c \in Callers |-> NoCall] BY DEF PipeInit
  <1>3. NoCall \in CallType BY DEF NoCall, CallType, Outs
  <1>4. Placed(NoCall, "outside") BY DEF NoCall, Placed
  <1> QED BY <1>1, <1>2, <1>3, <1>4 DEF PInv

\* What an observer leaves of an outcome.
LEMMA EmittedType == ASSUME NEW o \in Outs PROVE Emitted(o) \subseteq Outs
  BY DEF Emitted, Outs

\* Steps of a call outside of the bulkhead's own code.
LEMMA PlainStep ==
    ASSUME PInv, IInv', NEW c \in Callers,
           \/ Begin(c) \/ Operate(c)
           \/ RetryBegins(c) \/ RetryEnds(c) \/ RetryScheduled(c) \/ RetryAgain(c)
           \/ TimeoutBegins(c) \/ TimeoutEnds(c)
           \/ CircuitBegins(c) \/ CircuitEnds(c)
    PROVE  PInv'
  <1> DEFINE r == call[c]
  <1>1. r \in CallType /\ Placed(r, at[c]) /\ setup.order \in Pipelines BY DEF PInv
  <1>2. r.depth = Depth(c) /\ r.out \in Outs /\ r.attempt \in Nat
    BY <1>1 DEF Depth, CallType
  <1>3. r.expired \/ r.cancelled => r.out = "cancelled" BY <1>1 DEF Placed
  <1>4. r.pc # "up" /\ r.pc # "idle" => ~r.expired /\ ~r.cancelled BY <1>1 DEF Placed
  <1> HIDE DEF r
  <1>u. ASSUME NEW out \in Outs, r.expired \/ r.cancelled => out = "cancelled",
               Besides(c), UNCHANGED vars, Up(c, out)
        PROVE  PInv'
    <2>1. Becomes(c, OutTo(c, r, out)) BY <1>u DEF Up, r
    <2> QED BY <1>1, <1>2, <1>u, <2>1, UpStep
  <1>e. ASSUME NEW o \in Outs, NEW out \in Emitted(o), ~r.expired, ~r.cancelled,
               Besides(c), UNCHANGED vars, Up(c, out)
        PROVE  PInv'
    <2>1. out \in Outs BY <1>e, EmittedType
    <2> QED BY <1>e, <1>u, <2>1
  <1>5. CASE Begin(c)
    <2> DEFINE q == [NoCall EXCEPT !.pc = "down", !.depth = Len(setup.order)]
    <2>1. Len0 \in Nat \ {0} BY <1>1, OrderType
    <2>2. q.pc = "down" /\ q.depth = Len0 /\ ~q.expired /\ ~q.cancelled
      BY DEF NoCall, Len0
    <2>4. q \in CallType BY <2>1 DEF NoCall, CallType, Outs, Len0
    <2>3. r.pc = "idle" /\ call' = [call EXCEPT ![c] = q] /\ setup' = setup /\ UNCHANGED vars
      BY <1>5 DEF Begin, Is, Becomes, r
    <2> HIDE DEF q
    <2>5. ~Beyond(Len0) BY <2>1 DEF Beyond
    <2>6. at[c] \notin {"waiting", "notified", "running"} BY <1>1, <2>3 DEF Placed
    <2>7. Placed(q, at[c]) BY <2>1, <2>2, <2>5, <2>6 DEF Placed
    <2>8. Bystanders(c) /\ at'[c] = at[c] BY <2>3, PlaceSteps DEF PInv, IInv
    <2> QED BY <2>3, <2>4, <2>7, <2>8, OneCall
  <1>6. CASE Operate(c)
    <2>1. PICK out \in {"success", "error", "interrupt", "contract"} : Up(c, out)
      BY <1>6 DEF Operate
    <2>2. r.pc = "op" /\ UNCHANGED vars BY <1>6 DEF Operate, Is, r
    <2>3. out \in Outs BY DEF Outs
    <2>4. Besides(c) BY <2>2 DEF Besides, r
    <2> QED BY <1>4, <1>u, <2>1, <2>2, <2>3, <2>4
  <1>7. CASE RetryBegins(c) \/ TimeoutBegins(c) \/ RetryAgain(c)
             \/ (Meets(c, "down", "circuit") /\ Down(c) /\ UNCHANGED vars)
    <2>1. /\ r.pc \in {"down", "sleep"} /\ UNCHANGED vars
          /\ Besides(c)
      BY <1>7 DEF RetryBegins, TimeoutBegins, RetryAgain, Meets, Is, Besides, r
    <2>2. r.attempt + 1 \in Nat BY <1>2
    <2>3. PICK q : /\ Becomes(c, q)
                   /\ \/ q = Into(c, call[c])
                      \/ q = [Into(c, call[c]) EXCEPT !.attempt = 1]
                      \/ q = [Into(c, call[c]) EXCEPT !.attempt = @ + 1]
                      \/ q = [Into(c, call[c]) EXCEPT !.expired = FALSE]
      BY <1>7 DEF RetryBegins, TimeoutBegins, RetryAgain, Down
    <2>4. Into(c, call[c]).attempt = r.attempt BY <1>1 DEF Into, CallType, r
    <2>5. \E n \in Nat :
             \/ q = Into(c, call[c])
             \/ q = [Into(c, call[c]) EXCEPT !.attempt = n]
             \/ q = [Into(c, call[c]) EXCEPT !.expired = FALSE]
      BY <2>2, <2>3, <2>4
    <2>6. call[c].pc \in {"down", "sleep"} BY <2>1 DEF r
    <2>7. /\ q \in CallType
          /\ q.pc = IF Depth(c) = 1 THEN "op" ELSE "down"
          /\ q.depth = Depth(c) - 1
          /\ ~q.expired /\ ~q.cancelled
      BY <2>5, <2>6, IntoType
    <2> QED BY <2>1, <2>3, <2>6, <2>7, DownStep
  <1>8. CASE RetryEnds(c)
    <2>1. Besides(c) /\ UNCHANGED vars
      BY <1>8 DEF RetryEnds, Meets, Is, Besides
    <2>2. CASE r.out \in {"cancelled", "interrupt", "contract"} /\ Up(c, r.out)
      BY <1>2, <1>3, <1>u, <2>1, <2>2
    <2>3. CASE \E o \in {"success", "exhausted"} : r.out # "cancelled" /\
                  \E out \in Emitted(o) : Up(c, out)
      <3>1. "success" \in Outs /\ "exhausted" \in Outs BY DEF Outs
      <3> QED BY <1>3, <1>e, <2>1, <2>3, <3>1
    <2>4. CASE r.out # "cancelled" /\ \E out \in Emitted(r.out) : Up(c, out)
      BY <1>2, <1>3, <1>e, <2>1, <2>4
    <2>5. Retryable("cancelled") = FALSE BY DEF Retryable
    <2> QED BY <1>8, <2>2, <2>3, <2>4, <2>5 DEF RetryEnds, r
  <1>9. CASE RetryScheduled(c)
    <2>1. /\ Besides(c) /\ UNCHANGED vars
          /\ r.pc = "up" /\ setup.order[r.depth] = "retry" /\ r.out # "cancelled"
      BY <1>9 DEF RetryScheduled, Meets, Is, Besides, Retryable, Depth, r
    <2>2. CASE Up(c, "error")
      <3>1. "error" \in Outs BY DEF Outs
      <3> QED BY <1>3, <1>u, <2>1, <2>2, <3>1
    <2>3. CASE Becomes(c, [r EXCEPT !.pc = "sleep"])
      <3> DEFINE q == [r EXCEPT !.pc = "sleep"]
      <3>1. q \in CallType BY <1>1 DEF CallType
      <3>2. /\ q.pc = "sleep" /\ q.depth = r.depth
            /\ q.expired = r.expired /\ q.cancelled = r.cancelled
        BY <1>1 DEF CallType
      <3> HIDE DEF q
      <3>3. Placed(q, at[c]) BY <1>1, <1>3, <2>1, <3>2 DEF Placed
      <3>4. Bystanders(c) /\ at'[c] = at[c] BY <2>1, PlaceSteps DEF PInv, IInv
      <3>5. call' = [call EXCEPT ![c] = q] /\ setup' = setup BY <2>3 DEF Becomes, q
      <3> QED BY <3>1, <3>3, <3>4, <3>5, OneCall
    <2> QED BY <1>9, <2>2, <2>3 DEF RetryScheduled, r
  <1>10. CASE TimeoutEnds(c)
    <2> DEFINE e == [r EXCEPT !.expired = FALSE]
    <2>1. PICK out \in IF TimedOut(c) THEN Emitted("timeout")
                       ELSE IF r.out \in {"cancelled", "interrupt"} THEN {r.out}
                       ELSE Emitted(r.out) : Becomes(c, OutTo(c, e, out))
      BY <1>10 DEF TimeoutEnds, r
    <2>2. Besides(c) /\ UNCHANGED vars BY <1>10 DEF TimeoutEnds, Meets, Is, Besides
    <2>3. "timeout" \in Outs BY DEF Outs
    <2>4. out \in Outs BY <1>2, <2>1, <2>3, EmittedType
    <2>5. e \in CallType BY <1>1 DEF CallType
    <2>6. e.depth = r.depth /\ ~e.expired /\ e.cancelled = r.cancelled BY <1>1 DEF CallType
    <2> HIDE DEF e
    <2>7. r.cancelled => ~TimedOut(c) BY DEF TimedOut, r
    <2>8. e.expired \/ e.cancelled => out = "cancelled" BY <1>3, <2>1, <2>6, <2>7
    <2> QED BY <1>2, <2>1, <2>2, <2>4, <2>5, <2>6, <2>8, UpStep
  <1>11. CASE CircuitBegins(c)
    <2>1. CASE Down(c) BY <1>7, <1>11, <2>1 DEF CircuitBegins
    <2>2. CASE \E out \in {"circuitOpen", "error"} : Up(c, out)
      <3>1. PICK out \in {"circuitOpen", "error"} : Up(c, out) BY <2>2
      <3>2. out \in Outs BY DEF Outs
      <3>3. r.pc = "down" /\ Besides(c) /\ UNCHANGED vars
        BY <1>11 DEF CircuitBegins, Meets, Is, Besides, r
      <3> QED BY <1>4, <1>u, <3>1, <3>2, <3>3
    <2> QED BY <1>11, <2>1, <2>2 DEF CircuitBegins
  <1>12. CASE CircuitEnds(c)
    <2>1. Besides(c) /\ UNCHANGED vars BY <1>12 DEF CircuitEnds, Meets, Is, Besides
    <2>2. CASE r.out \in {"cancelled", "interrupt", "contract"} /\ Up(c, r.out)
      BY <1>2, <1>3, <1>u, <2>1, <2>2
    <2>3. CASE r.out # "cancelled" /\ \E out \in Emitted(r.out) : Up(c, out)
      BY <1>2, <1>3, <1>e, <2>1, <2>3
    <2> QED BY <1>12, <2>2, <2>3 DEF CircuitEnds, r
  <1> QED BY <1>5, <1>6, <1>7, <1>8, <1>9, <1>10, <1>11, <1>12

\* Steps that take a permit, wait for one or give it back.
LEMMA BulkheadStep ==
    ASSUME PInv, IInv', NEW c \in Callers,
           \/ BulkheadBegins(c) \/ BulkheadWakes(c)
           \/ BulkheadWaitEnds(c) \/ BulkheadEnds(c)
    PROVE  PInv'
  <1> DEFINE r == call[c]
  <1>1. r \in CallType /\ Placed(r, at[c]) /\ setup.order \in Pipelines BY DEF PInv
  <1>2. r.depth = Depth(c) /\ r.out \in Outs BY <1>1 DEF Depth, CallType
  <1>3. r.expired \/ r.cancelled => r.out = "cancelled" BY <1>1 DEF Placed
  <1>4. r.pc = "down" => ~r.expired /\ ~r.cancelled BY <1>1 DEF Placed
  <1>5. r.pc \in {"down", "up"} /\ setup.order[Depth(c)] = "bulkhead" =>
           ~Beyond(Depth(c)) /\ Beyond(Depth(c) - 1)
    BY <1>1, <1>2, Permits
  <1>6. TypeOK BY DEF PInv, IInv
  <1> HIDE DEF r
  <1>w. WaitsForPermit(c) => r.pc = "down" /\ setup.order[Depth(c)] = "bulkhead"
    BY DEF WaitsForPermit, Meets, Is, r
  <1>i. ASSUME WaitsForPermit(c), Bystanders(c), at'[c] = "running", GoesIn(c) PROVE PInv'
    <2>1. CASE Down(c)
      <3> DEFINE q == Into(c, call[c])
      <3>1. call[c].pc \in {"down", "sleep"} BY <1>i, <1>w DEF r
      <3>2. /\ q \in CallType
            /\ q.pc = IF Depth(c) = 1 THEN "op" ELSE "down"
            /\ q.depth = Depth(c) - 1
            /\ ~q.expired /\ ~q.cancelled
        <4>1. 0 \in Nat OBVIOUS
        <4> QED BY <3>1, <4>1, IntoType
      <3>3. call' = [call EXCEPT ![c] = q] /\ setup' = setup
        BY <2>1 DEF Down, Becomes
      <3> HIDE DEF q
      <3> QED BY <1>5, <1>i, <1>w, <3>1, <3>2, <3>3, InStep
    <2>2. CASE Becomes(c, [r EXCEPT !.pc = "up", !.out = "error"])
      <3> DEFINE q == [r EXCEPT !.pc = "up", !.out = "error"]
      <3>1. q \in CallType BY <1>1 DEF CallType, Outs
      <3>2. /\ q.pc = "up" /\ q.depth = r.depth
            /\ q.expired = r.expired /\ q.cancelled = r.cancelled
        BY <1>1 DEF CallType
      <3> HIDE DEF q
      <3>3. Placed(q, at'[c]) BY <1>1, <1>2, <1>4, <1>i, <1>w, <3>2 DEF Placed
      <3>4. call' = [call EXCEPT ![c] = q] /\ setup' = setup BY <2>2 DEF Becomes, q
      <3> QED BY <1>i, <3>1, <3>3, <3>4, OneCall
    <2> QED BY <1>i, <2>1, <2>2 DEF GoesIn, r
  <1>o. ASSUME NEW out \in Outs, r.pc \in {"down", "up"},
               setup.order[Depth(c)] = "bulkhead",
               r.expired \/ r.cancelled => out = "cancelled",
               Bystanders(c), at'[c] = "outside", Up(c, out)
        PROVE  PInv'
    <2>1. call' = [call EXCEPT ![c] = OutTo(c, r, out)] /\ setup' = setup
      BY <1>o DEF Up, Becomes, r
    <2> QED BY <1>1, <1>2, <1>5, <1>o, <2>1, OutStep
  <1>r. ASSUME WaitsForPermit(c), Bystanders(c), at'[c] = "outside", Rejected(c) PROVE PInv'
    <2>1. PICK out \in Emitted("rejected") : Up(c, out) BY <1>r DEF Rejected
    <2>2. out \in Outs BY DEF Emitted, Outs
    <2> QED BY <1>4, <1>o, <1>r, <1>w, <2>1, <2>2
  <1>s. ASSUME WaitsForPermit(c), Bystanders(c), at'[c] \in {"waiting", "notified"},
               UNCHANGED <<setup, call>>
        PROVE  PInv'
    <2>1. Placed(r, at'[c]) BY <1>1, <1>2, <1>5, <1>s, <1>w DEF Placed
    <2>2. call' = [call EXCEPT ![c] = r] /\ setup' = setup
      BY <1>s DEF r, PInv
    <2> QED BY <1>1, <1>s, <2>1, <2>2, OneCall
  <1>7. CASE BulkheadBegins(c)
    <2>1. WaitsForPermit(c) BY <1>7 DEF BulkheadBegins
    <2>2. CASE Enter(c) /\ GoesIn(c) BY <1>6, <1>i, <2>1, <2>2, PlaceSteps
    <2>3. CASE Reject(c) /\ Rejected(c)
      BY <1>6, <1>r, <2>1, <2>3, PlaceSteps DEF Reject
    <2>4. CASE StartWait(c) /\ UNCHANGED <<setup, call>>
      BY <1>6, <1>s, <2>1, <2>4, PlaceSteps
    <2> QED BY <1>7, <2>2, <2>3, <2>4 DEF BulkheadBegins
  <1>8. CASE BulkheadWakes(c)
    <2>1. WaitsForPermit(c) /\ Wake(c) BY <1>8 DEF BulkheadWakes
    <2>2. Bystanders(c) /\ at'[c] \in {"running", "waiting"} BY <1>6, <2>1, PlaceSteps
    <2>3. CASE at'[c] = "running" BY <1>8, <1>i, <2>1, <2>2, <2>3 DEF BulkheadWakes
    <2>4. CASE at'[c] = "waiting" BY <1>8, <1>s, <2>1, <2>2, <2>4 DEF BulkheadWakes
    <2> QED BY <2>2, <2>3, <2>4
  <1>9. CASE BulkheadWaitEnds(c)
    <2>1. WaitsForPermit(c) BY <1>9 DEF BulkheadWaitEnds
    <2>2. CASE Expire(c) /\ (IF at'[c] = "running" THEN GoesIn(c) ELSE Rejected(c))
      <3>1. Bystanders(c) /\ at'[c] \in {"running", "outside"} BY <1>6, <2>2, PlaceSteps
      <3>2. CASE at'[c] = "running" BY <1>i, <2>1, <2>2, <3>1, <3>2
      <3>3. CASE at'[c] = "outside" BY <1>r, <2>1, <2>2, <3>1, <3>3
      <3> QED BY <3>1, <3>2, <3>3
    <2>3. CASE Abandon(c) /\ Rejected(c) BY <1>6, <1>r, <2>1, <2>3, PlaceSteps
    <2> QED BY <1>9, <2>2, <2>3 DEF BulkheadWaitEnds
  <1>10. CASE BulkheadEnds(c)
    <2>1. /\ r.pc \in {"down", "up"} /\ setup.order[Depth(c)] = "bulkhead"
          /\ Bystanders(c) /\ at'[c] = "outside"
      BY <1>6, <1>10, PlaceSteps DEF BulkheadEnds, Meets, Is, r
    <2>2. CASE r.out \in {"cancelled", "interrupt", "contract"} /\ Up(c, r.out)
      BY <1>2, <1>3, <1>o, <2>1, <2>2
    <2>3. CASE r.out # "cancelled" /\ \E out \in Emitted(r.out) : Up(c, out)
      <3>1. PICK out \in Emitted(r.out) : Up(c, out) BY <2>3
      <3>2. out \in Outs BY <1>2, EmittedType
      <3> QED BY <1>3, <1>o, <2>1, <2>3, <3>1, <3>2
    <2> QED BY <1>10, <2>2, <2>3 DEF BulkheadEnds, r
  <1> QED BY <1>7, <1>8, <1>9, <1>10

\* Steps of a timer, or of the owner of a call, that tell it to stop.
LEMMA CancelStep ==
    ASSUME PInv, IInv', NEW c \in Callers, TimerFires(c) \/ OwnerCancels(c)
    PROVE  PInv'
  <1>1. call[c] \in CallType /\ Placed(call[c], at[c]) /\ setup.order \in Pipelines
    BY DEF PInv
  <1>2. TypeOK BY DEF PInv, IInv
  <1>3. PICK r : /\ CancelledAt(c, r)
                 /\ \/ r = [call[c] EXCEPT !.expired = TRUE]
                    \/ r = [call[c] EXCEPT !.cancelled = TRUE]
    BY DEF TimerFires, OwnerCancels
  <1>4. r \in CallType BY <1>1, <1>3 DEF CallType
  <1>5. r.pc = call[c].pc /\ r.depth = Depth(c) BY <1>1, <1>3 DEF CallType, Depth
  <1>6. "cancelled" \in Outs BY DEF Outs
  <1>7. CASE /\ Is(c, "op") \/ Is(c, "sleep")
             /\ Becomes(c, OutTo(c, r, "cancelled"))
             /\ UNCHANGED vars
    <2>1. Besides(c) BY <1>7 DEF Is, Besides
    <2> QED BY <1>4, <1>5, <1>6, <1>7, <2>1, UpStep
  <1>8. CASE /\ WaitsForPermit(c)
             /\ Abandon(c)
             /\ Becomes(c, OutTo(c, r, "cancelled"))
    <2>1. Bystanders(c) /\ at'[c] = "outside" BY <1>2, <1>8, PlaceSteps
    <2>2. call[c].pc = "down" /\ setup.order[call[c].depth] = "bulkhead"
      BY <1>8 DEF WaitsForPermit, Meets, Is, Depth
    <2>3. ~Beyond(Depth(c)) BY <1>1, <2>2, Permits DEF Depth
    <2>4. call' = [call EXCEPT ![c] = OutTo(c, r, "cancelled")] /\ setup' = setup
      BY <1>8 DEF Becomes
    <2> QED BY <1>4, <1>5, <1>6, <2>1, <2>3, <2>4, OutStep
  <1>9. CASE /\ Meets(c, "up", "bulkhead") \/ Meets(c, "up", "circuit")
             /\ Becomes(c, [r EXCEPT !.out = "cancelled"])
             /\ UNCHANGED vars
    <2> DEFINE q == [r EXCEPT !.out = "cancelled"]
    <2>1. q \in CallType BY <1>4, <1>6 DEF CallType
    <2>2. q.pc = r.pc /\ q.depth = r.depth /\ q.out = "cancelled" BY <1>4 DEF CallType
    <2>3. call' = [call EXCEPT ![c] = q] /\ setup' = setup BY <1>9 DEF Becomes
    <2> HIDE DEF q
    <2>4. call[c].pc = "up" BY <1>9 DEF Meets, Is
    <2>5. q.pc = "up" /\ q.depth = call[c].depth BY <1>5, <2>2, <2>4 DEF Depth
    <2>6. Placed(q, at[c]) BY <1>1, <2>2, <2>4, <2>5 DEF Placed
    <2>7. Bystanders(c) /\ at'[c] = at[c] BY <1>2, <1>9, PlaceSteps
    <2> QED BY <2>1, <2>3, <2>6, <2>7, OneCall
  <1> QED BY <1>3, <1>7, <1>8, <1>9 DEF CancelledAt

\* Every step of the pipeline keeps it.
LEMMA PInvStep == PInv /\ [PipeNext]_pipeVars => PInv'
  <1> SUFFICES ASSUME PInv, [PipeNext]_pipeVars PROVE PInv' OBVIOUS
  <1>1. IInv' BY PipeStep, IInvStep DEF PInv
  <1>2. CASE UNCHANGED pipeVars
    <2>1. setup' = setup /\ call' = call /\ at' = at BY <1>2 DEF pipeVars, vars
    <2> QED BY <1>1, <2>1 DEF PInv, Placed, Beyond, Len0
  <1>3. CASE PipeNext
    BY <1>1, <1>3, PlainStep, BulkheadStep, CancelStep DEF PipeNext
  <1> QED BY <1>2, <1>3

\* The invariant of the pipeline holds in every behaviour.
LEMMA PInvCorrect == PipeSpec => []PInv
  <1> QED BY PInvInit, PInvStep, PTL DEF PipeSpec

\* However the policies are ordered and however a call ends (a result, an error,
\* a rejection, a timeout, a cancellation while it waits, runs, backs off or
\* gives its permit back), it has a permit exactly while it is inside the bulkhead.
THEOREM NoLeakCorrect == PipeSpec => []NoPermitLeak
  <1>1. PInv => NoPermitLeak
    <2> SUFFICES ASSUME PInv, NEW c \in Callers
                 PROVE  at[c] = "running" <=> InsideBulkhead(c)
      BY DEF NoPermitLeak
    <2>1. call[c] \in CallType /\ Placed(call[c], at[c]) /\ setup.order \in Pipelines
      BY DEF PInv
    <2>2. Len0 \in Nat \ {0} BY <2>1, OrderType
    <2>3. call[c].pc = "up" => Depth(c) \in 1 .. Len0 BY <2>1 DEF Placed, Depth
    <2>4. InsideBulkhead(c) <=>
             /\ call[c].pc # "idle"
             /\ Beyond(Depth(c)) \/ (call[c].pc = "up" /\ setup.order[Depth(c)] = "bulkhead")
      BY <2>2, <2>3 DEF InsideBulkhead, Beyond, Is, Len0
    <2> QED BY <2>1, <2>4 DEF Placed, Depth
  <1> QED BY <1>1, PInvCorrect, PTL

\* A call that its owner or a timer told to stop only unwinds, with
\* CancelledError, in every order of the policies.
THEOREM StopsCorrect == PipeSpec => []StopsWhenTold
  <1>1. PInv => StopsWhenTold BY DEF PInv, Placed, StopsWhenTold, Is
  <1> QED BY <1>1, PInvCorrect, PTL

-----------------------------------------------------------------------------
(* Attempts of a retry                                                     *)

\* A call has attempts left as long as its retry backs off.
AttemptOK(r) ==
    /\ r.attempt \in 0 .. MaxAttempts
    /\ r.pc = "sleep" => r.attempt < MaxAttempts

AttemptInv == \A c \in Callers : AttemptOK(call[c])

\* On its way up a call has the attempts it had, or is over.
LEMMA OutAttempts ==
    ASSUME NEW c, NEW r \in CallType, NEW out, r.attempt \in 0 .. MaxAttempts
    PROVE  AttemptOK(OutTo(c, r, out))
  <1>1. CASE Depth(c) = Len(setup.order)
    <2> DEFINE q == [NoCall EXCEPT !.out = out, !.cancelled = r.cancelled]
    <2>1. q.attempt = 0 /\ q.pc = "idle" BY DEF NoCall
    <2>2. OutTo(c, r, out) = q BY <1>1 DEF OutTo
    <2> HIDE DEF q
    <2> QED BY <2>1, <2>2, PipelineAssumption DEF AttemptOK
  <1>2. CASE Depth(c) # Len(setup.order)
    <2> DEFINE q == [r EXCEPT !.depth = @ + 1, !.pc = "up", !.out = out]
    <2>1. q.attempt = r.attempt /\ q.pc = "up" BY DEF CallType
    <2>2. OutTo(c, r, out) = q BY <1>2 DEF OutTo
    <2> HIDE DEF q
    <2> QED BY <2>1, <2>2 DEF AttemptOK
  <1> QED BY <1>1, <1>2

\* On its way down it has them too, and a retry counts.
LEMMA InAttempts ==
    ASSUME NEW c, NEW r \in CallType
    PROVE  LET i == Into(c, r)
           IN  /\ i.attempt = r.attempt /\ i.pc # "sleep"
               /\ \A n \in 0 .. MaxAttempts : AttemptOK([i EXCEPT !.attempt = n])
               /\ [i EXCEPT !.expired = FALSE].attempt = r.attempt
               /\ [i EXCEPT !.expired = FALSE].pc # "sleep"
  <1> DEFINE i == Into(c, r)
             pc == IF Depth(c) = 1 THEN "op" ELSE "down"
  <1>1. i = [r EXCEPT !.depth = @ - 1, !.out = "none", !.pc = pc] /\ pc \in {"op", "down"}
    BY DEF Into
  <1> HIDE DEF i, pc
  <1>2. /\ DOMAIN i = {"pc", "depth", "out", "attempt", "expired", "cancelled"}
        /\ i.attempt = r.attempt /\ i.pc = pc
    BY <1>1 DEF CallType
  <1>3. \A n \in 0 .. MaxAttempts : AttemptOK([i EXCEPT !.attempt = n])
    BY <1>1, <1>2 DEF AttemptOK
  <1>4. /\ [i EXCEPT !.expired = FALSE].attempt = r.attempt
        /\ [i EXCEPT !.expired = FALSE].pc # "sleep"
    BY <1>1, <1>2
  <1> QED BY <1>1, <1>2, <1>3, <1>4 DEF i

\* Every step keeps the count within its limit.
LEMMA AttemptStep ==
    ASSUME PInv, AttemptInv, [PipeNext]_pipeVars
    PROVE  AttemptInv'
  <1>1. call \in [Callers -> CallType] BY DEF PInv
  <1>2. ASSUME call' = call PROVE AttemptInv' BY <1>2 DEF AttemptInv, AttemptOK
  <1>3. ASSUME NEW c \in Callers, NEW q, Becomes(c, q), AttemptOK(q) PROVE AttemptInv'
    <2>1. \A b \in Callers : call'[b] = IF b = c THEN q ELSE call[b]
      BY <1>1, <1>3 DEF Becomes
    <2> QED BY <1>3, <2>1 DEF AttemptInv, AttemptOK
  <1>4. ASSUME NEW c \in Callers, NEW r \in CallType, r.attempt = call[c].attempt,
               NEW out, Becomes(c, OutTo(c, r, out))
        PROVE  AttemptInv'
    <2>1. r.attempt \in 0 .. MaxAttempts BY <1>4 DEF AttemptInv, AttemptOK
    <2>2. AttemptOK(OutTo(c, r, out)) BY <2>1, OutAttempts
    <2> QED BY <1>3, <1>4, <2>2
  <1>5. ASSUME NEW c \in Callers, NEW out, Up(c, out) PROVE AttemptInv'
    <2>1. call[c] \in CallType BY <1>1
    <2> QED BY <1>4, <1>5, <2>1 DEF Up
  <1>6. ASSUME NEW c \in Callers, NEW q, Becomes(c, q),
               \/ q = Into(c, call[c]) \/ q = [Into(c, call[c]) EXCEPT !.expired = FALSE]
        PROVE  AttemptInv'
    <2>1. call[c] \in CallType /\ call[c].attempt \in 0 .. MaxAttempts
      BY <1>1 DEF AttemptInv, AttemptOK
    <2> DEFINE i == Into(c, call[c])
    <2>3. /\ i.attempt = call[c].attempt /\ i.pc # "sleep"
          /\ [i EXCEPT !.expired = FALSE].attempt = call[c].attempt
          /\ [i EXCEPT !.expired = FALSE].pc # "sleep"
      BY <2>1, InAttempts
    <2>4. q = i \/ q = [i EXCEPT !.expired = FALSE] BY <1>6
    <2> HIDE DEF i
    <2>2. q.attempt = call[c].attempt /\ q.pc # "sleep" BY <2>3, <2>4
    <2> QED BY <1>3, <1>6, <2>1, <2>2 DEF AttemptOK
  <1>7. ASSUME NEW c \in Callers, GoesIn(c) PROVE AttemptInv'
    <2>1. CASE Down(c) BY <1>6, <2>1 DEF Down
    <2>2. CASE Becomes(c, [call[c] EXCEPT !.pc = "up", !.out = "error"])
      <3> DEFINE q == [call[c] EXCEPT !.pc = "up", !.out = "error"]
      <3>1. call[c] \in CallType /\ call[c].attempt \in 0 .. MaxAttempts
        BY <1>1 DEF AttemptInv, AttemptOK
      <3>2. q.attempt = call[c].attempt /\ q.pc = "up" BY <3>1 DEF CallType
      <3>3. AttemptOK(q) BY <3>1, <3>2 DEF AttemptOK
      <3> HIDE DEF q
      <3> QED BY <1>3, <2>2, <3>3 DEF q
    <2> QED BY <1>7, <2>1, <2>2 DEF GoesIn
  <1>8. ASSUME NEW c \in Callers, Begin(c) PROVE AttemptInv'
    <2> DEFINE q == [NoCall EXCEPT !.pc = "down", !.depth = Len(setup.order)]
    <2>1. q.attempt = 0 /\ q.pc = "down" BY DEF NoCall
    <2>2. Becomes(c, q) BY <1>8 DEF Begin
    <2> HIDE DEF q
    <2>3. AttemptOK(q) BY <2>1, PipelineAssumption DEF AttemptOK
    <2> QED BY <1>3, <2>2, <2>3
  <1>9. ASSUME NEW c \in Callers, RetryBegins(c) \/ RetryAgain(c) PROVE AttemptInv'
    <2> DEFINE i == Into(c, call[c])
    <2>1. call[c] \in CallType /\ AttemptOK(call[c]) BY <1>1 DEF AttemptInv
    <2>2. i.attempt = call[c].attempt /\ \A n \in 0 .. MaxAttempts : AttemptOK([i EXCEPT !.attempt = n])
      BY <2>1, InAttempts
    <2>3. \/ Becomes(c, [i EXCEPT !.attempt = 1])
          \/ call[c].pc = "sleep" /\ Becomes(c, [i EXCEPT !.attempt = @ + 1])
      BY <1>9 DEF RetryBegins, RetryAgain, Is
    <2> HIDE DEF i
    <2>4. CASE Becomes(c, [i EXCEPT !.attempt = 1])
      <3>1. 1 \in 0 .. MaxAttempts BY PipelineAssumption
      <3> QED BY <1>3, <2>2, <2>4, <3>1
    <2>5. CASE call[c].pc = "sleep" /\ Becomes(c, [i EXCEPT !.attempt = @ + 1])
      <3>1. call[c].attempt + 1 \in 0 .. MaxAttempts
        BY <2>1, <2>5, PipelineAssumption DEF AttemptOK
      <3>2. [i EXCEPT !.attempt = @ + 1] = [i EXCEPT !.attempt = call[c].attempt + 1] BY <2>2
      <3> QED BY <1>3, <2>2, <2>5, <3>1, <3>2
    <2> QED BY <2>3, <2>4, <2>5
  <1>10. ASSUME NEW c \in Callers, RetryScheduled(c) PROVE AttemptInv'
    <2> DEFINE q == [call[c] EXCEPT !.pc = "sleep"]
    <2>1. call[c] \in CallType /\ call[c].attempt \in 0 .. MaxAttempts
      BY <1>1 DEF AttemptInv, AttemptOK
    <2>2. q.attempt = call[c].attempt BY <2>1 DEF CallType
    <2>3. call[c].attempt < MaxAttempts /\ (Becomes(c, q) \/ Up(c, "error"))
      BY <1>10 DEF RetryScheduled
    <2> HIDE DEF q
    <2>4. AttemptOK(q) BY <2>1, <2>2, <2>3 DEF AttemptOK
    <2> QED BY <1>3, <1>5, <2>3, <2>4
  <1>11. ASSUME NEW c \in Callers, TimeoutEnds(c) PROVE AttemptInv'
    <2> DEFINE e == [call[c] EXCEPT !.expired = FALSE]
    <2>1. e \in CallType /\ e.attempt = call[c].attempt BY <1>1 DEF CallType
    <2>2. \E out : Becomes(c, OutTo(c, e, out)) BY <1>11 DEF TimeoutEnds
    <2> HIDE DEF e
    <2> QED BY <1>4, <2>1, <2>2
  <1>12. ASSUME NEW c \in Callers, TimerFires(c) \/ OwnerCancels(c) PROVE AttemptInv'
    <2>1. PICK r : /\ CancelledAt(c, r)
                   /\ \/ r = [call[c] EXCEPT !.expired = TRUE]
                      \/ r = [call[c] EXCEPT !.cancelled = TRUE]
      BY <1>12 DEF TimerFires, OwnerCancels
    <2>2. call[c] \in CallType /\ AttemptOK(call[c]) BY <1>1 DEF AttemptInv
    <2>3. r \in CallType /\ r.attempt = call[c].attempt /\ r.pc = call[c].pc
      BY <2>1, <2>2 DEF CallType
    <2>4. CASE Becomes(c, OutTo(c, r, "cancelled")) BY <1>4, <2>3, <2>4
    <2>5. CASE Becomes(c, [r EXCEPT !.out = "cancelled"])
      <3> DEFINE q == [r EXCEPT !.out = "cancelled"]
      <3>1. q.attempt = r.attempt /\ q.pc = r.pc BY <2>3 DEF CallType
      <3> HIDE DEF q
      <3>2. AttemptOK(q) BY <2>2, <2>3, <3>1 DEF AttemptOK
      <3> QED BY <1>3, <2>5, <3>2 DEF q
    <2> QED BY <2>1, <2>4, <2>5 DEF CancelledAt
  <1>13. ASSUME NEW c \in Callers, TimeoutBegins(c) PROVE AttemptInv'
    BY <1>6, <1>13 DEF TimeoutBegins
  <1>14. ASSUME NEW c \in Callers,
                \/ BulkheadBegins(c) \/ BulkheadWakes(c)
                \/ BulkheadWaitEnds(c) \/ BulkheadEnds(c)
         PROVE  AttemptInv'
    <2>1. call' = call \/ GoesIn(c) \/ \E out : Up(c, out)
      BY <1>14 DEF BulkheadBegins, BulkheadWakes, BulkheadWaitEnds, BulkheadEnds, Rejected
    <2> QED BY <1>2, <1>5, <1>7, <2>1
  <1>15. ASSUME NEW c \in Callers, RetryEnds(c) \/ CircuitBegins(c) \/ CircuitEnds(c) \/ Operate(c)
         PROVE  AttemptInv'
    <2>1. Down(c) \/ \E out : Up(c, out)
      BY <1>15 DEF RetryEnds, CircuitBegins, CircuitEnds, Operate
    <2> QED BY <1>5, <1>6, <2>1 DEF Down
  <1>16. CASE UNCHANGED pipeVars BY <1>2, <1>16 DEF pipeVars
  <1>17. CASE PipeNext
    <2>1. PICK c \in Callers :
              \/ Begin(c) \/ Operate(c)
              \/ RetryBegins(c) \/ RetryEnds(c) \/ RetryScheduled(c) \/ RetryAgain(c)
              \/ TimeoutBegins(c) \/ TimeoutEnds(c)
              \/ CircuitBegins(c) \/ CircuitEnds(c)
              \/ BulkheadBegins(c) \/ BulkheadWakes(c) \/ BulkheadWaitEnds(c) \/ BulkheadEnds(c)
              \/ TimerFires(c) \/ OwnerCancels(c)
      BY <1>17 DEF PipeNext
    <2> QED BY <1>8, <1>9, <1>10, <1>11, <1>12, <1>13, <1>14, <1>15, <2>1
  <1> QED BY <1>16, <1>17

\* Every variable of a pipeline keeps its type.  That the count of attempts never
\* passes max_attempts, whatever the policies around the retry raise and however
\* often backoffs are cut short by cancellations, is the part worth having.
THEOREM AttemptsBounded == PipeSpec => []PipeTypeOK
  <1>1. PipeInit => AttemptInv
    <2> SUFFICES ASSUME PipeInit, NEW c \in Callers PROVE AttemptOK(call[c]) BY DEF AttemptInv
    <2>1. call[c] = NoCall BY DEF PipeInit
    <2>2. NoCall.attempt = 0 /\ NoCall.pc = "idle" BY DEF NoCall
    <2> QED BY <2>1, <2>2, PipelineAssumption DEF AttemptOK
  <1>2. PInv /\ AttemptInv /\ [PipeNext]_pipeVars => AttemptInv' BY AttemptStep
  <1>3. PInv /\ AttemptInv => PipeTypeOK
    <2> SUFFICES ASSUME PInv, AttemptInv PROVE PipeTypeOK OBVIOUS
    <2>1. TypeOK BY DEF PInv, IInv
    <2>2. ASSUME NEW c \in Callers
          PROVE  /\ call[c].pc \in {"idle", "down", "op", "sleep", "up"}
                 /\ Depth(c) \in 0 .. Len(setup.order)
                 /\ call[c].attempt \in 0 .. MaxAttempts
      <3>1. call[c] \in CallType /\ Placed(call[c], at[c]) /\ setup.order \in Pipelines
        BY DEF PInv
      <3>2. Len0 \in Nat \ {0} BY <3>1, OrderType
      <3>3. Depth(c) \in 0 .. Len0 BY <3>1, <3>2 DEF Placed, CallType, Depth
      <3> QED BY <3>1, <3>3 DEF CallType, Len0, AttemptInv, AttemptOK
    <2> QED BY <2>1, <2>2 DEF PipeTypeOK
  <1> QED BY <1>1, <1>2, <1>3, PInvCorrect, PTL DEF PipeSpec

=============================================================================
