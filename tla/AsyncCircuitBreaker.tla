------------------------- MODULE AsyncCircuitBreaker -------------------------
(***************************************************************************)
(* The circuit breaker of bluetape-resilience for tasks, next to the one   *)
(* for threads.  A task leaves the processor only while its operation      *)
(* runs: the asyncio lock is never held at an await, so nobody waits for   *)
(* it, and the clock is read in the step that uses it.  A task may be      *)
(* cancelled while its operation runs: the call is not counted.  The       *)
(* breaker serves the tasks of the event loop it was first used in.        *)
(***************************************************************************)
EXTENDS CircuitBreaker

CONSTANTS
    Loops,    \* event loops
    LoopOf,   \* the event loop a call is made in
    NoLoop,   \* a breaker for tasks that is not bound yet
    Threads   \* the breaker for threads

ASSUME LoopAssumption ==
    /\ LoopOf \in [Calls -> Loops]
    /\ NoLoop \notin Loops
    /\ Threads \notin Loops \cup {NoLoop}

VARIABLE loop  \* _loop; it tells the two breakers apart

breakerVars == <<vars, loop>>

\* A new breaker, of either kind.
BreakerInit == Init /\ loop \in {NoLoop, Threads}

\* _bind_loop; a call of another event loop raises RuntimeError.
BindLoop(c) == loop \in {NoLoop, LoopOf[c]} /\ loop' = LoopOf[c]

AsyncAdmit(c) == BindLoop(c) /\ Admit(c, clock)

\* CircuitOpenError
AsyncReject(c) == BindLoop(c) /\ Reject(c, clock)

\* snapshot(), or a call whose clock raises: only the event loop is bound.
Observe(c) == BindLoop(c) /\ ~call[c].running /\ UNCHANGED vars

\* The task resumes in its loop when its operation ends.
Resumes(c) == loop = LoopOf[c] /\ UNCHANGED loop

AsyncSucceed(c) == Resumes(c) /\ Succeed(c, clock)

AsyncFail(c) == Resumes(c) /\ Fail(c, clock)

\* _release_preserving_cancellation: the task is cancelled, the predicate
\* declines, or a callback raises.
AsyncRelease(c) == Resumes(c) /\ Release(c)

AsyncNext ==
    \/ \E c \in Calls :
          \/ Observe(c) \/ AsyncAdmit(c) \/ AsyncReject(c)
          \/ AsyncSucceed(c) \/ AsyncFail(c) \/ AsyncRelease(c)
    \/ loop # Threads /\ Tick /\ UNCHANGED loop

ThreadsNext == loop = Threads /\ Next /\ UNCHANGED loop

BreakerNext == ThreadsNext \/ AsyncNext

BreakerSpec == BreakerInit /\ [][BreakerNext]_breakerVars

\* As for threads; a task of the loop the breaker is bound to comes back.
BreakerFairness ==
    /\ WF_breakerVars(Tick /\ UNCHANGED loop)
    /\ \A c \in Calls :
          /\ WF_breakerVars(\/ AsyncAdmit(c)
                            \/ /\ loop = Threads /\ UNCHANGED loop
                               /\ \E now \in 0 .. clock : Admit(c, now))
          /\ WF_breakerVars(\/ AsyncSucceed(c)
                            \/ /\ loop = Threads /\ UNCHANGED loop
                               /\ \E now \in 0 .. clock : Succeed(c, now))

BreakerFairSpec == BreakerSpec /\ BreakerFairness

-----------------------------------------------------------------------------
(* Properties                                                              *)

\* Everything that runs under the breaker for tasks runs in the event loop it
\* is bound to: a call of another loop was refused before it was admitted.
OneLoop ==
    \A c \in Calls : call[c].running => loop \in {Threads, LoopOf[c]}

=============================================================================
