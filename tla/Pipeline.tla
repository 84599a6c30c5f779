------------------------------ MODULE Pipeline ------------------------------
(***************************************************************************)
(* Calls through a pipeline of resilience policies (bluetape-resilience):  *)
(* retry, timeout, circuit breaker and one bulkhead that all calls share.  *)
(* setup.order is _policies; the first policy wraps the operation and the  *)
(* last one is called first.  A call goes down through the policies to the *)
(* operation and its outcome comes up through them again.                  *)
(*                                                                         *)
(* The breaker only admits or rejects here (see CircuitBreaker for what it *)
(* decides).  An observer may raise an ordinary error wherever a policy    *)
(* emits an event.  A task is cancelled, by its owner or by the timer of   *)
(* its timeout, only where it can be suspended: in the operation, in a     *)
(* backoff, waiting for a permit, and where the breaker or the bulkhead    *)
(* takes its lock again.                                                   *)
(***************************************************************************)
EXTENDS Bulkhead, Sequences

CONSTANTS
    Pipelines,    \* the sequences of policies that are tried
    MaxAttempts   \* max_attempts of a retry

\* A call has one count of attempts and one timer, so a pipeline holds a retry,
\* a timeout and a bulkhead once at most.
ASSUME PipelineAssumption ==
    /\ MaxAttempts \in Nat \ {0}
    /\ Pipelines \subseteq Seq({"retry", "timeout", "circuit", "bulkhead"}) \ {<<>>}
    /\ \A order \in Pipelines : \A i, j \in 1 .. Len(order) :
          order[i] = order[j] /\ order[i] # "circuit" => i = j

VARIABLES
    setup,   \* the order of the policies, and whether retry_if accepts every error
    call     \* where a call is, and what it has met

pipeVars == <<vars, setup, call>>

NoCall == [pc |-> "idle", depth |-> 0, out |-> "none", attempt |-> 0,
           expired |-> FALSE, cancelled |-> FALSE]

HasTimeout(order) == \E i \in 1 .. Len(order) : order[i] = "timeout"

\* Only an AsyncResiliencePipeline has with_timeout.
PipeInit ==
    /\ Init
    /\ setup \in [order : Pipelines, retryAll : BOOLEAN]
    /\ HasTimeout(setup.order) => kind.tasks
    /\ call = [c \in Callers |-> NoCall]

Depth(c)     == call[c].depth
Is(c, pc)    == call[c].pc = pc
Meets(c, pc, policy) == Is(c, pc) /\ setup.order[Depth(c)] = policy

\* Call the next policy inside, or the operation.
Into(c, r) == [r EXCEPT !.depth = @ - 1, !.out = "none",
                        !.pc = IF Depth(c) = 1 THEN "op" ELSE "down"]

\* Return or raise to the policy outside, or to the caller.
OutTo(c, r, out) ==
    IF Depth(c) = Len(setup.order)
    THEN [NoCall EXCEPT !.out = out, !.cancelled = r.cancelled]
    ELSE [r EXCEPT !.depth = @ + 1, !.pc = "up", !.out = out]

Becomes(c, r) == call' = [call EXCEPT ![c] = r] /\ UNCHANGED setup
Down(c)       == Becomes(c, Into(c, call[c]))
Up(c, out)    == Becomes(c, OutTo(c, call[c], out))

\* An event is emitted; the observer may raise.
Emitted(out) == {out, "error"}

-----------------------------------------------------------------------------
(* A call and its operation                                                *)

Begin(c) ==
    /\ Is(c, "idle")
    /\ Becomes(c, [NoCall EXCEPT !.pc = "down", !.depth = Len(setup.order)])
    /\ UNCHANGED vars

\* The operation returns or raises.  A synchronous one that returns an awaitable
\* breaks the contract, and is refused by the policy around it.
Operate(c) ==
    /\ Is(c, "op")
    /\ \E out \in {"success", "error", "interrupt"}
                  \cup (IF kind.tasks THEN {} ELSE {"contract"}) : Up(c, out)
    /\ UNCHANGED vars

-----------------------------------------------------------------------------
(* Retry.call                                                              *)

RetryBegins(c) ==
    /\ Meets(c, "down", "retry")
    /\ Becomes(c, [Into(c, call[c]) EXCEPT !.attempt = 1])
    /\ UNCHANGED vars

\* Only an Exception is retried, and by default no refusal of another policy.
Retryable(out) ==
    \/ out \in {"error", "exhausted"}
    \/ setup.retryAll /\ out \in {"circuitOpen", "rejected", "timeout"}

\* Faulty variant of RetryEnds: whatever the operation raises is retried.
RetryEndsNever(c) ==
    /\ Meets(c, "up", "retry")
    /\ \/ call[c].out = "success" /\ \E out \in Emitted("success") : Up(c, out)
       \/ /\ call[c].out # "success"
          /\ call[c].attempt >= MaxAttempts
          /\ \E out \in Emitted("exhausted") : Up(c, out)
       \/ /\ call[c].out # "success"
          /\ call[c].attempt < MaxAttempts
          /\ Becomes(c, [call[c] EXCEPT !.pc = "sleep"])
    /\ UNCHANGED vars

\* The attempt is the last one: the outcome goes up, after an event for it.
RetryEnds(c) ==
    /\ Meets(c, "up", "retry")
    /\ LET out == call[c].out
       IN  \/ out \in {"cancelled", "interrupt", "contract"} /\ Up(c, out)
           \/ out = "success" /\ \E o \in Emitted("success") : Up(c, o)
           \/ /\ out \notin {"success", "cancelled", "interrupt", "contract"}
              /\ ~Retryable(out)
              /\ \E o \in Emitted(out) : Up(c, o)
           \/ /\ Retryable(out)
              /\ call[c].attempt >= MaxAttempts
              /\ \E o \in Emitted("exhausted") : Up(c, o)
    /\ UNCHANGED vars

\* A backoff returns a delay, capped by max_delay, or raises: a delay that is not
\* finite and a jitter out of range are errors.
Backoff == {"delay", "raises"}

\* A backoff that raises, or an observer that raises, ends the retry too.
RetryScheduled(c) ==
    /\ Meets(c, "up", "retry")
    /\ Retryable(call[c].out)
    /\ call[c].attempt < MaxAttempts
    /\ \E backoff \in Backoff :
          \/ backoff = "delay" /\ Becomes(c, [call[c] EXCEPT !.pc = "sleep"])
          \/ Up(c, "error")
    /\ UNCHANGED vars

RetryAgain(c) ==
    /\ Is(c, "sleep")
    /\ Becomes(c, [Into(c, call[c]) EXCEPT !.attempt = @ + 1])
    /\ UNCHANGED vars

-----------------------------------------------------------------------------
(* AsyncTimeout.call                                                       *)

TimeoutBegins(c) ==
    /\ Meets(c, "down", "timeout")
    /\ Becomes(c, [Into(c, call[c]) EXCEPT !.expired = FALSE])
    /\ UNCHANGED vars

\* asyncio.timeout turns the cancellation of its own timer into a TimeoutError,
\* unless the owner has cancelled the task as well.
TimedOut(c) == call[c].expired /\ call[c].out = "cancelled" /\ ~call[c].cancelled

TimeoutEnds(c) ==
    /\ Meets(c, "up", "timeout")
    /\ \E out \in IF TimedOut(c) THEN Emitted("timeout")
                  ELSE IF call[c].out \in {"cancelled", "interrupt"} THEN {call[c].out}
                  ELSE Emitted(call[c].out) :
          Becomes(c, OutTo(c, [call[c] EXCEPT !.expired = FALSE], out))
    /\ UNCHANGED vars

-----------------------------------------------------------------------------
(* The circuit breaker, as the other policies see it                       *)

CircuitBegins(c) ==
    /\ Meets(c, "down", "circuit")
    /\ \/ Down(c)
       \/ \E out \in {"circuitOpen", "error"} : Up(c, out)
    /\ UNCHANGED vars

CircuitEnds(c) ==
    /\ Meets(c, "up", "circuit")
    /\ \E out \in IF call[c].out \in {"cancelled", "interrupt", "contract"} THEN {call[c].out}
                  ELSE Emitted(call[c].out) : Up(c, out)
    /\ UNCHANGED vars

-----------------------------------------------------------------------------
(* Bulkhead.call: the permit is taken by the actions of Bulkhead           *)

WaitsForPermit(c) == Meets(c, "down", "bulkhead")

\* With the permit the call goes in, unless the observer raises: then it goes up
\* to the bulkhead again, where the permit is given back.
GoesIn(c) ==
    \/ Down(c)
    \/ Becomes(c, [call[c] EXCEPT !.pc = "up", !.out = "error"])

Rejected(c) == \E out \in Emitted("rejected") : Up(c, out)

BulkheadBegins(c) ==
    /\ WaitsForPermit(c)
    /\ \/ Enter(c) /\ GoesIn(c)
       \/ Reject(c) /\ Rejected(c)
       \/ StartWait(c) /\ UNCHANGED <<setup, call>>

BulkheadWakes(c) ==
    /\ WaitsForPermit(c)
    /\ Wake(c)
    /\ IF at'[c] = "running" THEN GoesIn(c) ELSE UNCHANGED <<setup, call>>

\* The wait ends: a thread by its deadline, a task by the timer of max_wait.
BulkheadWaitEnds(c) ==
    /\ WaitsForPermit(c)
    /\ \/ Expire(c) /\ (IF at'[c] = "running" THEN GoesIn(c) ELSE Rejected(c))
       \/ Abandon(c) /\ Rejected(c)

\* Faulty variant of BulkheadEnds: a call that was cancelled keeps its permit.
BulkheadEndsUnlessCancelled(c) ==
    /\ Meets(c, "up", "bulkhead")
    /\ IF call[c].out = "cancelled" THEN UNCHANGED vars ELSE Release(c)
    /\ Up(c, call[c].out)

\* The permit is given back before the event is emitted.
BulkheadEnds(c) ==
    /\ Meets(c, "up", "bulkhead")
    /\ Release(c)
    /\ \E out \in IF call[c].out \in {"cancelled", "interrupt", "contract"} THEN {call[c].out}
                  ELSE Emitted(call[c].out) : Up(c, out)

-----------------------------------------------------------------------------
(* Cancellation                                                            *)

\* Is the call inside a timeout whose timer runs?
TimerRuns(c) ==
    /\ ~call[c].expired
    /\ \E i \in 1 .. Len(setup.order) : setup.order[i] = "timeout" /\ i > Depth(c)

\* CancelledError is raised where the task is suspended.  While a permit or the
\* slot of a probe is given back, _release_preserving_cancellation remembers it
\* and raises it afterwards.
CancelledAt(c, r) ==
    \/ /\ Is(c, "op") \/ Is(c, "sleep")
       /\ Becomes(c, OutTo(c, r, "cancelled"))
       /\ UNCHANGED vars
    \/ /\ WaitsForPermit(c)
       /\ Abandon(c)
       /\ Becomes(c, OutTo(c, r, "cancelled"))
    \/ /\ Meets(c, "up", "bulkhead") \/ Meets(c, "up", "circuit")
       /\ Becomes(c, [r EXCEPT !.out = "cancelled"])
       /\ UNCHANGED vars

TimerFires(c) ==
    /\ kind.tasks /\ TimerRuns(c)
    /\ CancelledAt(c, [call[c] EXCEPT !.expired = TRUE])

OwnerCancels(c) ==
    /\ kind.tasks /\ ~call[c].cancelled
    /\ CancelledAt(c, [call[c] EXCEPT !.cancelled = TRUE])

-----------------------------------------------------------------------------

PipeNext ==
    \E c \in Callers :
        \/ Begin(c) \/ Operate(c)
        \/ RetryBegins(c) \/ RetryEnds(c) \/ RetryScheduled(c) \/ RetryAgain(c)
        \/ TimeoutBegins(c) \/ TimeoutEnds(c)
        \/ CircuitBegins(c) \/ CircuitEnds(c)
        \/ BulkheadBegins(c) \/ BulkheadWakes(c) \/ BulkheadWaitEnds(c) \/ BulkheadEnds(c)
        \/ TimerFires(c) \/ OwnerCancels(c)

PipeSpec == PipeInit /\ [][PipeNext]_pipeVars

\* A caller that was notified gets to run.
PipeFairSpec == PipeSpec /\ \A c \in Callers : WF_pipeVars(BulkheadWakes(c))

-----------------------------------------------------------------------------
(* Properties                                                              *)

\* The types of the variables.  A retry makes MaxAttempts attempts at most.
PipeTypeOK ==
    /\ TypeOK
    /\ \A c \in Callers :
          /\ call[c].pc \in {"idle", "down", "op", "sleep", "up"}
          /\ Depth(c) \in 0 .. Len(setup.order)
          /\ call[c].attempt \in 0 .. MaxAttempts

\* Is the call inside the bulkhead of its pipeline, or about to leave it?
InsideBulkhead(c) ==
    \E i \in 1 .. Len(setup.order) :
        /\ setup.order[i] = "bulkhead"
        /\ ~Is(c, "idle")
        /\ i > Depth(c) \/ (i = Depth(c) /\ Is(c, "up"))

\* A permit belongs to a call exactly as long as the call is inside the bulkhead:
\* also through the backoffs of a retry inside it, never through those of a retry
\* outside, and no longer than the call, however it ends.
NoPermitLeak == \A c \in Callers : at[c] = "running" <=> InsideBulkhead(c)

\* A call that was told to stop only unwinds, with CancelledError: no policy
\* tries again, waits, or runs the operation.  An expired timer stops what is
\* inside its timeout, and a cancellation by the owner stops the whole call,
\* also when the timer has fired as well.
StopsWhenTold ==
    \A c \in Callers :
        /\ call[c].expired => Is(c, "up") /\ call[c].out = "cancelled"
        /\ call[c].cancelled => call[c].pc \in {"up", "idle"} /\ call[c].out = "cancelled"

=============================================================================
