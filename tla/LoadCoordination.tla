-------------------------- MODULE LoadCoordination --------------------------
(***************************************************************************)
(* Distributed loading of one cache key through Redis (bluetape-cache-     *)
(* redis): the flights that the local caches of several processes start on *)
(* a miss, the lease marker and the result they share, and the providers   *)
(* that carry their commands and may be closed under them.                 *)
(*                                                                         *)
(* A flight is one call of _distributed_load.  It draws a fresh owner      *)
(* token for every attempt, so a flight and an attempt name a token.  A    *)
(* process is synchronous or asynchronous; the two coordinators run the    *)
(* same protocol, and only an asynchronous flight can be cancelled.        *)
(*                                                                         *)
(* Redis expires keys by its own clock (Tick).  The waiting deadline of a  *)
(* flight may pass at any time.                                            *)
(***************************************************************************)
EXTENDS Integers, FiniteSets

CONSTANTS
    Processes,    \* one coordinator with its provider each
    AsyncProcs,   \* the asynchronous ones
    Flights,      \* calls of _distributed_load
    ProcessOf,    \* the process of a flight
    Closers,      \* calls of close() or aclose()
    LeaseTtl,     \* options.lease_ttl, in ticks
    ResultTtl,    \* options.result_ttl
    MaxAttempts,  \* options.max_attempts
    MaxPolls,     \* options.max_polls
    Writer,       \* the compression a process writes with
    Readers,      \* the compressions a process can read besides its own
    Limit,        \* max_encoded_size of a process: what it writes and reads
    Foreign,      \* may something else have written the lease key before?
    NoToken       \* no owner token

\* The bounds that the constructor enforces; a TTL counts ticks.
RedisLoadOptions ==
    /\ {LeaseTtl, ResultTtl} \subseteq Nat \ {0}
    /\ MaxAttempts \in 1 .. 100
    /\ MaxPolls \in 1 .. 10000

ASSUME LoadAssumption ==
    /\ IsFiniteSet(Flights)
    /\ AsyncProcs \subseteq Processes
    /\ ProcessOf \in [Flights -> Processes]
    /\ NoToken \notin Flights \X (1 .. MaxAttempts)
    /\ Limit \in [Processes -> Nat \ {0}]
    /\ Foreign \in BOOLEAN
    /\ RedisLoadOptions

VARIABLES
    marker,    \* the lease key: its kind, token and PTTL
    result,    \* the result key: its envelope's token, compression and size
    late,      \* commands whose caller gave up, not executed yet
    flight,    \* where a flight is, its _FlightState and its deadlines
    outcome,   \* the outcome a flight ended with
    orphaned,  \* auxiliary: tokens of which a set, publish or delete failed
    provider,  \* _state of a provider, and whether closing its client failed
    active,    \* _active of a provider
    closer,    \* where a closer is
    closes     \* the process that the closers close

redisVars    == <<marker, result, late>>
flightVars   == <<flight, outcome, orphaned>>
providerVars == <<provider, active, closer, closes>>
vars == <<redisVars, flightVars, providerVars>>

Tokens   == Flights \X (1 .. MaxAttempts)
NoMarker == [kind |-> "none", token |-> NoToken, ttl |-> 0]
NoResult == [token |-> NoToken, compression |-> "identity", size |-> 0, ttl |-> 0]
NoReply  == [status |-> "none", kind |-> "none", token |-> NoToken, data |-> NoResult]
Commands == {"acquire", "snapshot", "publish", "cleanup"}

\* How a flight ends.  A failure with the code INVALID_ARTIFACT is told apart
\* by its reason: a missing result, an oversized one, a malformed marker.
InvalidArtifact == {"MISSING", "OVERSIZED", "MALFORMED"}

Outcomes == {"LOADED", "RESULT_REUSED", "LEASE_LOST", "TIMEOUT", "FAILURE", "CANCELLED"}
            \cup InvalidArtifact

\* A flight that is not under way has no state of its own.
Rest(pc) == [pc |-> pc, reply |-> NoReply, attempts |-> 0, polls |-> 0,
             overdue |-> FALSE, leaseLeft |-> 0, failing |-> "none"]

\* A lease key that no coordinator wrote, with no time to live: not ASCII, too
\* long, or without one of the two states and a token.
Malformed == [NoMarker EXCEPT !.kind = "malformed"]

Init ==
    /\ marker \in {NoMarker} \cup (IF Foreign THEN {Malformed} ELSE {})
    /\ result = NoResult
    /\ late = {}
    /\ flight = [f \in Flights |-> Rest("new")]
    /\ outcome = [f \in Flights |-> "none"]
    /\ orphaned = {}
    /\ provider = [p \in Processes |-> "open"]
    /\ active = [p \in Processes |-> 0]
    /\ closer = [c \in Closers |-> "idle"]
    /\ closes \in Processes

At(f, pc)    == flight[f].pc = pc
Token(f)     == <<f, flight[f].attempts>>
Replied(f, pc) == At(f, pc) /\ flight[f].reply # NoReply
Status(f)    == flight[f].reply.status
Overdue(f)   == flight[f].overdue

\* Is a command of the flight on its way to the server?
Sent(f) == flight[f].pc \in Commands /\ flight[f].reply = NoReply

-----------------------------------------------------------------------------
(* The Redis commands, executed atomically by the server                   *)

SetIfAbsent(token) ==
    /\ marker' = IF marker.kind = "none"
                 THEN [kind |-> "active", token |-> token, ttl |-> LeaseTtl]
                 ELSE marker
    /\ UNCHANGED result

\* Does the marker still say "active" with this token?
Owned(token) == marker.kind = "active" /\ marker.token = token

\* Faulty variant of PublishIfValue: the completion has a TTL of its own.
PublishIfValueOwnTtl(token, encoded) ==
    /\ marker' = IF Owned(token)
                 THEN [kind |-> "completed", token |-> token, ttl |-> ResultTtl + 1]
                 ELSE marker
    /\ result' = IF Owned(token)
                 THEN [token |-> token, compression |-> encoded.compression,
                       size |-> encoded.size, ttl |-> ResultTtl]
                 ELSE result

\* PUBLISH_IF_VALUE_SCRIPT: the result and the completion marker, one TTL.
PublishIfValue(token, encoded) ==
    /\ marker' = IF Owned(token)
                 THEN [kind |-> "completed", token |-> token, ttl |-> ResultTtl]
                 ELSE marker
    /\ result' = IF Owned(token)
                 THEN [token |-> token, compression |-> encoded.compression,
                       size |-> encoded.size, ttl |-> ResultTtl]
                 ELSE result

DeleteIfValue(token) ==
    /\ marker' = IF Owned(token) THEN NoMarker ELSE marker
    /\ UNCHANGED result

\* COORDINATION_SNAPSHOT_SCRIPT does not read the result of an active lease.
Snapshot == [status |-> "snapshot", kind |-> marker.kind, token |-> marker.token,
             data |-> IF marker.kind = "active" THEN NoResult ELSE result]

\* What encode makes of the values that a process loads: it raises for an
\* envelope above the limit of the process itself.
Encoded(p) == {[compression |-> Writer[p], size |-> n] : n \in 1 .. Limit[p]}

Effect(command, token, encoded) ==
    CASE command = "acquire"  -> SetIfAbsent(token)
      [] command = "publish"  -> PublishIfValue(token, encoded)
      [] command = "cleanup"  -> DeleteIfValue(token)
      [] command = "snapshot" -> UNCHANGED <<marker, result>>

Answer(command, token) ==
    CASE command = "acquire"  -> [NoReply EXCEPT !.status =
                                    IF marker.kind = "none" THEN "true" ELSE "false"]
      [] command = "snapshot" -> Snapshot
      [] OTHER                -> [NoReply EXCEPT !.status =
                                    IF Owned(token) THEN "true" ELSE "false"]

\* The size of a publication matters only now: nobody has looked at it before.
Serve(f) ==
    /\ Sent(f)
    /\ \E encoded \in Encoded(ProcessOf[f]) : Effect(flight[f].pc, Token(f), encoded)
    /\ flight' = [flight EXCEPT ![f].reply = Answer(flight[f].pc, Token(f))]
    /\ UNCHANGED <<late, outcome, orphaned, providerVars>>

\* What is left of a command whose caller no longer waits: nothing, because it
\* was never sent or was executed, or a command the server will still execute.
LeaveBehind(f) ==
    /\ \/ UNCHANGED late
       \/ /\ Sent(f) /\ ~At(f, "snapshot")
          /\ late' = late \cup {<<flight[f].pc, Token(f)>>}
    /\ orphaned' = IF At(f, "snapshot") THEN orphaned ELSE orphaned \cup {Token(f)}

Raises(f) == flight' = [flight EXCEPT ![f].reply = [NoReply EXCEPT !.status = "error"]]

\* The connection fails or a command takes too long.
CommandFails(f) ==
    /\ flight[f].pc \in Commands
    /\ Status(f) # "error"
    /\ LeaveBehind(f)
    /\ Raises(f)
    /\ UNCHANGED <<marker, result, outcome, providerVars>>

\* The answer to an executed command is not of the expected form.
InvalidResponse(f) ==
    /\ flight[f].reply.status \notin {"none", "error"}
    /\ orphaned' = IF At(f, "snapshot") THEN orphaned ELSE orphaned \cup {Token(f)}
    /\ Raises(f)
    /\ UNCHANGED <<redisVars, outcome, providerVars>>

\* A coordinator accepts only a provider whose commands are bounded and are not
\* retried: every command ends.
CommandEnds(f) == Serve(f) \/ CommandFails(f)

ServeLate(command) ==
    /\ \E encoded \in Encoded(ProcessOf[command[2][1]]) :
          Effect(command[1], command[2], encoded)
    /\ late' = late \ {command}
    /\ UNCHANGED <<flightVars, providerVars>>

\* A key whose last tick is over is gone; the clocks of the owners go on too.
Tick ==
    /\ marker' = IF marker = Malformed THEN marker
                 ELSE IF marker.ttl <= 1 THEN NoMarker
                 ELSE [marker EXCEPT !.ttl = @ - 1]
    /\ result' = IF result.ttl <= 1 THEN NoResult ELSE [result EXCEPT !.ttl = @ - 1]
    /\ flight' = [f \in Flights |-> [flight[f] EXCEPT !.leaseLeft = IF @ = 0 THEN 0 ELSE @ - 1]]
    /\ UNCHANGED <<late, outcome, orphaned, providerVars>>

-----------------------------------------------------------------------------
(* _execute: admission to the provider and release from it                 *)

Open(f) == provider[ProcessOf[f]] = "open"

Goto(f, pc) == flight' = [flight EXCEPT ![f].pc = pc, ![f].reply = NoReply]

\* _admit, and the command is on its way.
Admit(f, command) ==
    /\ Open(f)
    /\ active' = [active EXCEPT ![ProcessOf[f]] = @ + 1]
    /\ Goto(f, command)

\* _release, after the command has returned or raised.
Release(f) == active' = [active EXCEPT ![ProcessOf[f]] = @ - 1]

-----------------------------------------------------------------------------
(* _distributed_load and _run_flight                                       *)

Ends(f, how) ==
    /\ flight' = [flight EXCEPT ![f] = Rest("done")]
    /\ outcome' = [outcome EXCEPT ![f] = how]

\* get_or_load of the local cache misses and runs the loader it was given.
GetOrLoad(f) ==
    /\ At(f, "new")
    /\ Goto(f, "start")
    /\ UNCHANGED <<redisVars, outcome, orphaned, providerVars>>

Acquire(f) ==
    /\ At(f, "start")
    /\ LET spent == Overdue(f) \/ flight[f].attempts = MaxAttempts
       IN  \/ spent /\ Ends(f, "TIMEOUT") /\ UNCHANGED active
           \/ ~spent /\ ~Open(f) /\ Ends(f, "FAILURE") /\ UNCHANGED active
           \/ /\ ~spent /\ Open(f)
              /\ flight' = [flight EXCEPT ![f].attempts = @ + 1, ![f].pc = "acquire",
                                          ![f].reply = NoReply]
              /\ active' = [active EXCEPT ![ProcessOf[f]] = @ + 1]
              /\ UNCHANGED outcome
    /\ UNCHANGED <<redisVars, orphaned, provider, closer, closes>>

\* lease_deadline is set after the acquisition has returned.
OwnedFor == LeaseTtl

\* An owner fails: it gives the lease back before it ends.
Fail(f, how) ==
    /\ flight' = [flight EXCEPT ![f].pc = "clean", ![f].reply = NoReply, ![f].failing = how]
    /\ UNCHANGED outcome

AcquireReturns(f) ==
    /\ Replied(f, "acquire")
    /\ Release(f)
    /\ \/ Status(f) = "error" /\ Ends(f, "FAILURE")
       \/ Status(f) = "true" /\ Overdue(f) /\ Fail(f, "TIMEOUT")
       \/ /\ Status(f) = "true" /\ ~Overdue(f)
          /\ flight' = [flight EXCEPT ![f].pc = "load", ![f].reply = NoReply,
                                      ![f].leaseLeft = OwnedFor]
          /\ UNCHANGED outcome
       \/ Status(f) = "false" /\ Overdue(f) /\ Ends(f, "TIMEOUT")
       \/ Status(f) = "false" /\ ~Overdue(f) /\ Goto(f, "poll") /\ UNCHANGED outcome
    /\ UNCHANGED <<redisVars, orphaned, provider, closer, closes>>

Poll(f) ==
    /\ At(f, "poll")
    /\ \/ Overdue(f) /\ Ends(f, "TIMEOUT") /\ UNCHANGED active
       \/ ~Overdue(f) /\ ~Open(f) /\ Ends(f, "FAILURE") /\ UNCHANGED active
       \/ ~Overdue(f) /\ Admit(f, "snapshot") /\ UNCHANGED outcome
    /\ UNCHANGED <<redisVars, orphaned, provider, closer, closes>>

\* The registry of readers holds the writer too, and "identity" needs none.
Readable(p) == {"identity", Writer[p]} \cup Readers[p]

\* decode_matching: another owner's envelope is no match, and a compression
\* that the process cannot undo is an error.
DecodeMatching(p, data, token) ==
    IF data.token # token THEN "mismatch"
    ELSE IF data.compression \in Readable(p) THEN "match"
    ELSE "error"

\* _parse_marker: the state and the token of a marker that is one.
ParseMarker(kind) == kind \in {"active", "completed"}

\* Faulty variant of PollAgain: the budget of polls is not used up.
PollAgainFree(f) ==
    Goto(f, "poll") /\ UNCHANGED outcome

\* The marker is still there: sleep and poll again, within the budget.
PollAgain(f) ==
    \/ flight[f].polls + 1 >= MaxPolls /\ Ends(f, "TIMEOUT")
    \/ /\ flight[f].polls + 1 < MaxPolls
       /\ flight' = [flight EXCEPT ![f].polls = @ + 1, ![f].pc = "poll", ![f].reply = NoReply]
       /\ UNCHANGED outcome

\* An oversized result is an error whatever the marker says; then a marker that
\* is gone, malformed, active or completed.
SnapshotReturns(f) ==
    /\ Replied(f, "snapshot")
    /\ Release(f)
    /\ LET r == flight[f].reply
           oversized == r.data.size > Limit[ProcessOf[f]]
           fits == r.status # "error" /\ ~Overdue(f) /\ ~oversized
           match == DecodeMatching(ProcessOf[f], r.data, r.token)
       IN  \/ r.status = "error" /\ Ends(f, "FAILURE")
           \/ r.status # "error" /\ Overdue(f) /\ Ends(f, "TIMEOUT")
           \/ r.status # "error" /\ ~Overdue(f) /\ oversized /\ Ends(f, "OVERSIZED")
           \/ fits /\ r.kind = "none" /\ Goto(f, "start") /\ UNCHANGED outcome
           \/ fits /\ r.kind # "none" /\ ~ParseMarker(r.kind) /\ Ends(f, "MALFORMED")
           \/ fits /\ r.kind = "active" /\ PollAgain(f)
           \/ fits /\ r.kind = "completed" /\ r.data = NoResult /\ Ends(f, "MISSING")
           \/ /\ fits /\ r.kind = "completed" /\ r.data # NoResult
              /\ \/ match = "mismatch" /\ PollAgain(f)
                 \/ match = "error" /\ Ends(f, "FAILURE")
                 \/ match = "match" /\ Ends(f, "RESULT_REUSED")
    /\ UNCHANGED <<redisVars, orphaned, provider, closer, closes>>

-----------------------------------------------------------------------------
(* _run_owner and _cleanup                                                 *)

\* The loader returns: publish while the lease can still be ours.
LoadReturns(f) ==
    /\ At(f, "load")
    /\ LET mine == flight[f].leaseLeft > 0
       IN  \/ ~mine /\ Ends(f, "LEASE_LOST") /\ UNCHANGED active
           \/ mine /\ Admit(f, "publish") /\ UNCHANGED outcome
           \/ mine /\ ~Open(f) /\ Fail(f, "FAILURE") /\ UNCHANGED active
    /\ UNCHANGED <<redisVars, orphaned, provider, closer, closes>>

\* Faulty variant of LoadRaises: the lease is left to expire.
LoadRaisesOnly(f) ==
    /\ At(f, "load")
    /\ Ends(f, "FAILURE")
    /\ UNCHANGED <<redisVars, orphaned, providerVars>>

\* The loader, or the encoding of its value, raises.
LoadRaises(f) ==
    /\ At(f, "load")
    /\ Fail(f, "FAILURE")
    /\ UNCHANGED <<redisVars, orphaned, providerVars>>

PublishReturns(f) ==
    /\ Replied(f, "publish")
    /\ Release(f)
    /\ \/ Status(f) = "true" /\ Ends(f, "LOADED")
       \/ Status(f) = "false" /\ Ends(f, "LEASE_LOST")
       \/ Status(f) = "error" /\ Fail(f, "FAILURE")
    /\ UNCHANGED <<redisVars, orphaned, provider, closer, closes>>

\* _cleanup deletes the marker; a provider that is closed fails it.
Cleanup(f) ==
    /\ At(f, "clean")
    /\ \/ Admit(f, "cleanup") /\ UNCHANGED <<outcome, orphaned>>
       \/ /\ ~Open(f)
          /\ orphaned' = orphaned \cup {Token(f)}
          /\ Ends(f, flight[f].failing)
          /\ UNCHANGED active
    /\ UNCHANGED <<redisVars, provider, closer, closes>>

\* A failed cleanup leaves the primary error what it is.
CleanupReturns(f) ==
    /\ Replied(f, "cleanup")
    /\ Release(f)
    /\ Ends(f, flight[f].failing)
    /\ UNCHANGED <<redisVars, orphaned, provider, closer, closes>>

\* The deadline of a flight passes.
DeadlinePasses(f) ==
    /\ flight[f].pc \in {"start", "acquire", "poll", "snapshot"}
    /\ ~Overdue(f)
    /\ flight' = [flight EXCEPT ![f].overdue = TRUE]
    /\ UNCHANGED <<redisVars, outcome, orphaned, providerVars>>

RunFlight(f) == Acquire(f) \/ AcquireReturns(f) \/ Poll(f) \/ SnapshotReturns(f)

RunOwner(f) ==
    \/ LoadReturns(f) \/ LoadRaises(f) \/ PublishReturns(f)
    \/ Cleanup(f) \/ CleanupReturns(f)

-----------------------------------------------------------------------------
(* The asynchronous coordinator: the same protocol, and cancellation       *)

\* A cancelled command is released; what the server makes of it is open.
CancelCommand(f) == Release(f) /\ LeaveBehind(f)

CancelFlight(f) ==
    /\ \/ flight[f].pc \in {"acquire", "snapshot"} /\ CancelCommand(f)
       \/ At(f, "poll") /\ UNCHANGED <<late, active, orphaned>>
    /\ Ends(f, "CANCELLED")
    /\ UNCHANGED <<marker, result, provider, closer, closes>>

\* A cancelled owner cleans up first, and _cleanup_primary is shielded from
\* further cancellation.
CancelOwner(f) ==
    /\ \/ At(f, "load") /\ UNCHANGED <<late, active, orphaned>>
       \/ At(f, "publish") /\ CancelCommand(f)
    /\ Fail(f, "CANCELLED")
    /\ UNCHANGED <<marker, result, provider, closer, closes>>

AsyncRunFlight(f) == RunFlight(f) \/ CancelFlight(f)

AsyncRunOwner(f) == RunOwner(f) \/ CancelOwner(f)

-----------------------------------------------------------------------------
(* close() and aclose(): no command is admitted any more, the admitted     *)
(* ones are drained, then the client is closed, once                       *)

IsAsync(p) == p \in AsyncProcs
Closed(p)  == provider[p] \in {"closed", "failed"}

\* The first closer begins, a later one joins it or finds it done.
BeginClose(c) ==
    /\ closer[c] = "idle"
    /\ provider' = [provider EXCEPT ![closes] = IF @ = "open" THEN "closing" ELSE @]
    /\ closer' = [closer EXCEPT ![c] = IF Closed(closes) THEN "done" ELSE "wait"]
    /\ UNCHANGED <<redisVars, flightVars, active, closes>>

\* Faulty variant of Drained: the client is closed under its commands.
DrainedAtOnce(p) ==
    /\ provider[p] = "closing"
    /\ \E how \in {"closed", "failed"} : provider' = [provider EXCEPT ![p] = how]
    /\ UNCHANGED <<redisVars, flightVars, active, closer, closes>>

\* The last command is released; closing the client may fail, and the provider
\* is closed all the same.
Drained(p) ==
    /\ provider[p] = "closing"
    /\ active[p] = 0
    /\ \E how \in {"closed", "failed"} : provider' = [provider EXCEPT ![p] = how]
    /\ UNCHANGED <<redisVars, flightVars, active, closer, closes>>

\* Everyone who waited learns of the failure.
CloseReturns(c) ==
    /\ closer[c] = "wait"
    /\ Closed(closes)
    /\ closer' = [closer EXCEPT ![c] =
                    IF provider[closes] = "failed" THEN "raised" ELSE "done"]
    /\ UNCHANGED <<redisVars, flightVars, provider, active, closes>>

\* A cancelled aclose() waits for the shielded cleanup all the same.
CancelClose(c) ==
    /\ closer[c] = "wait"
    /\ closer' = [closer EXCEPT ![c] = "waitCancelled"]
    /\ UNCHANGED <<redisVars, flightVars, provider, active, closes>>

CancelledCloseReturns(c) ==
    /\ closer[c] = "waitCancelled"
    /\ Closed(closes)
    /\ closer' = [closer EXCEPT ![c] = "cancelled"]
    /\ UNCHANGED <<redisVars, flightVars, provider, active, closes>>

Close(c) == ~IsAsync(closes) /\ (BeginClose(c) \/ CloseReturns(c))

AClose(c) ==
    /\ IsAsync(closes)
    /\ BeginClose(c) \/ CloseReturns(c) \/ CancelClose(c) \/ CancelledCloseReturns(c)

-----------------------------------------------------------------------------

FlightStep(f) ==
    IF IsAsync(ProcessOf[f]) THEN AsyncRunFlight(f) \/ AsyncRunOwner(f)
                             ELSE RunFlight(f) \/ RunOwner(f)

Next ==
    \/ \E f \in Flights : GetOrLoad(f) \/ FlightStep(f) \/ DeadlinePasses(f)
    \/ \E f \in Flights : CommandEnds(f) \/ InvalidResponse(f)
    \/ \E command \in late : ServeLate(command)
    \/ \E c \in Closers : Close(c) \/ AClose(c)
    \/ \E p \in Processes : Drained(p)
    \/ Tick

Spec == Init /\ [][Next]_vars

\* Threads and tasks run, a socket timeout ends a command that has no answer,
\* and loaders return or raise.  Neither deadlines nor expiry are relied upon.
FairSpec ==
    /\ Spec
    /\ \A f \in Flights : WF_vars(RunFlight(f) \/ RunOwner(f))
    /\ \A f \in Flights : WF_vars(CommandEnds(f))
    /\ \A p \in Processes : WF_vars(Drained(p))
    /\ \A c \in Closers : WF_vars(CloseReturns(c) \/ CancelledCloseReturns(c))

-----------------------------------------------------------------------------
(* Properties                                                              *)

TypeOK ==
    /\ marker \in [kind : {"none", "active", "completed", "malformed"},
                   token : Tokens \cup {NoToken}, ttl : Nat]
    /\ outcome \in [Flights -> Outcomes \cup {"none"}]
    /\ result.token \in Tokens \cup {NoToken}
    /\ \A f \in Flights :
          /\ flight[f].pc \in Commands \cup {"new", "start", "poll", "load", "clean", "done"}
          /\ flight[f].attempts \in 0 .. MaxAttempts
          /\ flight[f].polls \in 0 .. MaxPolls - 1
          /\ flight[f].leaseLeft \in 0 .. LeaseTtl
    /\ provider \in [Processes -> {"open", "closing", "closed", "failed"}]
    /\ active \in [Processes -> Nat]

\* An active marker has an owner that will still publish or delete it; only a
\* command that failed, was cancelled, or met a closed provider leaves a marker
\* behind for its TTL.  A flight that gives up its lease by its own clock
\* (LEASE_LOST without a publication) does so after Redis has dropped it.
MarkerHasOwner ==
    marker.kind = "active" /\ marker.token \notin orphaned =>
        LET f == marker.token[1]
        IN  /\ marker.token = Token(f)
            /\ flight[f].pc \in {"acquire", "load", "publish", "clean", "cleanup"}

\* A completed marker comes with the result of its owner for as long as it is
\* there, so that no waiter takes the artifacts of the others for corrupt but
\* for a reason outside the protocol: a waiter meets a result above its own
\* limit only where another process has a larger one, and a malformed marker
\* only where something else has written the lease key.
CompletionHasResult ==
    /\ marker.kind = "completed" => result.token = marker.token
    /\ \A f \in Flights :
          /\ outcome[f] # "MISSING"
          /\ outcome[f] = "OVERSIZED" => \E p \in Processes : Limit[p] > Limit[ProcessOf[f]]
          /\ outcome[f] = "MALFORMED" => Foreign

\* The client is closed only when no command of it is on its way, and the
\* count of admitted commands is what close() takes it for.
ClosedIsDrained ==
    \A p \in Processes :
        /\ active[p] = Cardinality({f \in Flights : ProcessOf[f] = p /\ flight[f].pc \in Commands})
        /\ Closed(p) => active[p] = 0

\* Nobody hangs: every flight ends by its budgets of attempts and polls alone,
\* and everyone who closes a provider returns from it, cancelled or not,
\* whatever the other flights, the server and the clocks do.
EveryoneReturns ==
    []<>(/\ \A f \in Flights : flight[f].pc \in {"new", "done"}
         /\ \A c \in Closers : closer[c] \in {"idle", "done", "raised", "cancelled"})

=============================================================================
