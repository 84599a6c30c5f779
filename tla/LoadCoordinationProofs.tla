----------------------- MODULE LoadCoordinationProofs -----------------------
(* Proofs about LoadCoordination: an active marker has an owner that will  *)
(* still end it, a completion comes with its result, and a client is       *)
(* closed without commands on it.  The invariant follows the token of each *)
(* flight through its commands, their replies and the late ones.           *)
EXTENDS LoadCoordination, FiniteSetTheorems, TLAPS

Points       == Commands \cup {"new", "start", "poll", "load", "clean", "done"}
Toks         == Tokens \cup {NoToken}
Compressions == {"identity"} \cup {Writer[p] : p \in Processes}
Failures     == {"TIMEOUT", "FAILURE", "CANCELLED"}
Written      == {"active", "completed"}
Kinds        == Written \cup {"none", "malformed"}

\* The sizes a process publishes, and the ones that a reader refuses.
Sizes        == UNION {1 .. Limit[p] : p \in Processes}
TooLarge(f)  == \E p \in Processes : Limit[p] > Limit[ProcessOf[f]]

ResultType == [token : Toks, compression : Compressions, size : Sizes \cup {0}, ttl : Nat]
MarkerType == [kind : Kinds, token : Toks, ttl : Nat]
ReplyType  == [status : {"none", "true", "false", "error", "snapshot"},
               kind : Kinds, token : Toks, data : ResultType]
FlightType == [pc : Points, reply : ReplyType, attempts : 0 .. MaxAttempts,
               polls : 0 .. MaxPolls - 1, overdue : BOOLEAN,
               leaseLeft : 0 .. LeaseTtl, failing : Failures \cup {"none"}]

\* The two keys: a marker that is there has a token and time to live, and a
\* completion and its result live equally long.
RedisOK ==
    /\ marker \in MarkerType
    /\ result \in ResultType
    /\ marker.kind \in Written => marker.token \in Tokens /\ marker.ttl >= 1
    /\ marker.kind = "active" => marker.ttl <= LeaseTtl
    /\ marker.kind = "completed" => result.token = marker.token /\ result.ttl = marker.ttl
    /\ marker.kind = "malformed" => Foreign

\* Whoever left a command behind is known for it.
LateOK ==
    /\ late \subseteq Commands \X Tokens
    /\ \A command \in late : command[2] \in orphaned
    /\ orphaned \subseteq Tokens

\* What a flight may rely on while it runs.
FlightOK(f) ==
    LET r == flight[f]
        token == <<f, r.attempts>>
    IN  /\ r \in FlightType
        /\ r.pc \notin {"new", "start", "done"} => r.attempts >= 1
        /\ r.pc \in {"clean", "cleanup"} => r.failing # "none"
        /\ r.pc \notin Commands => r.reply = NoReply
        /\ r.pc \in {"acquire", "publish", "cleanup"} /\ r.reply # NoReply =>
              r.reply.status \in {"true", "false", "error"}
        \* the token of an acquisition is new, and its reply tells its fate
        /\ r.pc = "acquire" /\ token \in orphaned => r.reply.status = "error"
        /\ r.pc = "acquire" /\ marker.kind \in Written /\ marker.token = token =>
              r.reply.status \in {"true", "error"}
        /\ r.pc \in {"acquire", "publish", "cleanup"} /\ r.reply.status = "error" =>
              token \in orphaned
        \* after a publication or a cleanup the lease is not ours any more
        /\ r.pc \in {"publish", "cleanup"} /\ r.reply.status \in {"true", "false"} /\ Owned(token) =>
              token \in orphaned
        \* the lease ends for its owner not before it ends in Redis
        /\ r.pc = "load" /\ Owned(token) => token \in orphaned \/ marker.ttl <= r.leaseLeft
        /\ marker.kind = "active" /\ marker.token \notin orphaned /\ marker.token[1] = f =>
              /\ marker.token = token
              /\ r.pc \in {"acquire", "load", "publish", "clean", "cleanup"}
        \* tokens that were used are of this attempt or of an earlier one
        /\ r.pc # "done" /\ marker.kind \in Written /\ marker.token[1] = f =>
              marker.token[2] <= r.attempts
        /\ r.pc # "done" => \A t \in orphaned : t[1] = f => t[2] <= r.attempts
        /\ r.pc = "snapshot" /\ r.reply.kind = "completed" =>
              r.reply.token \in Tokens /\ r.reply.data.token = r.reply.token
        /\ r.pc = "snapshot" /\ r.reply.kind = "malformed" => Foreign

Busy(p) == {f \in Flights : ProcessOf[f] = p /\ flight[f].pc \in Commands}

ProviderOK ==
    /\ provider \in [Processes -> {"open", "closing", "closed", "failed"}]
    /\ active \in [Processes -> Nat]
    /\ \A p \in Processes :
          /\ active[p] = Cardinality(Busy(p))
          /\ Closed(p) => active[p] = 0

\* Which of the reasons for INVALID_ARTIFACT a flight may meet.
Possible(f, how) ==
    /\ how # "MISSING"
    /\ how = "OVERSIZED" => TooLarge(f)
    /\ how = "MALFORMED" => Foreign

OutcomeOK ==
    /\ outcome \in [Flights -> Outcomes \cup {"none"}]
    /\ \A f \in Flights : Possible(f, outcome[f])

LInv ==
    /\ RedisOK
    /\ LateOK
    /\ DOMAIN flight = Flights /\ flight = [f \in Flights |-> flight[f]]
    /\ \A f \in Flights : FlightOK(f)
    /\ OutcomeOK
    /\ closes \in Processes
    /\ ProviderOK

-----------------------------------------------------------------------------
(* Constants and initial values                                            *)

\* What the options allow.
LEMMA Constants ==
    /\ LeaseTtl \in Nat /\ LeaseTtl >= 1
    /\ ResultTtl \in Nat /\ ResultTtl >= 1
    /\ MaxAttempts \in Nat /\ MaxAttempts >= 1
    /\ MaxPolls \in Nat /\ MaxPolls >= 1
    /\ NoToken \notin Tokens
    /\ IsFiniteSet(Flights)
    /\ \A f \in Flights : ProcessOf[f] \in Processes
  BY LoadAssumption DEF RedisLoadOptions, Tokens

\* The empty marker, result, reply and flight are typed.
LEMMA Empties ==
    /\ NoMarker \in MarkerType
    /\ NoResult \in ResultType
    /\ NoReply \in ReplyType
    /\ \A pc \in Points : Rest(pc) \in FlightType
  <1>1. NoResult \in ResultType BY DEF NoResult, ResultType, Toks, Compressions
  <1>2. NoReply \in ReplyType BY <1>1 DEF NoReply, ReplyType, Toks, Kinds, Written
  <1>3. NoMarker \in MarkerType BY DEF NoMarker, MarkerType, Toks, Kinds, Written
  <1>4. ASSUME NEW pc \in Points PROVE Rest(pc) \in FlightType
    BY <1>2, Constants DEF Rest, FlightType
  <1> QED BY <1>1, <1>2, <1>3, <1>4

\* A flight and one of its attempts make a token.
LEMMA TokenType ==
    ASSUME NEW f \in Flights, FlightOK(f), flight[f].pc \notin {"new", "start", "done"}
    PROVE  /\ Token(f) \in Tokens /\ Token(f) = <<f, flight[f].attempts>>
           /\ Token(f)[1] = f /\ Token(f)[2] = flight[f].attempts
  BY Constants DEF FlightOK, FlightType, Token, Tokens

\* The invariant holds at the start.
LEMMA InitLInv == Init => LInv
  <1> SUFFICES ASSUME Init PROVE LInv OBVIOUS
  <1>0. /\ marker \in MarkerType /\ marker.kind \notin Written
        /\ marker.kind = "malformed" => Foreign
    <2>1. CASE marker = NoMarker BY <2>1, Empties DEF NoMarker, Written
    <2>2. CASE Foreign /\ marker = Malformed
      BY <2>2, Empties DEF NoMarker, Malformed, MarkerType, Kinds, Written
    <2> QED BY <2>1, <2>2 DEF Init
  <1>1. RedisOK /\ LateOK
    BY <1>0, Empties DEF Init, RedisOK, LateOK, Written
  <1>2. ASSUME NEW f \in Flights PROVE FlightOK(f)
    <2>1. flight[f] = Rest("new") BY DEF Init
    <2>2. flight[f] \in FlightType BY <2>1, Empties DEF Points
    <2>3. flight[f].pc = "new" /\ flight[f].reply = NoReply BY <2>1 DEF Rest
    <2> QED BY <1>0, <2>2, <2>3 DEF FlightOK, Init, Written
  <1>3. OutcomeOK BY DEF Init, OutcomeOK, Possible
  <1>4. ASSUME NEW p \in Processes PROVE Busy(p) = {}
    BY DEF Init, Busy, Rest, Commands
  <1>5. ProviderOK BY <1>4, FS_EmptySet DEF Init, ProviderOK, Closed
  <1> QED BY <1>1, <1>2, <1>3, <1>5 DEF LInv, Init

-----------------------------------------------------------------------------
(* One flight moves                                                        *)

\* Only f changes its place.
Only(f) ==
    /\ DOMAIN flight' = Flights /\ flight' = [g \in Flights |-> flight'[g]]
    /\ \A g \in Flights : g # f => flight'[g] = flight[g]

\* The other flights do not notice a token of f.
LEMMA Bystanders ==
    ASSUME LInv, NEW f \in Flights, Only(f), UNCHANGED <<marker, result>>,
           orphaned \subseteq orphaned', LateOK', FlightOK(f)',
           \A t \in orphaned' : t \in orphaned \/ t[1] = f
    PROVE  /\ RedisOK' /\ \A g \in Flights : FlightOK(g)'
           /\ DOMAIN flight' = Flights /\ flight' = [g \in Flights |-> flight'[g]]
  <1>1. RedisOK' BY DEF LInv, RedisOK
  <1>2. ASSUME NEW g \in Flights, g # f PROVE FlightOK(g)'
    <2> DEFINE t == <<g, flight[g].attempts>>
    <2>1. flight'[g] = flight[g] BY <1>2 DEF Only
    <2>2. t \in orphaned' <=> t \in orphaned BY <1>2
    <2>3. marker.token[1] = g => (marker.token \in orphaned' <=> marker.token \in orphaned)
      BY <1>2
    <2>4. FlightOK(g) BY DEF LInv
    <2> QED BY <2>1, <2>2, <2>3, <2>4, <1>2 DEF FlightOK, Owned
  <1> QED BY <1>1, <1>2 DEF Only

\* How a step of f counts at its provider.
LEMMA BusyFrame ==
    ASSUME LInv, NEW f \in Flights, Only(f)
    PROVE  /\ \A p \in Processes : p # ProcessOf[f] => Busy(p)' = Busy(p)
           /\ \A p \in Processes : IsFiniteSet(Busy(p)) /\ Cardinality(Busy(p)) \in Nat
           /\ (flight'[f].pc \in Commands <=> flight[f].pc \in Commands) =>
                 Busy(ProcessOf[f])' = Busy(ProcessOf[f])
           /\ flight[f].pc \notin Commands /\ flight'[f].pc \in Commands =>
                 Cardinality(Busy(ProcessOf[f])') = Cardinality(Busy(ProcessOf[f])) + 1
           /\ flight[f].pc \in Commands /\ flight'[f].pc \notin Commands =>
                 Cardinality(Busy(ProcessOf[f])') = Cardinality(Busy(ProcessOf[f])) - 1
  <1> DEFINE q == ProcessOf[f]
  <1>1. \A g \in Flights : g # f => flight'[g].pc = flight[g].pc BY DEF Only
  <1>2. \A p \in Processes : p # q => Busy(p)' = Busy(p) BY <1>1 DEF Busy
  <1>3. ASSUME NEW p \in Processes
        PROVE  IsFiniteSet(Busy(p)) /\ Cardinality(Busy(p)) \in Nat
    BY Constants, FS_Subset, FS_CardinalityType DEF Busy
  <1>4. q \in Processes BY Constants
  <1>5. ASSUME flight'[f].pc \in Commands <=> flight[f].pc \in Commands
        PROVE  Busy(q)' = Busy(q)
    BY <1>1, <1>5 DEF Busy
  <1>6. ASSUME flight[f].pc \notin Commands, flight'[f].pc \in Commands
        PROVE  Cardinality(Busy(q)') = Cardinality(Busy(q)) + 1
    <2>1. f \notin Busy(q) /\ Busy(q)' = Busy(q) \cup {f} BY <1>1, <1>6 DEF Busy
    <2> QED BY <2>1, <1>3, <1>4, FS_AddElement
  <1>7. ASSUME flight[f].pc \in Commands, flight'[f].pc \notin Commands
        PROVE  Cardinality(Busy(q)') = Cardinality(Busy(q)) - 1
    <2>1. f \in Busy(q) /\ Busy(q)' = Busy(q) \ {f} BY <1>1, <1>7 DEF Busy
    <2> QED BY <2>1, <1>3, <1>4, FS_RemoveElement
  <1> QED BY <1>2, <1>3, <1>4, <1>5, <1>6, <1>7

\* A step that neither begins nor ends a command.
LEMMA CountKept ==
    ASSUME LInv, NEW f \in Flights, Only(f), UNCHANGED <<provider, active>>,
           flight'[f].pc \in Commands <=> flight[f].pc \in Commands
    PROVE  ProviderOK'
  <1>1. \A p \in Processes : Busy(p)' = Busy(p) BY BusyFrame, Constants
  <1> QED BY <1>1 DEF LInv, ProviderOK, Closed

\* A command is admitted.
LEMMA CountAdmitted ==
    ASSUME LInv, NEW f \in Flights, Only(f), UNCHANGED provider, Open(f),
           active' = [active EXCEPT ![ProcessOf[f]] = @ + 1],
           flight[f].pc \notin Commands, flight'[f].pc \in Commands
    PROVE  ProviderOK'
  <1> DEFINE q == ProcessOf[f]
  <1>1. q \in Processes /\ ~Closed(q) BY Constants DEF Open, Closed
  <1>2. Cardinality(Busy(q)') = Cardinality(Busy(q)) + 1 BY BusyFrame
  <1>3. \A p \in Processes : p # q => Busy(p)' = Busy(p) BY BusyFrame
  <1>4. active \in [Processes -> Nat] BY DEF LInv, ProviderOK
  <1>5. active' \in [Processes -> Nat] BY <1>1, <1>4
  <1> QED BY <1>1, <1>2, <1>3, <1>4, <1>5 DEF LInv, ProviderOK, Closed

\* A command is released.
LEMMA CountReleased ==
    ASSUME LInv, NEW f \in Flights, Only(f), UNCHANGED provider, Release(f),
           flight[f].pc \in Commands, flight'[f].pc \notin Commands
    PROVE  ProviderOK'
  <1> DEFINE q == ProcessOf[f]
  <1>1. q \in Processes BY Constants
  <1>2. Cardinality(Busy(q)') = Cardinality(Busy(q)) - 1 BY BusyFrame
  <1>3. \A p \in Processes : p # q => Busy(p)' = Busy(p) BY BusyFrame
  <1>4. active \in [Processes -> Nat] BY DEF LInv, ProviderOK
  <1>5. f \in Busy(q) BY DEF Busy
  <1>6. IsFiniteSet(Busy(q)) /\ Cardinality(Busy(q)) \in Nat BY <1>1, BusyFrame
  <1>7. Cardinality(Busy(q)) # 0 BY <1>5, <1>6, FS_EmptySet
  <1>8. active[q] = Cardinality(Busy(q)) BY <1>1 DEF LInv, ProviderOK
  <1>9. active' \in [Processes -> Nat] BY <1>1, <1>4, <1>6, <1>7, <1>8 DEF Release
  <1> QED BY <1>1, <1>2, <1>3, <1>4, <1>6, <1>7, <1>8, <1>9
          DEF LInv, ProviderOK, Closed, Release

\* What the four forms of an update make of the flight.
LEMMA Goes ==
    ASSUME LInv, NEW f \in Flights, NEW pc \in Points, Goto(f, pc)
    PROVE  /\ Only(f) /\ flight'[f] \in FlightType
           /\ flight'[f].pc = pc /\ flight'[f].reply = NoReply
           /\ flight'[f].attempts = flight[f].attempts
           /\ flight'[f].leaseLeft = flight[f].leaseLeft
           /\ flight'[f].failing = flight[f].failing
  <1>1. flight[f] \in FlightType BY DEF LInv, FlightOK
  <1>2. flight'[f] = [flight[f] EXCEPT !.pc = pc, !.reply = NoReply] BY DEF LInv, Goto
  <1>3. Only(f) BY DEF LInv, Goto, Only
  <1> QED BY <1>1, <1>2, <1>3, Empties DEF FlightType

\* A flight that fails goes on to its cleanup.
LEMMA Fails ==
    ASSUME LInv, NEW f \in Flights, NEW how \in Failures, Fail(f, how)
    PROVE  /\ Only(f) /\ flight'[f] \in FlightType
           /\ flight'[f].pc = "clean" /\ flight'[f].reply = NoReply
           /\ flight'[f].attempts = flight[f].attempts
           /\ flight'[f].failing # "none"
  <1>1. flight[f] \in FlightType BY DEF LInv, FlightOK
  <1>2. flight'[f] = [flight[f] EXCEPT !.pc = "clean", !.reply = NoReply, !.failing = how]
    BY DEF LInv, Fail
  <1>3. Only(f) BY DEF LInv, Fail, Only
  <1> QED BY <1>1, <1>2, <1>3, Empties DEF FlightType, Points, Failures

\* A command that raises leaves its flight where it is.
LEMMA Raised ==
    ASSUME LInv, NEW f \in Flights, Raises(f)
    PROVE  /\ Only(f) /\ flight'[f] \in FlightType
           /\ flight'[f].pc = flight[f].pc /\ flight'[f].reply.status = "error"
           /\ flight'[f].reply.kind = "none"
           /\ flight'[f].attempts = flight[f].attempts
           /\ flight'[f].leaseLeft = flight[f].leaseLeft
           /\ flight'[f].failing = flight[f].failing
  <1> DEFINE r == [NoReply EXCEPT !.status = "error"]
  <1>1. flight[f] \in FlightType BY DEF LInv, FlightOK
  <1>2. flight'[f] = [flight[f] EXCEPT !.reply = r] BY DEF LInv, Raises
  <1>3. Only(f) BY DEF LInv, Raises, Only
  <1>4. r \in ReplyType /\ r.status = "error" /\ r.kind = "none"
    BY Empties DEF ReplyType, NoReply
  <1> HIDE DEF r
  <1> QED BY <1>1, <1>2, <1>3, <1>4 DEF FlightType

\* A flight that ends has neither a command nor a reply.
LEMMA Ended ==
    ASSUME LInv, NEW f \in Flights, NEW how \in Outcomes, Ends(f, how)
    PROVE  /\ Only(f) /\ flight'[f] \in FlightType
           /\ flight'[f].pc = "done" /\ flight'[f].reply = NoReply
           /\ Possible(f, how) => OutcomeOK'
  <1>1. flight'[f] = Rest("done") BY DEF LInv, Ends
  <1>2. Only(f) BY DEF LInv, Ends, Only
  <1>3. flight'[f] \in FlightType BY <1>1, Empties DEF Points
  <1>4. flight'[f].pc = "done" /\ flight'[f].reply = NoReply BY <1>1 DEF Rest
  <1>5. ASSUME Possible(f, how) PROVE OutcomeOK'
    <2>1. /\ outcome \in [Flights -> Outcomes \cup {"none"}]
          /\ outcome' = [outcome EXCEPT ![f] = how]
          /\ \A g \in Flights : Possible(g, outcome[g])
      BY DEF LInv, OutcomeOK, Ends
    <2>2. outcome' \in [Flights -> Outcomes \cup {"none"}] BY <2>1
    <2>3. \A g \in Flights : Possible(g, outcome'[g]) BY <1>5, <2>1
    <2>4. (\A g \in Flights : Possible(g, outcome[g]))' BY <2>3 DEF Possible, TooLarge
    <2> QED BY <2>2, <2>4 DEF OutcomeOK
  <1> QED BY <1>2, <1>3, <1>4, <1>5

\* The ends that say nothing about the artifacts of the others.
LEMMA Harmless ==
    ASSUME NEW f \in Flights, NEW how \in Outcomes \ InvalidArtifact
    PROVE  Possible(f, how)
  BY DEF Possible, InvalidArtifact

\* Does f hold the lease, as far as nothing has failed?
Holds(f) == marker.kind = "active" /\ marker.token \notin orphaned /\ marker.token[1] = f

\* A flight without the lease may end.
LEMMA DoneOK ==
    ASSUME LInv, NEW f \in Flights, NEW how \in Outcomes, Ends(f, how), ~Holds(f)',
           Possible(f, how)
    PROVE  Only(f) /\ FlightOK(f)' /\ OutcomeOK' /\ flight'[f].pc = "done"
  BY Ended DEF FlightOK, Holds

\* A step of one flight that leaves Redis and the late commands alone.
LEMMA Moved ==
    ASSUME LInv, NEW f \in Flights, Only(f), UNCHANGED <<marker, result, closes>>,
           orphaned \subseteq orphaned', LateOK', FlightOK(f)', OutcomeOK', ProviderOK',
           \A t \in orphaned' : t \in orphaned \/ t[1] = f
    PROVE  LInv'
  BY Bystanders DEF LInv

\* A step of one flight that changes nothing in Redis.
LEMMA MovedQuietly ==
    ASSUME LInv, NEW f \in Flights, Only(f), UNCHANGED <<marker, result, closes, late, orphaned>>,
           FlightOK(f)', OutcomeOK', ProviderOK'
    PROVE  LInv'
  <1>1. LateOK' BY DEF LInv, LateOK
  <1> QED BY <1>1, Moved

\* NoReply and the places that are no commands.
LEMMA Silent ==
    NoReply.status = "none" /\ NoReply.kind = "none"
  BY DEF NoReply

-----------------------------------------------------------------------------
(* The steps of a flight                                                   *)

\* A miss of the local cache starts a flight.
LEMMA GetOrLoadStep ==
    ASSUME LInv, NEW f \in Flights, GetOrLoad(f) PROVE LInv'
  <1>1. Goto(f, "start") /\ flight[f].pc = "new" BY DEF GetOrLoad, At
  <1>2. FlightOK(f) BY DEF LInv
  <1>3. /\ Only(f) /\ flight'[f] \in FlightType
        /\ flight'[f].pc = "start" /\ flight'[f].attempts = flight[f].attempts
        /\ flight'[f].reply = NoReply
    BY <1>1, Goes DEF Points
  <1>4. FlightOK(f)' BY <1>1, <1>2, <1>3 DEF FlightOK, GetOrLoad, redisVars
  <1>5. ProviderOK' BY <1>1, <1>3, CountKept DEF GetOrLoad, providerVars, Commands
  <1>6. OutcomeOK' BY DEF GetOrLoad, LInv, OutcomeOK
  <1> QED BY <1>3, <1>4, <1>5, <1>6, MovedQuietly DEF GetOrLoad, redisVars, providerVars

\* The flight draws a token nobody used before and asks for the marker.
LEMMA AcquireStep ==
    ASSUME LInv, NEW f \in Flights, Acquire(f) PROVE LInv'
  <1> DEFINE spent == Overdue(f) \/ flight[f].attempts = MaxAttempts
  <1>0. UNCHANGED <<marker, result, closes, late, orphaned, provider>> BY DEF Acquire, redisVars
  <1>1. flight[f].pc = "start" /\ FlightOK(f) BY DEF LInv, Acquire, At
  <1>2. ~Holds(f) BY <1>1 DEF FlightOK, Holds
  <1>3. ~Holds(f)' BY <1>0, <1>2 DEF Holds
  <1>4. ASSUME NEW how \in {"TIMEOUT", "FAILURE"}, Ends(f, how), UNCHANGED active PROVE LInv'
    <2>1. Only(f) /\ FlightOK(f)' /\ OutcomeOK' /\ flight'[f].pc = "done"
      BY <1>3, <1>4, Harmless, DoneOK DEF Outcomes, InvalidArtifact
    <2>2. ProviderOK' BY <2>1, <1>0, <1>1, <1>4, CountKept DEF Commands
    <2> QED BY <2>1, <2>2, <1>0, MovedQuietly
  <1>5. ASSUME ~spent, Open(f), UNCHANGED outcome,
               flight' = [flight EXCEPT ![f].attempts = @ + 1, ![f].pc = "acquire",
                                        ![f].reply = NoReply],
               active' = [active EXCEPT ![ProcessOf[f]] = @ + 1]
        PROVE  LInv'
    <2>1. flight[f] \in FlightType BY <1>1 DEF FlightOK
    <2>2. flight'[f] = [flight[f] EXCEPT !.attempts = @ + 1, !.pc = "acquire", !.reply = NoReply]
      BY <1>5 DEF LInv
    <2>3. flight[f].attempts + 1 \in 0 .. MaxAttempts
      BY <1>5, <2>1, Constants DEF FlightType
    <2>4. Only(f) BY <1>5 DEF LInv, Only
    <2>5. /\ flight'[f].attempts = flight[f].attempts + 1 /\ flight'[f].pc = "acquire"
          /\ flight'[f].reply = NoReply
      BY <2>1, <2>2 DEF FlightType
    <2>6. flight'[f] \in FlightType
      BY <2>1, <2>2, <2>3, Empties DEF FlightType, Points, Commands
    <2>7. flight[f].attempts \in Nat BY <2>1, Constants DEF FlightType
    <2> DEFINE t == <<f, flight[f].attempts + 1>>
    <2>8. t \notin orphaned BY <1>1, <2>7 DEF FlightOK
    <2>9. marker.kind \in Written => marker.token # t BY <1>1, <2>7 DEF FlightOK
    <2>10. marker.kind \in Written /\ marker.token[1] = f => marker.token[2] <= flight[f].attempts + 1
      <3>1. marker.kind \in Written => marker.token \in Tokens BY DEF LInv, RedisOK
      <3> QED BY <3>1, <1>1, <2>7, Constants DEF FlightOK, Tokens
    <2>11. \A u \in orphaned : u[1] = f => u[2] <= flight[f].attempts + 1
      <3>1. orphaned \subseteq Tokens BY DEF LInv, LateOK
      <3> QED BY <3>1, <1>1, <2>7, Constants DEF FlightOK, Tokens
    <2>12. FlightOK(f)'
      BY <1>0, <1>2, <2>5, <2>6, <2>7, <2>8, <2>9, <2>10, <2>11, Silent
      DEF FlightOK, Holds, Owned
    <2>13. OutcomeOK' BY <1>5 DEF LInv, OutcomeOK
    <2>14. ProviderOK' BY <2>4, <2>5, <1>0, <1>1, <1>5, CountAdmitted DEF Commands
    <2> QED BY <2>4, <2>12, <2>13, <2>14, <1>0, MovedQuietly
  <1> QED BY <1>4, <1>5 DEF Acquire

\* A flight goes on with the token it has; it may have been orphaned meanwhile.
LEMMA GoneOn ==
    ASSUME LInv, NEW f \in Flights, flight[f].pc \notin {"new", "start", "done"},
           flight'[f] \in FlightType, flight'[f].reply = NoReply,
           flight'[f].attempts = flight[f].attempts,
           flight'[f].pc \in {"clean", "cleanup"} => flight'[f].failing # "none",
           UNCHANGED marker, orphaned \subseteq orphaned',
           \A t \in orphaned' : t \in orphaned \/ t = Token(f),
           \/ flight'[f].pc \in {"clean", "publish", "cleanup"}
           \/ flight'[f].pc \in {"poll", "start", "snapshot"} /\ ~Holds(f)
    PROVE  FlightOK(f)'
  <1>1. FlightOK(f) BY DEF LInv
  <1>2. flight[f].attempts \in Nat BY <1>1, Constants DEF FlightOK, FlightType
  <1>3. Token(f)[2] = flight[f].attempts BY DEF Token
  <1>4. \A t \in orphaned' : t[1] = f => t[2] <= flight[f].attempts
    BY <1>1, <1>2, <1>3 DEF FlightOK
  <1>5. marker.kind \in Written /\ marker.token[1] = f => marker.token[2] <= flight[f].attempts
    BY <1>1 DEF FlightOK
  <1>6. marker.kind = "active" /\ marker.token \notin orphaned' /\ marker.token[1] = f =>
           Holds(f) /\ marker.token = <<f, flight[f].attempts>>
    BY <1>1 DEF Holds, FlightOK
  <1>7. flight'[f].pc # "acquire" /\ flight'[f].pc # "load" /\ flight'[f].pc # "done" OBVIOUS
  <1>8. flight[f].attempts >= 1 BY <1>1 DEF FlightOK
  <1> QED BY <1>4, <1>5, <1>6, <1>7, <1>8, Silent DEF FlightOK, Owned

\* An outcome that stays.
LEMMA SameOutcome == LInv /\ UNCHANGED outcome => OutcomeOK'
  BY DEF LInv, OutcomeOK

\* The marker was granted, refused, or the command failed.
LEMMA AcquireReturnsStep ==
    ASSUME LInv, NEW f \in Flights, AcquireReturns(f) PROVE LInv'
  <1>0. UNCHANGED <<marker, result, closes, late, orphaned, provider>> /\ Release(f)
    BY DEF AcquireReturns, redisVars
  <1>1. flight[f].pc = "acquire" /\ FlightOK(f) BY DEF LInv, AcquireReturns, Replied, At
  <1>2. Status(f) \in {"error", "false"} => ~Holds(f) BY <1>1 DEF FlightOK, Holds, Status, Written
  <1>3. ASSUME NEW how \in {"TIMEOUT", "FAILURE"}, Ends(f, how), Status(f) \in {"error", "false"}
        PROVE  LInv'
    <2>1. ~Holds(f)' BY <1>0, <1>2, <1>3 DEF Holds
    <2>2. Only(f) /\ FlightOK(f)' /\ OutcomeOK' /\ flight'[f].pc = "done"
      BY <2>1, <1>3, Harmless, DoneOK DEF Outcomes, InvalidArtifact
    <2>3. ProviderOK' BY <2>2, <1>0, <1>1, CountReleased DEF Commands
    <2> QED BY <2>2, <2>3, <1>0, MovedQuietly
  <1>4. ASSUME Fail(f, "TIMEOUT") PROVE LInv'
    <2>1. /\ Only(f) /\ flight'[f] \in FlightType /\ flight'[f].pc = "clean"
          /\ flight'[f].reply = NoReply /\ flight'[f].attempts = flight[f].attempts
          /\ flight'[f].failing # "none"
      BY <1>4, Fails DEF Failures
    <2>2. FlightOK(f)' BY <2>1, <1>0, <1>1, GoneOn
    <2>3. ProviderOK' BY <2>1, <1>0, <1>1, CountReleased DEF Commands
    <2>4. OutcomeOK' BY <1>4, SameOutcome DEF Fail
    <2> QED BY <2>1, <2>2, <2>3, <2>4, <1>0, MovedQuietly
  <1>5. ASSUME flight' = [flight EXCEPT ![f].pc = "load", ![f].reply = NoReply,
                                        ![f].leaseLeft = OwnedFor],
               UNCHANGED outcome
        PROVE  LInv'
    <2>1. flight[f] \in FlightType BY <1>1 DEF FlightOK
    <2>2. flight'[f] = [flight[f] EXCEPT !.pc = "load", !.reply = NoReply, !.leaseLeft = OwnedFor]
      BY <1>5 DEF LInv
    <2>3. Only(f) BY <1>5 DEF LInv, Only
    <2>4. /\ flight'[f].pc = "load" /\ flight'[f].attempts = flight[f].attempts
          /\ flight'[f].reply = NoReply
          /\ flight'[f].leaseLeft = LeaseTtl
      BY <2>1, <2>2 DEF FlightType, OwnedFor
    <2>5. flight'[f] \in FlightType
      <3>1. OwnedFor \in 0 .. LeaseTtl /\ "load" \in Points BY Constants DEF OwnedFor, Points
      <3>2. NoReply \in ReplyType BY Empties
      <3> QED BY <2>1, <2>2, <3>1, <3>2 DEF FlightType
    <2>6. marker.kind = "active" => marker.ttl <= LeaseTtl BY DEF LInv, RedisOK
    <2>7. FlightOK(f)' BY <1>0, <1>1, <2>4, <2>5, <2>6 DEF FlightOK, Owned
    <2>8. ProviderOK' BY <2>3, <2>4, <1>0, <1>1, CountReleased DEF Commands
    <2> QED BY <2>3, <2>7, <2>8, <1>0, <1>5, SameOutcome, MovedQuietly
  <1>6. ASSUME Goto(f, "poll"), UNCHANGED outcome, Status(f) = "false" PROVE LInv'
    <2>1. /\ Only(f) /\ flight'[f] \in FlightType /\ flight'[f].pc = "poll"
          /\ flight'[f].reply = NoReply /\ flight'[f].attempts = flight[f].attempts
      BY <1>6, Goes DEF Points
    <2>2. FlightOK(f)' BY <2>1, <1>0, <1>1, <1>2, <1>6, GoneOn
    <2>3. ProviderOK' BY <2>1, <1>0, <1>1, CountReleased DEF Commands
    <2> QED BY <2>1, <2>2, <2>3, <1>0, <1>6, SameOutcome, MovedQuietly
  <1> QED BY <1>3, <1>4, <1>5, <1>6 DEF AcquireReturns

\* A waiter asks for the marker and the result.
LEMMA PollStep ==
    ASSUME LInv, NEW f \in Flights, Poll(f) PROVE LInv'
  <1>0. UNCHANGED <<marker, result, closes, late, orphaned, provider>> BY DEF Poll, redisVars
  <1>1. flight[f].pc = "poll" /\ FlightOK(f) BY DEF LInv, Poll, At
  <1>2. ~Holds(f) /\ ~Holds(f)' BY <1>0, <1>1 DEF FlightOK, Holds
  <1>3. ASSUME NEW how \in {"TIMEOUT", "FAILURE"}, Ends(f, how), UNCHANGED active PROVE LInv'
    <2>1. Only(f) /\ FlightOK(f)' /\ OutcomeOK' /\ flight'[f].pc = "done"
      BY <1>2, <1>3, Harmless, DoneOK DEF Outcomes, InvalidArtifact
    <2>2. ProviderOK' BY <2>1, <1>0, <1>1, <1>3, CountKept DEF Commands
    <2> QED BY <2>1, <2>2, <1>0, MovedQuietly
  <1>4. ASSUME Admit(f, "snapshot"), UNCHANGED outcome PROVE LInv'
    <2>1. /\ Only(f) /\ flight'[f] \in FlightType /\ flight'[f].pc = "snapshot"
          /\ flight'[f].reply = NoReply /\ flight'[f].attempts = flight[f].attempts
      BY <1>4, Goes DEF Points, Commands, Admit
    <2>2. FlightOK(f)' BY <2>1, <1>0, <1>1, <1>2, GoneOn
    <2>3. ProviderOK' BY <2>1, <1>0, <1>1, <1>4, CountAdmitted DEF Commands, Admit
    <2> QED BY <2>1, <2>2, <2>3, <1>0, <1>4, SameOutcome, MovedQuietly
  <1> QED BY <1>3, <1>4 DEF Poll

\* A waiter takes a result, polls again or tries to become the owner.
LEMMA SnapshotReturnsStep ==
    ASSUME LInv, NEW f \in Flights, SnapshotReturns(f) PROVE LInv'
  <1> DEFINE r == flight[f].reply
  <1>0. UNCHANGED <<marker, result, closes, late, orphaned, provider>> /\ Release(f)
    BY DEF SnapshotReturns, redisVars
  <1>1. flight[f].pc = "snapshot" /\ FlightOK(f) BY DEF LInv, SnapshotReturns, Replied, At
  <1>2. ~Holds(f) /\ ~Holds(f)' BY <1>0, <1>1 DEF FlightOK, Holds
  <1>3. r.kind = "completed" => r.data # NoResult
    BY <1>1, Constants DEF FlightOK, NoResult
  <1>4. ASSUME NEW how \in Outcomes, Possible(f, how), Ends(f, how) PROVE LInv'
    <2>1. Only(f) /\ FlightOK(f)' /\ OutcomeOK' /\ flight'[f].pc = "done"
      BY <1>2, <1>4, DoneOK
    <2>2. ProviderOK' BY <2>1, <1>0, <1>1, CountReleased DEF Commands
    <2> QED BY <2>1, <2>2, <1>0, MovedQuietly
  <1>5. ASSUME Goto(f, "start"), UNCHANGED outcome PROVE LInv'
    <2>1. /\ Only(f) /\ flight'[f] \in FlightType /\ flight'[f].pc = "start"
          /\ flight'[f].reply = NoReply /\ flight'[f].attempts = flight[f].attempts
      BY <1>5, Goes DEF Points
    <2>2. FlightOK(f)' BY <2>1, <1>0, <1>1, <1>2, GoneOn
    <2>3. ProviderOK' BY <2>1, <1>0, <1>1, CountReleased DEF Commands
    <2> QED BY <2>1, <2>2, <2>3, <1>0, <1>5, SameOutcome, MovedQuietly
  <1>6. ASSUME PollAgain(f) PROVE LInv'
    <2>1. CASE Ends(f, "TIMEOUT") BY <2>1, <1>4, Harmless DEF Outcomes, InvalidArtifact
    <2>2. ASSUME flight[f].polls + 1 < MaxPolls, UNCHANGED outcome,
                 flight' = [flight EXCEPT ![f].polls = @ + 1, ![f].pc = "poll",
                                          ![f].reply = NoReply]
          PROVE  LInv'
      <3>1. flight[f] \in FlightType BY <1>1 DEF FlightOK
      <3>2. flight'[f] = [flight[f] EXCEPT !.polls = @ + 1, !.pc = "poll", !.reply = NoReply]
        BY <2>2 DEF LInv
      <3>3. flight[f].polls + 1 \in 0 .. MaxPolls - 1
        BY <2>2, <3>1, Constants DEF FlightType
      <3>4. Only(f) BY <2>2 DEF LInv, Only
      <3>5. /\ flight'[f].pc = "poll" /\ flight'[f].attempts = flight[f].attempts
            /\ flight'[f].reply = NoReply
        BY <3>1, <3>2 DEF FlightType
      <3>6. flight'[f] \in FlightType BY <3>1, <3>2, <3>3, Empties DEF FlightType, Points
      <3>7. FlightOK(f)' BY <3>5, <3>6, <1>0, <1>1, <1>2, GoneOn
      <3>8. ProviderOK' BY <3>4, <3>5, <1>0, <1>1, CountReleased DEF Commands
      <3> QED BY <3>4, <3>7, <3>8, <1>0, <2>2, SameOutcome, MovedQuietly
    <2> QED BY <1>6, <2>1, <2>2 DEF PollAgain
  <1>7. ASSUME NEW how \in {"TIMEOUT", "FAILURE", "RESULT_REUSED"}, Ends(f, how) PROVE LInv'
    BY <1>4, <1>7, Harmless DEF Outcomes, InvalidArtifact
  <1>8. ASSUME r.data.size > Limit[ProcessOf[f]], Ends(f, "OVERSIZED") PROVE LInv'
    <2>1. r.data.size \in Sizes \cup {0} BY <1>1 DEF FlightOK, FlightType, ReplyType, ResultType
    <2>2. ProcessOf[f] \in Processes BY Constants
    <2>3. Limit[ProcessOf[f]] \in Nat /\ \A p \in Processes : Limit[p] \in Nat
      BY <2>2, LoadAssumption
    <2>4. PICK p \in Processes : r.data.size \in 1 .. Limit[p]
      BY <1>8, <2>1, <2>3 DEF Sizes
    <2>5. Limit[p] > Limit[ProcessOf[f]] BY <1>8, <2>3, <2>4
    <2>6. Possible(f, "OVERSIZED") BY <2>5 DEF Possible, TooLarge
    <2> QED BY <1>4, <1>8, <2>6 DEF Outcomes, InvalidArtifact
  <1>9. ASSUME r.kind # "none", ~ParseMarker(r.kind), Ends(f, "MALFORMED") PROVE LInv'
    <2>1. r.kind = "malformed"
      BY <1>1, <1>9 DEF FlightOK, FlightType, ReplyType, Kinds, Written, ParseMarker
    <2>2. Possible(f, "MALFORMED") BY <1>1, <2>1 DEF FlightOK, Possible
    <2> QED BY <1>4, <1>9, <2>2 DEF Outcomes, InvalidArtifact
  <1> QED BY <1>3, <1>5, <1>6, <1>7, <1>8, <1>9 DEF SnapshotReturns

-----------------------------------------------------------------------------
(* The steps of an owner                                                   *)

\* An owner gives up, with or without a command on its way.
LEMMA FailStep ==
    ASSUME LInv, NEW f \in Flights, NEW how \in Failures, Fail(f, how),
           flight[f].pc \in {"load", "publish"}, UNCHANGED <<marker, result, closes, provider>>,
           LateOK', orphaned \subseteq orphaned',
           \A t \in orphaned' : t \in orphaned \/ t = Token(f),
           IF flight[f].pc = "load" THEN UNCHANGED active ELSE Release(f)
    PROVE  LInv'
  <1>1. /\ Only(f) /\ flight'[f] \in FlightType /\ flight'[f].pc = "clean"
        /\ flight'[f].reply = NoReply /\ flight'[f].attempts = flight[f].attempts
        /\ flight'[f].failing # "none"
    BY Fails
  <1>2. FlightOK(f)' BY <1>1, GoneOn
  <1>3. OutcomeOK' BY SameOutcome DEF Fail
  <1>4. CASE flight[f].pc = "load"
    <2>1. ProviderOK' BY <1>1, <1>4, CountKept DEF Commands
    <2>2. \A t \in orphaned' : t \in orphaned \/ t[1] = f BY DEF Token
    <2> QED BY <1>1, <1>2, <1>3, <2>1, <2>2, Moved
  <1>5. CASE flight[f].pc = "publish"
    <2>1. ProviderOK' BY <1>1, <1>5, CountReleased DEF Commands
    <2>2. \A t \in orphaned' : t \in orphaned \/ t[1] = f BY DEF Token
    <2> QED BY <1>1, <1>2, <1>3, <2>1, <2>2, Moved
  <1> QED BY <1>4, <1>5

\* The loader of an owner returns, and the owner publishes.
LEMMA LoadReturnsStep ==
    ASSUME LInv, NEW f \in Flights, LoadReturns(f) PROVE LInv'
  <1>0. UNCHANGED <<marker, result, closes, late, orphaned, provider>> /\ LateOK'
    BY DEF LoadReturns, redisVars, LInv, LateOK
  <1>1. flight[f].pc = "load" /\ FlightOK(f) BY DEF LInv, LoadReturns, At
  <1>2. ASSUME ~(flight[f].leaseLeft > 0), Ends(f, "LEASE_LOST"), UNCHANGED active PROVE LInv'
    <2>1. ~Holds(f)
      <3>1. flight[f].leaseLeft <= 0 BY <1>1, <1>2, Constants DEF FlightOK, FlightType
      <3>2. marker.kind = "active" => marker.ttl \in Nat /\ marker.ttl >= 1
        BY DEF LInv, RedisOK, MarkerType, Written
      <3>3. flight[f].leaseLeft \in Int BY <1>1, Constants DEF FlightOK, FlightType
      <3>4. Holds(f) => marker.ttl <= flight[f].leaseLeft BY <1>1 DEF Holds, FlightOK, Owned
      <3> QED BY <3>1, <3>2, <3>3, <3>4 DEF Holds
    <2>2. ~Holds(f)' BY <2>1, <1>0 DEF Holds
    <2>3. Only(f) /\ FlightOK(f)' /\ OutcomeOK' /\ flight'[f].pc = "done"
      BY <1>2, <2>2, Harmless, DoneOK DEF Outcomes, InvalidArtifact
    <2>4. ProviderOK' BY <2>3, <1>0, <1>1, <1>2, CountKept DEF Commands
    <2> QED BY <2>3, <2>4, <1>0, MovedQuietly
  <1>3. ASSUME Admit(f, "publish"), UNCHANGED outcome PROVE LInv'
    <2>1. /\ Only(f) /\ flight'[f] \in FlightType /\ flight'[f].pc = "publish"
          /\ flight'[f].reply = NoReply /\ flight'[f].attempts = flight[f].attempts
      BY <1>3, Goes DEF Points, Commands, Admit
    <2>2. FlightOK(f)' BY <2>1, <1>0, <1>1, GoneOn
    <2>3. ProviderOK' BY <2>1, <1>0, <1>1, <1>3, CountAdmitted DEF Commands, Admit
    <2> QED BY <2>1, <2>2, <2>3, <1>0, <1>3, SameOutcome, MovedQuietly
  <1>4. ASSUME Fail(f, "FAILURE"), UNCHANGED active PROVE LInv'
    BY <1>0, <1>1, <1>4, FailStep DEF Failures
  <1> QED BY <1>2, <1>3, <1>4 DEF LoadReturns

\* The loader of an owner raises.
LEMMA LoadRaisesStep ==
    ASSUME LInv, NEW f \in Flights, LoadRaises(f) PROVE LInv'
  <1>1. UNCHANGED <<marker, result, closes, provider, active, orphaned>> /\ LateOK'
    BY DEF LoadRaises, redisVars, providerVars, LInv, LateOK
  <1>2. flight[f].pc = "load" /\ Fail(f, "FAILURE") BY DEF LoadRaises, At
  <1> QED BY <1>1, <1>2, FailStep DEF Failures

\* The publication succeeded, came too late or failed.
LEMMA PublishReturnsStep ==
    ASSUME LInv, NEW f \in Flights, PublishReturns(f) PROVE LInv'
  <1>0. /\ UNCHANGED <<marker, result, closes, late, orphaned, provider>> /\ LateOK'
        /\ Release(f)
    BY DEF PublishReturns, redisVars, LInv, LateOK
  <1>1. flight[f].pc = "publish" /\ FlightOK(f) BY DEF LInv, PublishReturns, Replied, At
  <1>2. ASSUME NEW how \in {"LOADED", "LEASE_LOST"}, Ends(f, how), Status(f) \in {"true", "false"}
        PROVE  LInv'
    <2>1. ~Holds(f) BY <1>1, <1>2 DEF Holds, FlightOK, Owned, Status
    <2>2. ~Holds(f)' BY <2>1, <1>0 DEF Holds
    <2>3. Only(f) /\ FlightOK(f)' /\ OutcomeOK' /\ flight'[f].pc = "done"
      BY <1>2, <2>2, Harmless, DoneOK DEF Outcomes, InvalidArtifact
    <2>4. ProviderOK' BY <2>3, <1>0, <1>1, CountReleased DEF Commands
    <2> QED BY <2>3, <2>4, <1>0, MovedQuietly
  <1>3. ASSUME Fail(f, "FAILURE") PROVE LInv'
    BY <1>0, <1>1, <1>3, FailStep DEF Failures
  <1> QED BY <1>2, <1>3 DEF PublishReturns

\* An owner gives its marker back.
LEMMA CleanupStep ==
    ASSUME LInv, NEW f \in Flights, Cleanup(f) PROVE LInv'
  <1>0. UNCHANGED <<marker, result, closes, late, provider>> BY DEF Cleanup, redisVars
  <1>1. flight[f].pc = "clean" /\ FlightOK(f) BY DEF LInv, Cleanup, At
  <1>2. flight[f].failing \in Outcomes \ InvalidArtifact
    BY <1>1 DEF FlightOK, FlightType, Failures, Outcomes, InvalidArtifact
  <1>3. ASSUME Admit(f, "cleanup"), UNCHANGED <<outcome, orphaned>> PROVE LInv'
    <2>1. /\ Only(f) /\ flight'[f] \in FlightType /\ flight'[f].pc = "cleanup"
          /\ flight'[f].reply = NoReply /\ flight'[f].attempts = flight[f].attempts
          /\ flight'[f].failing = flight[f].failing
      BY <1>3, Goes DEF Points, Commands, Admit
    <2>2. FlightOK(f)'
      <3>1. flight'[f].failing # "none" BY <1>1, <2>1 DEF FlightOK
      <3> QED BY <2>1, <3>1, <1>0, <1>1, <1>3, GoneOn
    <2>3. ProviderOK' BY <2>1, <1>0, <1>1, <1>3, CountAdmitted DEF Commands, Admit
    <2> QED BY <2>1, <2>2, <2>3, <1>0, <1>3, SameOutcome, MovedQuietly
  <1>4. ASSUME orphaned' = orphaned \cup {Token(f)}, Ends(f, flight[f].failing), UNCHANGED active
        PROVE  LInv'
    <2>1. ~Holds(f)' BY <1>0, <1>1, <1>4 DEF Holds, FlightOK, Token
    <2>2. Only(f) /\ FlightOK(f)' /\ OutcomeOK' /\ flight'[f].pc = "done"
      BY <1>2, <1>4, <2>1, Harmless, DoneOK
    <2>3. ProviderOK' BY <2>2, <1>0, <1>1, <1>4, CountKept DEF Commands
    <2>4. Token(f) \in Tokens /\ Token(f)[1] = f BY <1>1, TokenType
    <2>5. LateOK' BY <1>0, <1>4, <2>4 DEF LInv, LateOK
    <2> QED BY <2>2, <2>3, <2>4, <2>5, <1>0, <1>4, Moved
  <1> QED BY <1>3, <1>4 DEF Cleanup

\* The cleanup ends, and with it the flight.
LEMMA CleanupReturnsStep ==
    ASSUME LInv, NEW f \in Flights, CleanupReturns(f) PROVE LInv'
  <1>0. UNCHANGED <<marker, result, closes, late, orphaned, provider>> /\ Release(f)
    BY DEF CleanupReturns, redisVars
  <1>1. /\ flight[f].pc = "cleanup" /\ FlightOK(f) /\ flight[f].reply # NoReply
        /\ Ends(f, flight[f].failing)
    BY DEF LInv, CleanupReturns, Replied, At
  <1>2. flight[f].failing \in Outcomes \ InvalidArtifact
    BY <1>1 DEF FlightOK, FlightType, Failures, Outcomes, InvalidArtifact
  <1>3. ~Holds(f)
    <2>1. flight[f].reply.status \in {"true", "false", "error"} BY <1>1 DEF FlightOK
    <2> QED BY <1>1, <2>1 DEF Holds, FlightOK, Owned
  <1>4. ~Holds(f)' BY <1>0, <1>3 DEF Holds
  <1>5. Only(f) /\ FlightOK(f)' /\ OutcomeOK' /\ flight'[f].pc = "done"
    BY <1>1, <1>2, <1>4, Harmless, DoneOK
  <1>6. ProviderOK' BY <1>5, <1>0, <1>1, CountReleased DEF Commands
  <1> QED BY <1>5, <1>6, <1>0, MovedQuietly

-----------------------------------------------------------------------------
(* Deadlines, failures and cancellation                                    *)

\* The deadline of a flight strikes.
LEMMA DeadlinePassesStep ==
    ASSUME LInv, NEW f \in Flights, DeadlinePasses(f) PROVE LInv'
  <1>0. UNCHANGED <<marker, result, closes, late, orphaned, provider, active, outcome>>
    BY DEF DeadlinePasses, redisVars, providerVars
  <1>1. FlightOK(f) /\ flight[f] \in FlightType BY DEF LInv, FlightOK
  <1>2. flight'[f] = [flight[f] EXCEPT !.overdue = TRUE] /\ Only(f)
    BY DEF LInv, DeadlinePasses, Only
  <1>3. /\ flight'[f].pc = flight[f].pc /\ flight'[f].reply = flight[f].reply
        /\ flight'[f].attempts = flight[f].attempts
        /\ flight'[f].leaseLeft = flight[f].leaseLeft
        /\ flight'[f].failing = flight[f].failing
    BY <1>1, <1>2 DEF FlightType
  <1>4. flight'[f] \in FlightType BY <1>1, <1>2 DEF FlightType
  <1>5. FlightOK(f)' BY <1>0, <1>1, <1>3, <1>4 DEF FlightOK, Owned
  <1>6. ProviderOK' BY <1>0, <1>2, <1>3, CountKept
  <1> QED BY <1>0, <1>2, <1>5, <1>6, SameOutcome, MovedQuietly

\* What an abandoned command leaves is known as orphaned.
LEMMA Left ==
    ASSUME LInv, NEW f \in Flights, flight[f].pc \in Commands, LeaveBehind(f)
    PROVE  /\ LateOK' /\ orphaned \subseteq orphaned'
           /\ \A t \in orphaned' : t \in orphaned \/ t = Token(f)
           /\ flight[f].pc # "snapshot" => Token(f) \in orphaned'
           /\ flight[f].pc = "snapshot" => orphaned' = orphaned
  <1>1. FlightOK(f) BY DEF LInv
  <1>2. Token(f) \in Tokens BY <1>1, TokenType DEF Commands
  <1>3. /\ orphaned \subseteq orphaned' /\ \A t \in orphaned' : t \in orphaned \/ t = Token(f)
        /\ flight[f].pc # "snapshot" => Token(f) \in orphaned'
        /\ flight[f].pc = "snapshot" => orphaned' = orphaned
    BY DEF LeaveBehind, At
  <1>4. CASE UNCHANGED late BY <1>2, <1>3, <1>4 DEF LInv, LateOK
  <1>5. ASSUME ~At(f, "snapshot"),
               late' = late \cup {<<flight[f].pc, Token(f)>>}
        PROVE  LateOK'
    <2>2. Token(f) \in orphaned' BY <1>3, <1>5 DEF At
    <2> DEFINE late2 == <<flight[f].pc, Token(f)>>
    <2>3. late2 \in Commands \X Tokens /\ late2[2] = Token(f) BY <1>2
    <2> HIDE DEF late2
    <2> QED BY <1>2, <1>3, <1>5, <2>2, <2>3 DEF LInv, LateOK, late2
  <1> QED BY <1>3, <1>4, <1>5 DEF LeaveBehind

\* A failed or invalid command is one whose token is orphaned.
LEMMA ErrorStep ==
    ASSUME LInv, NEW f \in Flights, flight[f].pc \in Commands, Raises(f),
           UNCHANGED <<marker, result, closes, provider, active, outcome>>,
           LateOK', orphaned \subseteq orphaned',
           \A t \in orphaned' : t \in orphaned \/ t = Token(f),
           flight[f].pc # "snapshot" => Token(f) \in orphaned'
    PROVE  LInv'
  <1>1. FlightOK(f) BY DEF LInv
  <1>2. /\ Only(f) /\ flight'[f] \in FlightType
        /\ flight'[f].pc = flight[f].pc /\ flight'[f].reply.status = "error"
        /\ flight'[f].reply.kind = "none"
        /\ flight'[f].attempts = flight[f].attempts
        /\ flight'[f].failing = flight[f].failing
    BY Raised
  <1>3. /\ Token(f) = <<f, flight[f].attempts>> /\ Token(f)[1] = f
        /\ Token(f)[2] = flight[f].attempts
    BY <1>1, TokenType DEF Commands
  <1>4. flight[f].attempts \in Nat BY <1>1, Constants DEF FlightOK, FlightType
  <1>5. \A t \in orphaned' : t[1] = f => t[2] <= flight[f].attempts
    BY <1>1, <1>3, <1>4 DEF FlightOK, Commands
  <1>6. flight[f].pc \in {"acquire", "snapshot", "publish", "cleanup"} BY DEF Commands
  <1>7. FlightOK(f)' BY <1>1, <1>2, <1>3, <1>5, <1>6 DEF FlightOK, Owned
  <1>8. ProviderOK' BY <1>2, CountKept
  <1> QED BY <1>2, <1>3, <1>7, <1>8, SameOutcome, Moved

\* A command fails: executed, never sent, or executed later.
LEMMA CommandFailsStep ==
    ASSUME LInv, NEW f \in Flights, CommandFails(f) PROVE LInv'
  <1>1. /\ flight[f].pc \in Commands /\ LeaveBehind(f) /\ Raises(f)
        /\ UNCHANGED <<marker, result, closes, provider, active, outcome>>
    BY DEF CommandFails, providerVars
  <1> QED BY <1>1, Left, ErrorStep

\* A command returns what it cannot return.
LEMMA InvalidResponseStep ==
    ASSUME LInv, NEW f \in Flights, InvalidResponse(f) PROVE LInv'
  <1>1. /\ flight[f].reply.status # "none" /\ Raises(f)
        /\ UNCHANGED <<marker, result, late, closes, provider, active, outcome>>
        /\ orphaned' = IF At(f, "snapshot") THEN orphaned ELSE orphaned \cup {Token(f)}
    BY DEF InvalidResponse, redisVars, providerVars
  <1>2. flight[f].pc \in Commands /\ FlightOK(f) BY <1>1, Silent DEF LInv, FlightOK
  <1>3. Token(f) \in Tokens BY <1>2, TokenType DEF Commands
  <1>4. LateOK' BY <1>1, <1>3 DEF LInv, LateOK
  <1> QED BY <1>1, <1>2, <1>4, ErrorStep DEF At

\* A flight is cancelled at a command or between two polls.
LEMMA CancelFlightStep ==
    ASSUME LInv, NEW f \in Flights, CancelFlight(f) PROVE LInv'
  <1>0. UNCHANGED <<marker, result, closes, provider>> /\ Ends(f, "CANCELLED")
    BY DEF CancelFlight
  <1>1. FlightOK(f) BY DEF LInv
  <1>2. ASSUME flight[f].pc \in {"acquire", "snapshot"}, Release(f), LeaveBehind(f) PROVE LInv'
    <2>1. /\ LateOK' /\ orphaned \subseteq orphaned'
          /\ \A t \in orphaned' : t \in orphaned \/ t = Token(f)
          /\ flight[f].pc # "snapshot" => Token(f) \in orphaned'
      BY <1>2, Left DEF Commands
    <2>2. ~Holds(f)' BY <1>0, <1>1, <1>2, <2>1 DEF Holds, FlightOK, Token
    <2>3. Only(f) /\ FlightOK(f)' /\ OutcomeOK' /\ flight'[f].pc = "done"
      BY <1>0, <2>2, Harmless, DoneOK DEF Outcomes, InvalidArtifact
    <2>4. ProviderOK' BY <2>3, <1>0, <1>2, CountReleased DEF Commands
    <2>5. \A t \in orphaned' : t \in orphaned \/ t[1] = f BY <2>1 DEF Token
    <2> QED BY <2>1, <2>3, <2>4, <2>5, <1>0, Moved
  <1>3. ASSUME flight[f].pc = "poll", UNCHANGED <<late, active, orphaned>> PROVE LInv'
    <2>1. ~Holds(f)' BY <1>0, <1>1, <1>3 DEF Holds, FlightOK
    <2>2. Only(f) /\ FlightOK(f)' /\ OutcomeOK' /\ flight'[f].pc = "done"
      BY <1>0, <2>1, Harmless, DoneOK DEF Outcomes, InvalidArtifact
    <2>3. ProviderOK' BY <2>2, <1>0, <1>3, CountKept DEF Commands
    <2> QED BY <2>2, <2>3, <1>0, <1>3, MovedQuietly
  <1> QED BY <1>2, <1>3 DEF CancelFlight, CancelCommand, At

\* An owner is cancelled while it loads or publishes.
LEMMA CancelOwnerStep ==
    ASSUME LInv, NEW f \in Flights, CancelOwner(f) PROVE LInv'
  <1>0. UNCHANGED <<marker, result, closes, provider>> /\ Fail(f, "CANCELLED")
    BY DEF CancelOwner
  <1>1. ASSUME flight[f].pc = "load", UNCHANGED <<late, active, orphaned>> PROVE LInv'
    <2>1. LateOK' BY <1>1 DEF LInv, LateOK
    <2> QED BY <1>0, <1>1, <2>1, FailStep DEF Failures
  <1>2. ASSUME flight[f].pc = "publish", Release(f), LeaveBehind(f) PROVE LInv'
    <2>1. /\ LateOK' /\ orphaned \subseteq orphaned'
          /\ \A t \in orphaned' : t \in orphaned \/ t = Token(f)
      BY <1>2, Left DEF Commands
    <2> QED BY <1>0, <1>2, <2>1, FailStep DEF Failures
  <1> QED BY <1>1, <1>2 DEF CancelOwner, CancelCommand, At

-----------------------------------------------------------------------------
(* The server executes a command                                           *)

\* What a command may make of the marker.
MarkerMoves(token) ==
    \/ UNCHANGED marker
    \/ /\ marker.kind = "none"
       /\ marker' = [kind |-> "active", token |-> token, ttl |-> LeaseTtl]
    \/ /\ Owned(token)
       /\ marker' = [kind |-> "completed", token |-> token, ttl |-> ResultTtl]
    \/ Owned(token) /\ marker' = NoMarker

\* What encode makes of a value.
EncodedType == [compression : Compressions, size : Sizes]

LEMMA EncodedOK == \A p \in Processes : Encoded(p) \subseteq EncodedType
  <1> SUFFICES ASSUME NEW p \in Processes, NEW n \in 1 .. Limit[p]
               PROVE  [compression |-> Writer[p], size |-> n] \in EncodedType
    BY DEF Encoded
  <1>1. Writer[p] \in Compressions BY DEF Compressions
  <1>2. n \in Sizes BY DEF Sizes
  <1> QED BY <1>1, <1>2 DEF EncodedType

\* What a command of a token does to marker and result.
LEMMA Executed ==
    ASSUME LInv, NEW command \in Commands, NEW token \in Tokens, NEW encoded \in EncodedType,
           Effect(command, token, encoded)
    PROVE  RedisOK' /\ MarkerMoves(token)
  <1>1. RedisOK BY DEF LInv
  <1>2. CASE command = "acquire"
    <2>1. SetIfAbsent(token) BY <1>2 DEF Effect
    <2>2. MarkerMoves(token) BY <2>1 DEF SetIfAbsent, MarkerMoves
    <2>3. CASE marker.kind = "none"
      <3>1. marker' = [kind |-> "active", token |-> token, ttl |-> LeaseTtl] /\ result' = result
        BY <2>1, <2>3 DEF SetIfAbsent
      <3>2. marker' \in MarkerType BY <3>1, Constants DEF MarkerType, Kinds, Written, Toks
      <3> QED BY <1>1, <2>2, <3>1, <3>2, Constants DEF RedisOK, Written
    <2>4. CASE marker.kind # "none" BY <1>1, <2>1, <2>2, <2>4 DEF SetIfAbsent, RedisOK
    <2> QED BY <2>3, <2>4
  <1>3. CASE command = "publish"
    <2>1. PublishIfValue(token, encoded) BY <1>3 DEF Effect
    <2>2. MarkerMoves(token) BY <2>1 DEF PublishIfValue, MarkerMoves
    <2>3. CASE Owned(token)
      <3>1. /\ marker' = [kind |-> "completed", token |-> token, ttl |-> ResultTtl]
            /\ result' = [token |-> token, compression |-> encoded.compression,
                          size |-> encoded.size, ttl |-> ResultTtl]
        BY <2>1, <2>3 DEF PublishIfValue
      <3>2. marker' \in MarkerType BY <3>1, Constants DEF MarkerType, Kinds, Written, Toks
      <3>3. result' \in ResultType BY <3>1, Constants DEF ResultType, Toks, EncodedType
      <3> QED BY <2>2, <3>1, <3>2, <3>3, Constants DEF RedisOK, Written
    <2>4. CASE ~Owned(token) BY <1>1, <2>1, <2>2, <2>4 DEF PublishIfValue, RedisOK
    <2> QED BY <2>3, <2>4
  <1>4. CASE command = "cleanup"
    <2>1. DeleteIfValue(token) BY <1>4 DEF Effect
    <2>2. MarkerMoves(token) BY <2>1 DEF DeleteIfValue, MarkerMoves
    <2>3. CASE Owned(token)
      <3>1. marker' = NoMarker /\ result' = result BY <2>1, <2>3 DEF DeleteIfValue
      <3>2. NoMarker.kind = "none" BY DEF NoMarker
      <3> QED BY <1>1, <2>2, <3>1, <3>2, Empties DEF RedisOK, Written
    <2>4. CASE ~Owned(token) BY <1>1, <2>1, <2>2, <2>4 DEF DeleteIfValue, RedisOK
    <2> QED BY <2>3, <2>4
  <1>5. CASE command = "snapshot"
    <2>1. UNCHANGED <<marker, result>> BY <1>5 DEF Effect
    <2> QED BY <1>1, <2>1 DEF RedisOK, MarkerMoves
  <1> QED BY <1>2, <1>3, <1>4, <1>5 DEF Commands

\* A flight whose own command it is not is not concerned.
LEMMA Unconcerned ==
    ASSUME LInv, NEW g \in Flights, NEW token \in Tokens, MarkerMoves(token),
           flight'[g] = flight[g], UNCHANGED orphaned, token \in orphaned \/ token[1] # g
    PROVE  FlightOK(g)'
  <1>1. FlightOK(g) BY DEF LInv
  <1>2. CASE UNCHANGED marker BY <1>1, <1>2 DEF FlightOK, Owned, Written
  <1>3. ASSUME marker.kind = "none",
               marker' = [kind |-> "active", token |-> token, ttl |-> LeaseTtl]
        PROVE  FlightOK(g)'
    <2>1. marker'.kind = "active" /\ marker'.token = token BY <1>3
    <2>2. <<g, flight[g].attempts>>[1] = g OBVIOUS
    <2>3. CASE token[1] # g BY <1>1, <2>1, <2>2, <2>3 DEF FlightOK, Owned, Written
    <2>4. CASE token \in orphaned BY <1>1, <2>1, <2>4 DEF FlightOK, Owned, Written
    <2> QED BY <2>3, <2>4
  <1>4. ASSUME Owned(token),
               marker' = [kind |-> "completed", token |-> token, ttl |-> ResultTtl]
        PROVE  FlightOK(g)'
    <2>1. marker'.kind = "completed" /\ marker'.token = marker.token BY <1>4 DEF Owned
    <2> QED BY <1>1, <1>4, <2>1 DEF FlightOK, Owned, Written
  <1>5. ASSUME Owned(token), marker' = NoMarker PROVE FlightOK(g)'
    <2>1. marker'.kind = "none" BY <1>5 DEF NoMarker
    <2> QED BY <1>1, <2>1 DEF FlightOK, Owned, Written
  <1> QED BY <1>2, <1>3, <1>4, <1>5 DEF MarkerMoves

\* A command whose caller is gone is executed.
LEMMA ServeLateStep ==
    ASSUME LInv, NEW command \in late, ServeLate(command) PROVE LInv'
  <1>0. PICK encoded \in Encoded(ProcessOf[command[2][1]]) : Effect(command[1], command[2], encoded)
    BY DEF ServeLate
  <1>1. /\ late' = late \ {command}
        /\ UNCHANGED <<flight, outcome, orphaned, provider, active, closes>>
    BY DEF ServeLate, flightVars, providerVars
  <1>2. /\ command[1] \in Commands /\ command[2] \in Tokens
        /\ command[2] \in orphaned /\ command[2][1] \in Flights
    BY DEF LInv, LateOK, Tokens
  <1>3. RedisOK' /\ MarkerMoves(command[2])
    <2>1. encoded \in EncodedType BY <1>0, <1>2, EncodedOK, Constants
    <2> QED BY <1>0, <1>2, <2>1, Executed
  <1>4. ASSUME NEW g \in Flights PROVE FlightOK(g)' BY <1>1, <1>2, <1>3, Unconcerned
  <1>5. LateOK' BY <1>1 DEF LInv, LateOK
  <1>6. ProviderOK' BY <1>1 DEF LInv, ProviderOK, Closed, Busy
  <1> QED BY <1>1, <1>3, <1>4, <1>5, <1>6, SameOutcome DEF LInv

\* What the server answers.
LEMMA AnswerType ==
    ASSUME LInv, NEW command \in Commands, NEW token \in Tokens
    PROVE  /\ Answer(command, token) \in ReplyType
           /\ command = "acquire" => Answer(command, token).status =
                                        IF marker.kind = "none" THEN "true" ELSE "false"
           /\ command \in {"publish", "cleanup"} =>
                 Answer(command, token).status \in {"true", "false"}
           /\ command = "snapshot" /\ Answer(command, token).kind = "completed" =>
                 /\ Answer(command, token).token \in Tokens
                 /\ Answer(command, token).data.token = Answer(command, token).token
           /\ command = "snapshot" /\ Answer(command, token).kind = "malformed" => Foreign
  <1>1. RedisOK BY DEF LInv
  <1>2. ASSUME NEW status \in {"true", "false"}
        PROVE  LET r == [NoReply EXCEPT !.status = status]
               IN  r \in ReplyType /\ r.status = status
    BY Empties DEF ReplyType, NoReply
  <1>3. CASE command = "acquire"
    <2> DEFINE status == IF marker.kind = "none" THEN "true" ELSE "false"
    <2>1. status \in {"true", "false"} OBVIOUS
    <2>2. Answer(command, token) = [NoReply EXCEPT !.status = status] BY <1>3 DEF Answer
    <2> HIDE DEF status
    <2>3. Answer(command, token) \in ReplyType /\ Answer(command, token).status = status
      BY <1>2, <2>1, <2>2
    <2> QED BY <1>3, <2>3 DEF status
  <1>4. CASE command \in {"publish", "cleanup"}
    <2> DEFINE status == IF Owned(token) THEN "true" ELSE "false"
    <2>1. status \in {"true", "false"} OBVIOUS
    <2>2. Answer(command, token) = [NoReply EXCEPT !.status = status] BY <1>4 DEF Answer
    <2> HIDE DEF status
    <2>3. Answer(command, token) \in ReplyType /\ Answer(command, token).status = status
      BY <1>2, <2>1, <2>2
    <2> QED BY <1>4, <2>1, <2>3
  <1>5. CASE command = "snapshot"
    <2> DEFINE data == IF marker.kind = "active" THEN NoResult ELSE result
    <2>1. data \in ResultType BY <1>1, Empties DEF RedisOK
    <2>2. /\ marker.kind = "completed" => marker.token \in Tokens /\ data.token = marker.token
          /\ marker.kind = "malformed" => Foreign
      BY <1>1 DEF RedisOK, Written
    <2>3. Answer(command, token) = [status |-> "snapshot", kind |-> marker.kind,
                                    token |-> marker.token, data |-> data]
      BY <1>5 DEF Answer, Snapshot
    <2>4. marker.kind \in Kinds /\ marker.token \in Toks BY <1>1 DEF RedisOK, MarkerType
    <2> HIDE DEF data
    <2>5. Answer(command, token) \in ReplyType BY <2>1, <2>3, <2>4 DEF ReplyType
    <2> QED BY <1>5, <2>2, <2>3, <2>5
  <1> QED BY <1>3, <1>4, <1>5 DEF Commands

\* The server executes a command and answers.
LEMMA ServeStep ==
    ASSUME LInv, NEW f \in Flights, Serve(f) PROVE LInv'
  <1> DEFINE command == flight[f].pc
             token == Token(f)
             answer == Answer(command, token)
  <1>0. PICK encoded \in Encoded(ProcessOf[f]) : Effect(command, token, encoded)
    BY DEF Serve
  <1>1. /\ flight' = [flight EXCEPT ![f].reply = answer]
        /\ command \in Commands /\ flight[f].reply = NoReply
        /\ UNCHANGED <<late, outcome, orphaned, provider, active, closes>>
    BY DEF Serve, Sent, providerVars
  <1>2. FlightOK(f) BY DEF LInv
  <1>3. /\ token \in Tokens /\ token = <<f, flight[f].attempts>> /\ token[1] = f
        /\ token[2] = flight[f].attempts
    BY <1>1, <1>2, TokenType DEF Commands
  <1>4. encoded \in EncodedType BY Constants, EncodedOK
  <1>5. RedisOK' /\ MarkerMoves(token) BY <1>0, <1>1, <1>3, <1>4, Executed
  <1>6. /\ answer \in ReplyType
        /\ command = "acquire" => answer.status = IF marker.kind = "none" THEN "true" ELSE "false"
        /\ command \in {"publish", "cleanup"} => answer.status \in {"true", "false"}
        /\ command = "snapshot" /\ answer.kind = "completed" =>
              answer.token \in Tokens /\ answer.data.token = answer.token
        /\ command = "snapshot" /\ answer.kind = "malformed" => Foreign
    BY <1>1, <1>3, AnswerType
  <1> HIDE DEF answer
  <1>7. flight[f] \in FlightType BY <1>2 DEF FlightOK
  <1>8. flight'[f] = [flight[f] EXCEPT !.reply = answer] /\ Only(f) BY <1>1 DEF LInv, Only
  <1>9. /\ flight'[f].pc = command /\ flight'[f].reply = answer
        /\ flight'[f].attempts = flight[f].attempts
        /\ flight'[f].leaseLeft = flight[f].leaseLeft
        /\ flight'[f].failing = flight[f].failing
    BY <1>7, <1>8 DEF FlightType
  <1>10. flight'[f] \in FlightType BY <1>6, <1>7, <1>8 DEF FlightType
  <1>11. flight[f].attempts \in Nat BY <1>7, Constants DEF FlightType
  <1>12. FlightOK(f)'
    <2>1. CASE command = "acquire"
      <3>1. SetIfAbsent(token) /\ flight[f].reply.status = "none" BY <1>0, <1>1, <2>1, Silent DEF Effect
      <3>2. token \notin orphaned BY <1>2, <1>3, <2>1, <3>1 DEF FlightOK
      <3>3. CASE marker.kind = "none"
        <4>1. marker'.kind = "active" /\ marker'.token = token BY <3>1, <3>3 DEF SetIfAbsent
        <4> QED BY <1>1, <1>2, <1>3, <1>6, <1>9, <1>10, <1>11, <2>1, <3>2, <3>3, <4>1
                DEF FlightOK, Written
      <3>4. CASE marker.kind # "none"
        <4>1. marker' = marker BY <3>1, <3>4 DEF SetIfAbsent
        <4>2. marker.kind \in Written => marker.token # token
          BY <1>2, <1>3, <2>1, <3>1, <3>4 DEF FlightOK
        <4> QED BY <1>1, <1>2, <1>3, <1>6, <1>9, <1>10, <2>1, <3>2, <3>4, <4>1, <4>2
                DEF FlightOK, Written
      <3> QED BY <3>3, <3>4
    <2>2. CASE command = "snapshot"
      <3>1. marker' = marker BY <1>0, <1>1, <2>2 DEF Effect
      <3> QED BY <1>1, <1>2, <1>3, <1>6, <1>9, <1>10, <2>2, <3>1 DEF FlightOK
    <2>3. CASE command \in {"publish", "cleanup"}
      <3>1. \/ marker' = marker /\ ~Owned(token)
            \/ /\ Owned(token) /\ marker'.kind \in {"none", "completed"}
               /\ marker'.kind = "completed" => marker'.token = token
        <4>1. CASE command = "publish"
          <5>1. PublishIfValue(token, encoded) BY <1>0, <1>1, <4>1 DEF Effect
          <5> QED BY <5>1 DEF PublishIfValue
        <4>2. CASE command = "cleanup"
          <5>1. DeleteIfValue(token) BY <1>0, <1>1, <4>2 DEF Effect
          <5> QED BY <5>1 DEF DeleteIfValue, NoMarker
        <4> QED BY <2>3, <4>1, <4>2
      <3>2. flight'[f].pc \notin {"acquire", "snapshot", "load", "done"} BY <1>9, <2>3
      <3>3. answer.status \in {"true", "false"} BY <1>6, <2>3
      <3>4. CASE marker' = marker /\ ~Owned(token)
        BY <1>1, <1>2, <1>3, <1>9, <1>10, <2>3, <3>2, <3>3, <3>4 DEF FlightOK, Owned, Written
      <3>5. CASE marker'.kind = "none"
        BY <1>1, <1>2, <1>3, <1>9, <1>10, <2>3, <3>2, <3>3, <3>5 DEF FlightOK, Owned, Written
      <3>6. CASE marker'.kind = "completed" /\ marker'.token = token
        BY <1>1, <1>2, <1>3, <1>9, <1>10, <1>11, <2>3, <3>2, <3>3, <3>6 DEF FlightOK, Owned, Written
      <3> QED BY <3>1, <3>4, <3>5, <3>6
    <2> QED BY <1>1, <2>1, <2>2, <2>3 DEF Commands
  <1>13. ASSUME NEW g \in Flights, g # f PROVE FlightOK(g)'
    <2>1. flight'[g] = flight[g] BY <1>8, <1>13 DEF Only
    <2> QED BY <1>1, <1>3, <1>5, <1>13, <2>1, Unconcerned
  <1>14. LateOK' BY <1>1 DEF LInv, LateOK
  <1>15. ProviderOK' BY <1>1, <1>8, <1>9, CountKept
  <1> QED BY <1>1, <1>5, <1>8, <1>12, <1>13, <1>14, <1>15, SameOutcome DEF LInv, Only

\* Time passes, and keys expire.
LEMMA TickStep == LInv /\ Tick => LInv'
  <1> SUFFICES ASSUME LInv, Tick PROVE LInv' OBVIOUS
  <1>0. UNCHANGED <<late, outcome, orphaned, provider, active, closes>> BY DEF Tick, providerVars
  <1>1. RedisOK BY DEF LInv
  <1>2. marker.ttl \in Nat /\ result.ttl \in Nat
    BY <1>1 DEF RedisOK, MarkerType, ResultType
  <1>3. \/ marker' = NoMarker /\ marker'.kind = "none"
        \/ marker' = marker /\ marker.kind \notin Written
        \/ /\ marker.ttl > 1 /\ marker' \in MarkerType /\ marker'.kind = marker.kind
           /\ marker'.token = marker.token /\ marker'.ttl = marker.ttl - 1
    <2>0. CASE marker = Malformed BY <2>0 DEF Tick, Malformed, NoMarker, Written
    <2>1. CASE marker # Malformed /\ marker.ttl <= 1 BY <2>1 DEF Tick, NoMarker
    <2>2. CASE marker # Malformed /\ ~(marker.ttl <= 1)
      <3>1. marker' = [marker EXCEPT !.ttl = @ - 1] BY <2>2 DEF Tick
      <3> QED BY <1>1, <1>2, <2>2, <3>1 DEF RedisOK, MarkerType
    <2> QED BY <2>0, <2>1, <2>2
  <1>4. \/ result' = NoResult /\ result.ttl <= 1
        \/ /\ result.ttl > 1 /\ result' \in ResultType
           /\ result'.token = result.token /\ result'.ttl = result.ttl - 1
    <2>1. CASE result.ttl <= 1 BY <2>1 DEF Tick
    <2>2. CASE ~(result.ttl <= 1)
      <3>1. result' = [result EXCEPT !.ttl = @ - 1] BY <2>2 DEF Tick
      <3> QED BY <1>1, <1>2, <2>2, <3>1 DEF RedisOK, ResultType
    <2> QED BY <2>1, <2>2
  <1>5. RedisOK'
    <2>1. result' \in ResultType BY <1>4, Empties
    <2>2. marker' \in MarkerType BY <1>1, <1>3, Empties DEF RedisOK
    <2> QED BY <1>1, <1>2, <1>3, <1>4, <2>1, <2>2, Constants DEF RedisOK, Written
  <1>6. ASSUME NEW g \in Flights
        PROVE  /\ flight'[g] \in FlightType /\ FlightOK(g)' /\ flight'[g].pc = flight[g].pc
    <2> DEFINE left == IF flight[g].leaseLeft = 0 THEN 0 ELSE flight[g].leaseLeft - 1
    <2>1. FlightOK(g) /\ flight[g] \in FlightType BY DEF LInv, FlightOK
    <2>2. flight'[g] = [flight[g] EXCEPT !.leaseLeft = left] BY DEF Tick
    <2>3. flight[g].leaseLeft \in 0 .. LeaseTtl BY <2>1 DEF FlightType
    <2>4. left \in 0 .. LeaseTtl /\ flight[g].leaseLeft - 1 <= left BY <2>3, Constants
    <2> HIDE DEF left
    <2>5. /\ flight'[g].pc = flight[g].pc /\ flight'[g].reply = flight[g].reply
          /\ flight'[g].attempts = flight[g].attempts
          /\ flight'[g].leaseLeft = left
          /\ flight'[g].failing = flight[g].failing
      BY <2>1, <2>2 DEF FlightType
    <2>6. flight'[g] \in FlightType BY <2>1, <2>2, <2>4 DEF FlightType
    <2>7. marker'.kind = "active" /\ marker.ttl <= flight[g].leaseLeft => marker'.ttl <= left
      BY <1>2, <1>3, <2>3, <2>4, Constants DEF Written
    <2>8. CASE marker'.kind = "none" BY <1>0, <2>1, <2>5, <2>6, <2>8 DEF FlightOK, Owned, Written
    <2>9. CASE marker'.kind = marker.kind /\ marker'.token = marker.token
      BY <1>0, <2>1, <2>5, <2>6, <2>7, <2>9 DEF FlightOK, Owned
    <2> QED BY <1>3, <2>5, <2>6, <2>8, <2>9
  <1>7. DOMAIN flight' = Flights /\ flight' = [g \in Flights |-> flight'[g]]
    BY Zenon DEF Tick
  <1>8. LateOK' BY <1>0 DEF LInv, LateOK
  <1>9. ProviderOK'
    <2>1. \A p \in Processes : Busy(p)' = Busy(p) BY <1>6 DEF Busy
    <2> QED BY <1>0, <2>1 DEF LInv, ProviderOK, Closed
  <1> QED BY <1>0, <1>5, <1>6, <1>7, <1>8, <1>9, SameOutcome DEF LInv

-----------------------------------------------------------------------------
(* The closers, and all steps                                              *)

\* A step of a closer that leaves the counts and the flights alone.
LEMMA ProviderStep ==
    ASSUME LInv, UNCHANGED <<redisVars, flightVars, active, closes>>,
           provider' \in [Processes -> {"open", "closing", "closed", "failed"}],
           \A p \in Processes : Closed(p)' => active[p] = 0
    PROVE  LInv'
  <1>1. RedisOK' /\ LateOK' BY DEF LInv, RedisOK, LateOK, redisVars, flightVars
  <1>2. ASSUME NEW f \in Flights PROVE FlightOK(f)'
    BY DEF LInv, FlightOK, Owned, redisVars, flightVars
  <1>3. ProviderOK' BY DEF LInv, ProviderOK, Busy, flightVars
  <1> QED BY <1>1, <1>2, <1>3, SameOutcome DEF LInv, flightVars

\* A closer begins to close, waits or is cancelled.
LEMMA CloserStep ==
    ASSUME LInv, NEW c \in Closers, Close(c) \/ AClose(c) PROVE LInv'
  <1>0. /\ provider \in [Processes -> {"open", "closing", "closed", "failed"}]
        /\ closes \in Processes
        /\ \A p \in Processes : Closed(p) => active[p] = 0
    BY DEF LInv, ProviderOK
  <1>1. CASE BeginClose(c)
    <2>1. UNCHANGED <<redisVars, flightVars, active, closes>> BY <1>1 DEF BeginClose
    <2>2. provider' = [provider EXCEPT ![closes] = IF @ = "open" THEN "closing" ELSE @]
      BY <1>1 DEF BeginClose
    <2>3. provider' \in [Processes -> {"open", "closing", "closed", "failed"}] BY <1>0, <2>2
    <2>4. \A p \in Processes : Closed(p)' => Closed(p) BY <1>0, <2>2 DEF Closed
    <2> QED BY <1>0, <2>1, <2>3, <2>4, ProviderStep
  <1>2. CASE CloseReturns(c) \/ CancelClose(c) \/ CancelledCloseReturns(c)
    <2>1. UNCHANGED <<redisVars, flightVars, active, closes>> /\ UNCHANGED provider
      BY <1>2 DEF CloseReturns, CancelClose, CancelledCloseReturns
    <2>2. \A p \in Processes : Closed(p)' => Closed(p) BY <2>1 DEF Closed
    <2> QED BY <1>0, <2>1, <2>2, ProviderStep
  <1> QED BY <1>1, <1>2 DEF Close, AClose

\* The client is closed when the last command has ended.
LEMMA DrainedStep ==
    ASSUME LInv, NEW p \in Processes, Drained(p) PROVE LInv'
  <1>0. /\ provider \in [Processes -> {"open", "closing", "closed", "failed"}]
        /\ \A q \in Processes : Closed(q) => active[q] = 0
    BY DEF LInv, ProviderOK
  <1>1. UNCHANGED <<redisVars, flightVars, active, closes>> /\ active[p] = 0 BY DEF Drained
  <1>2. PICK how \in {"closed", "failed"} : provider' = [provider EXCEPT ![p] = how]
    BY DEF Drained
  <1>3. provider' \in [Processes -> {"open", "closing", "closed", "failed"}] BY <1>0, <1>2
  <1>4. \A q \in Processes : Closed(q)' => Closed(q) \/ q = p BY <1>0, <1>2 DEF Closed
  <1> QED BY <1>0, <1>1, <1>3, <1>4, ProviderStep

\* Every step keeps the invariant.
LEMMA LInvStep == LInv /\ [Next]_vars => LInv'
  <1> SUFFICES ASSUME LInv, [Next]_vars PROVE LInv' OBVIOUS
  <1>1. CASE UNCHANGED vars
    <2>1. UNCHANGED <<redisVars, flightVars, active, closes>> /\ UNCHANGED provider
      BY <1>1 DEF vars, providerVars
    <2>2. \A p \in Processes : Closed(p)' => Closed(p) BY <2>1 DEF Closed
    <2> QED BY <2>1, <2>2, ProviderStep DEF LInv, ProviderOK
  <1>2. ASSUME NEW f \in Flights, FlightStep(f) PROVE LInv'
    BY <1>2, AcquireStep, AcquireReturnsStep, PollStep, SnapshotReturnsStep, LoadReturnsStep,
       LoadRaisesStep, PublishReturnsStep, CleanupStep, CleanupReturnsStep, CancelFlightStep,
       CancelOwnerStep
    DEF FlightStep, AsyncRunFlight, AsyncRunOwner, RunFlight, RunOwner
  <1>3. ASSUME NEW f \in Flights, CommandEnds(f) PROVE LInv'
    BY <1>3, ServeStep, CommandFailsStep DEF CommandEnds
  <1> QED BY <1>1, <1>2, <1>3, GetOrLoadStep, DeadlinePassesStep, InvalidResponseStep,
          ServeLateStep, CloserStep, DrainedStep, TickStep DEF Next

\* The token of a flight can be followed through its commands, the replies and
\* whatever is executed late, for any processes, flights and bounds.
THEOREM Invariance == Spec => []LInv
  BY InitLInv, LInvStep, PTL DEF Spec

-----------------------------------------------------------------------------
(* What follows                                                            *)

\* The variables keep their types: attempts and polls stay within the budgets.
THEOREM TypeCorrect == Spec => []TypeOK
  <1>1. LInv => TypeOK
    <2> SUFFICES ASSUME LInv PROVE TypeOK OBVIOUS
    <2>1. /\ marker \in [kind : {"none", "active", "completed", "malformed"},
                         token : Tokens \cup {NoToken}, ttl : Nat]
          /\ result.token \in Tokens \cup {NoToken}
      BY DEF LInv, RedisOK, MarkerType, ResultType, Kinds, Written, Toks
    <2>2. outcome \in [Flights -> Outcomes \cup {"none"}] BY DEF LInv, OutcomeOK
    <2>3. ASSUME NEW f \in Flights
          PROVE  /\ flight[f].pc \in Points /\ flight[f].attempts \in 0 .. MaxAttempts
                 /\ flight[f].polls \in 0 .. MaxPolls - 1 /\ flight[f].leaseLeft \in 0 .. LeaseTtl
      BY DEF LInv, FlightOK, FlightType
    <2> QED BY <2>1, <2>2, <2>3 DEF TypeOK, LInv, ProviderOK, Points
  <1> QED BY <1>1, Invariance, PTL

\* Only a failed, cancelled or refused command leaves a marker without an owner.
THEOREM MarkersOwned == Spec => []MarkerHasOwner
  <1>1. LInv => MarkerHasOwner
    <2> SUFFICES ASSUME LInv, marker.kind = "active", marker.token \notin orphaned
                 PROVE  LET f == marker.token[1]
                        IN  /\ marker.token = Token(f)
                            /\ flight[f].pc \in {"acquire", "load", "publish", "clean", "cleanup"}
      BY DEF MarkerHasOwner
    <2>1. marker.token[1] \in Flights BY DEF LInv, RedisOK, Tokens, Written
    <2> QED BY <2>1 DEF LInv, FlightOK, Token
  <1> QED BY <1>1, Invariance, PTL

\* A completion comes with the result of its owner: no flight ends for a missing
\* result, one ends for a size only if some process has a larger limit than its
\* own, and for a malformed marker only if something else has written the key.
THEOREM CompletionsReadable == Spec => []CompletionHasResult
  <1>1. LInv => CompletionHasResult
    BY DEF LInv, RedisOK, OutcomeOK, Possible, TooLarge, CompletionHasResult
  <1> QED BY <1>1, Invariance, PTL

\* The count of admitted commands is exact, and a closed client has none.
THEOREM ClosingDrains == Spec => []ClosedIsDrained
  <1>1. LInv => ClosedIsDrained BY DEF LInv, ProviderOK, Busy, ClosedIsDrained
  <1> QED BY <1>1, Invariance, PTL

=============================================================================
