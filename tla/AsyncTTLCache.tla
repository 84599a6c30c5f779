---------------------------- MODULE AsyncTTLCache ----------------------------
(***************************************************************************)
(* The asynchronous cache of bluetape-cache.  All tasks run in one event   *)
(* loop and the lock is never held at an await, so an operation is one     *)
(* step.  A load runs in a task of its own, which outlives the callers     *)
(* that wait for it: each of them awaits a shield of the load, and leaves  *)
(* through a release step when the load is done or when it is cancelled.   *)
(* The last one that leaves a running load abandons and cancels it.  A     *)
(* loader may suppress the cancellation, and may call the cache itself.    *)
(***************************************************************************)
EXTENDS CacheState

CONSTANTS
    Tasks,        \* tasks that call get_or_load
    FlightIds,    \* bound: flights that run or are still waited for
    None,         \* no flight
    MaxInflight,  \* max_inflight
    TTLs,         \* lifetimes callers choose, in ticks
    MaxTick,      \* bound: the last instant of the clock
    MaxVersion,   \* bound: mutations of a key while its version is kept
    MaxEpoch,     \* bound: calls of clear()
    Nested        \* pairs <<j, k>>: the loader of j may load k

ASSUME LoadAssumption ==
    /\ Keys # {}
    /\ MaxInflight \in Nat \ {0}
    /\ FlightIds \subseteq Nat
    /\ IsFiniteSet(Tasks) /\ IsFiniteSet(FlightIds)
    /\ TTLs \subseteq Nat \ {0}
    /\ {MaxTick, MaxVersion, MaxEpoch} \subseteq Nat
    /\ Nested \subseteq Keys \X Keys
    /\ None \notin FlightIds

VARIABLES
    cache,     \* _state: entries, order, heap and versions
    lastTick,  \* _state.last_tick
    epoch,     \* _state.clear_epoch
    active,    \* _active_flights: the flight a caller of the key joins
    flight,    \* the flights; the owned ones are _owned_flights
    wait,      \* the flight a caller awaits or has yet to be released from
    leaving    \* was the caller cancelled?

vars == <<cache, lastTick, epoch, active, flight, wait, leaving>>
callVars == <<wait, leaving>>

\* The task of a load is a caller when its loader calls get_or_load.
Callers == Tasks \cup FlightIds
Ticks   == 0 .. MaxTick

\* scope is the _LOAD_SCOPE of the loader.  stale is auxiliary: the key was
\* written, invalidated or cleared since the load began.
NoFlight(k) ==
    [owned |-> FALSE, key |-> k, epoch |-> 0, version |-> 0, ttl |-> 0,
     waiters |-> 0, scope |-> {}, abandoned |-> FALSE, superseded |-> FALSE,
     stale |-> FALSE]

Init ==
    /\ cache = EmptyCache
    /\ lastTick = 0
    /\ epoch = 0
    /\ active = [k \in Keys |-> None]
    /\ flight = [f \in FlightIds |-> NoFlight(CHOOSE k \in Keys : TRUE)]
    /\ wait = [c \in Callers |-> None]
    /\ leaving = [c \in Callers |-> FALSE]

Owned          == {f \in FlightIds : flight[f].owned}
KeysOf(F)      == {flight[f].key : f \in F}
OwnedKeys      == KeysOf(Owned)
WaitersOf(f)   == {c \in Callers : wait[c] = f}
Now(tick)      == IF tick > lastTick THEN tick ELSE lastTick
MayBump(k)     == cache.versions[k] < MaxVersion

-----------------------------------------------------------------------------
(* get, size, stats, set, invalidate, clear                                *)

Hit(c, k) == IF k \in Present(c) THEN Touch(c, k) ELSE c

Get(k, tick) ==
    /\ lastTick' = Now(tick)
    /\ cache' = Hit(Purge(cache, Now(tick), OwnedKeys), k)
    /\ UNCHANGED <<epoch, active, flight, callVars>>

\* size() and stats()
Sweep(tick) ==
    /\ lastTick' = Now(tick)
    /\ cache' = Purge(cache, Now(tick), OwnedKeys)
    /\ UNCHANGED <<epoch, active, flight, callVars>>

Marked(K, superseded) ==
    [f \in FlightIds |->
        [flight[f] EXCEPT !.superseded = @ \/ f \in superseded,
                          !.stale = @ \/ (flight[f].owned /\ flight[f].key \in K)]]

\* Faulty variant of Supersede: later callers still join the old flight.
SupersedeKept(k, K) ==
    /\ active' = active
    /\ flight' = Marked(K, {active[k]})

\* _supersede: the flight goes on, but nobody joins it any more.
Supersede(k, K) ==
    /\ active' = [active EXCEPT ![k] = None]
    /\ flight' = Marked(K, {active[k]})

Set(k, ttl, tick) ==
    /\ MayBump(k)
    /\ lastTick' = Now(tick)
    /\ Supersede(k, {k})
    /\ cache' = Store(cache, k, ttl, Now(tick), OwnedKeys)
    /\ UNCHANGED <<epoch, callVars>>

\* The clock raises in set(): the load is superseded and nothing is stored.
SetFails(k) ==
    /\ Supersede(k, {})
    /\ UNCHANGED <<cache, lastTick, epoch, callVars>>

Invalidate(k, tick) ==
    /\ MayBump(k)
    /\ lastTick' = Now(tick)
    /\ Supersede(k, {k})
    /\ cache' = Invalidated(cache, k, Now(tick), OwnedKeys)
    /\ UNCHANGED <<epoch, callVars>>

Clear(tick) ==
    /\ epoch < MaxEpoch
    /\ epoch' = epoch + 1
    /\ lastTick' = Now(tick)
    /\ active' = [k \in Keys |-> None]
    /\ flight' = Marked(Keys, {active[k] : k \in Keys})
    /\ cache' = Cleared(cache, OwnedKeys)
    /\ UNCHANGED callVars

-----------------------------------------------------------------------------
(* get_or_load                                                             *)

Scope(c) == IF c \in FlightIds THEN flight[c].scope ELSE {}

\* The caller is idle or a loader that runs; a key of its scope is refused
\* with RecursiveLoadError.
MayLoad(c, k) ==
    /\ wait[c] = None
    /\ k \notin Scope(c)
    /\ c \in FlightIds => flight[c].owned /\ <<flight[c].key, k>> \in Nested

LoadHit(c, k, tick) ==
    /\ MayLoad(c, k)
    /\ LET p == Purge(cache, Now(tick), OwnedKeys)
       IN  k \in Present(p) /\ cache' = Touch(p, k)
    /\ lastTick' = Now(tick)
    /\ UNCHANGED <<epoch, active, flight, callVars>>

Misses(c, k, tick) ==
    /\ MayLoad(c, k)
    /\ lastTick' = Now(tick)
    /\ k \notin Present(Purge(cache, Now(tick), OwnedKeys))

Join(c, k, tick) ==
    /\ Misses(c, k, tick)
    /\ active[k] # None
    /\ cache' = Purge(cache, Now(tick), OwnedKeys)
    /\ flight' = [flight EXCEPT ![active[k]].waiters = @ + 1]
    /\ wait' = [wait EXCEPT ![c] = active[k]]
    /\ UNCHANGED <<epoch, active, leaving>>

\* CacheLoadLimitError
Reject(c, k, tick) ==
    /\ Misses(c, k, tick)
    /\ active[k] = None
    /\ Cardinality(Owned) >= MaxInflight
    /\ cache' = Purge(cache, Now(tick), OwnedKeys)
    /\ UNCHANGED <<epoch, active, flight, callVars>>

MayBegin(k) == active[k] = None /\ Cardinality(Owned) < MaxInflight

Free == {f \in FlightIds : ~flight[f].owned /\ flight[f].waiters = 0}

\* The caller starts a load and is its first waiter.
BeginLoad(c, k, ttl, tick) ==
    /\ MayBump(k)
    /\ Misses(c, k, tick)
    /\ MayBegin(k)
    /\ cache' = Purge(cache, Now(tick), OwnedKeys)
    /\ \E f \in Free :
          /\ \A g \in Free : f <= g
          /\ flight' = [flight EXCEPT ![f] =
                          [NoFlight(k) EXCEPT
                              !.owned = TRUE, !.epoch = epoch, !.ttl = ttl,
                              !.version = cache'.versions[k], !.waiters = 1,
                              !.scope = Scope(c) \cup {k}]]
          /\ active' = [active EXCEPT ![k] = f]
          /\ wait' = [wait EXCEPT ![c] = f]
    /\ UNCHANGED <<epoch, leaving>>

\* create_task raises: the flight is undone in the same step.
BeginFails(c, k, tick) ==
    /\ Misses(c, k, tick)
    /\ MayBegin(k)
    /\ cache' = Drop(Purge(cache, Now(tick), OwnedKeys), k, OwnedKeys)
    /\ UNCHANGED <<epoch, active, flight, callVars>>

-----------------------------------------------------------------------------
(* The task of a load                                                      *)

\* Faulty variant of CanPublish: the active flight is not compared, nor are
\* abandoned flights refused.
CanPublishVersion(f) ==
    /\ ~flight[f].superseded
    /\ epoch = flight[f].epoch
    /\ cache.versions[flight[f].key] >= flight[f].version

CanPublish(f) ==
    /\ ~flight[f].abandoned
    /\ ~flight[f].superseded
    /\ epoch = flight[f].epoch
    /\ cache.versions[flight[f].key] = flight[f].version
    /\ active[flight[f].key] = f

\* The loader returns, raises or is cancelled, and _complete_async_flight
\* runs; its clock may raise as well, and then nothing is published.
FinishLoad(f, returns, clockOk, tick) ==
    /\ flight[f].owned
    /\ wait[f] = None
    /\ LET k == flight[f].key
           publish == returns /\ CanPublish(f) /\ clockOk
       IN  /\ cache' = Drop(IF publish
                            THEN Store(cache, k, flight[f].ttl, Now(tick), OwnedKeys)
                            ELSE cache,
                            k, KeysOf(Owned \ {f}))
           /\ lastTick' = IF publish THEN Now(tick) ELSE lastTick
           /\ active' = IF active[k] = f THEN [active EXCEPT ![k] = None] ELSE active
           /\ flight' = [flight EXCEPT ![f] =
                           [NoFlight(k) EXCEPT !.waiters = flight[f].waiters]]
    /\ UNCHANGED <<epoch, callVars>>

-----------------------------------------------------------------------------
(* Callers that leave                                                      *)

\* The caller is cancelled while it awaits the load.
Cancel(c) ==
    /\ wait[c] # None
    /\ ~leaving[c]
    /\ leaving' = [leaving EXCEPT ![c] = TRUE]
    /\ UNCHANGED <<cache, lastTick, epoch, active, flight, wait>>

\* Faulty variant of Abandons: every cancelled caller takes the load with it.
AbandonsAlways(c, f) == flight[f].owned

\* The last waiter leaves a load that is not done.
Abandons(c, f) == flight[f].owned /\ flight[f].waiters = 1

\* Faulty variant of MayLeave: a waiter watches the key, not its flight.
MayLeaveIdle(c, f) == leaving[c] \/ (~flight[f].owned /\ active[flight[f].key] = None)

\* A caller leaves when its flight is done or when it was cancelled.
MayLeave(c, f) == leaving[c] \/ ~flight[f].owned

\* _release_waiter_locked, and the cancellation of an abandoned load, which
\* reaches its loader where it awaits another load.
Release(c) ==
    LET f == wait[c]
    IN  /\ f # None
        /\ MayLeave(c, f)
        /\ wait' = [wait EXCEPT ![c] = None]
        /\ \/ /\ ~Abandons(c, f)
              /\ flight' = [flight EXCEPT ![f].waiters = @ - 1]
              /\ leaving' = [leaving EXCEPT ![c] = FALSE]
              /\ UNCHANGED <<cache, active>>
           \/ /\ Abandons(c, f)
              /\ flight' = [flight EXCEPT ![f].waiters = @ - 1, ![f].abandoned = TRUE]
              /\ active' = [k \in Keys |-> IF active[k] = f THEN None ELSE active[k]]
              /\ cache' = Bumped(cache, flight[f].key)
              /\ leaving' = [leaving EXCEPT ![c] = FALSE, ![f] = wait[f] # None]
        /\ UNCHANGED <<lastTick, epoch>>

-----------------------------------------------------------------------------

Read(tick) == Sweep(tick) \/ \E k \in Keys : Get(k, tick)

Write(tick) ==
    \/ \E k \in Keys, ttl \in TTLs : Set(k, ttl, tick)
    \/ \E k \in Keys : Invalidate(k, tick)
    \/ Clear(tick)

Load(c, k, tick) ==
    \/ LoadHit(c, k, tick) \/ Join(c, k, tick) \/ Reject(c, k, tick)
    \/ BeginFails(c, k, tick)
    \/ \E ttl \in TTLs : BeginLoad(c, k, ttl, tick)

Finish(f) ==
    \E returns, clockOk \in BOOLEAN, tick \in Ticks : FinishLoad(f, returns, clockOk, tick)

Next ==
    \/ \E tick \in Ticks : Read(tick) \/ Write(tick)
    \/ \E k \in Keys : SetFails(k)
    \/ \E c \in Callers, k \in Keys, tick \in Ticks : Load(c, k, tick)
    \/ \E f \in FlightIds : Finish(f)
    \/ \E c \in Callers : Cancel(c) \/ Release(c)

Spec == Init /\ [][Next]_vars

\* The event loop runs every task that is ready, and every loader ends, also
\* one that calls the cache again and again.
Fairness ==
    /\ \A c \in Callers : WF_vars(Release(c))
    /\ \A f \in FlightIds : SF_vars(Finish(f))

FairSpec == Spec /\ Fairness

-----------------------------------------------------------------------------
(* Properties                                                              *)

\* The types of the variables; the counters of a flight are numbers.
TypeOK ==
    /\ CacheType(cache)
    /\ lastTick \in Nat
    /\ epoch \in Nat
    /\ active \in [Keys -> FlightIds \cup {None}]
    /\ flight \in [FlightIds ->
          [owned : BOOLEAN, key : Keys, epoch : Nat, version : Nat, ttl : Nat,
           waiters : Nat, scope : SUBSET Keys, abandoned : BOOLEAN,
           superseded : BOOLEAN, stale : BOOLEAN]]
    /\ wait \in [Callers -> FlightIds \cup {None}]
    /\ leaving \in [Callers -> BOOLEAN]

\* A load is abandoned exactly when nobody waits for it any more, whatever
\* joins, cancellations and nested loads came before: no load that somebody
\* needs is cancelled, and none runs on for nobody.
AbandonedWhenAlone ==
    \A f \in FlightIds :
        /\ flight[f].waiters = Cardinality(WaitersOf(f))
        /\ flight[f].owned => (flight[f].abandoned <=> WaitersOf(f) = {})

\* The flight a caller joins is running, up to date and not abandoned.
JoinsFreshLoad ==
    \A k \in Keys : active[k] # None =>
        /\ active[k] \in Owned /\ flight[active[k]].key = k
        /\ ~flight[active[k]].superseded /\ ~flight[active[k]].stale
        /\ ~flight[active[k]].abandoned

\* A load that was abandoned, or that began before its key was written,
\* invalidated or cleared, changes no entry when it ends.
LateLoadsPublishNothing ==
    [][\A f \in Owned : (flight[f].stale \/ flight[f].abandoned) /\ ~flight'[f].owned =>
          cache'.entry = cache.entry /\ cache'.heap = cache.heap]_vars

\* Whoever awaits a load gets its outcome or its own cancellation.
WaitersReturn == \A c \in Callers : wait[c] # None ~> wait[c] = None

=============================================================================
