------------------------------ MODULE TTLCache ------------------------------
(***************************************************************************)
(* The synchronous cache of bluetape-cache.  Every operation runs under    *)
(* one RLock and is one step; a loader runs outside the lock, so everything *)
(* else happens between BeginLoad and FinishLoad.  A loader may call the   *)
(* cache again, also get_or_load for another key.                          *)
(*                                                                         *)
(* A thread owns at most one flight of a key at a time (RecursiveLoadError *)
(* refuses a second), so a thread and a key name a flight.                 *)
(***************************************************************************)
EXTENDS CacheState, Sequences

CONSTANTS
    Threads,      \* threads that call get_or_load
    None,         \* no flight
    MaxInflight,  \* max_inflight
    TTLs,         \* lifetimes callers choose, in ticks
    MaxTick,      \* bound: the last instant of the clock
    MaxVersion,   \* bound: mutations of a key while its version is kept
    MaxEpoch,     \* bound: calls of clear()
    Nested        \* pairs <<j, k>>: the loader of j may load k

ASSUME LoadAssumption ==
    /\ MaxInflight \in Nat \ {0}
    /\ TTLs \subseteq Nat \ {0}
    /\ {MaxTick, MaxVersion, MaxEpoch} \subseteq Nat
    /\ Nested \subseteq Keys \X Keys
    /\ None \notin Threads \X Keys

VARIABLES
    cache,     \* _state: entries, order, heap and versions
    lastTick,  \* _state.last_tick
    epoch,     \* _state.clear_epoch
    active,    \* _active_flights: the flight a caller of the key joins
    flight,    \* _owned_flights, named by their thread and key
    stack,     \* the keys whose loaders run in each thread, innermost last
    wait       \* the flight whose condition a thread waits on

vars == <<cache, lastTick, epoch, active, flight, stack, wait>>
loadVars == <<stack, wait>>

Flights == Threads \X Keys
Ticks   == 0 .. MaxTick

\* stale is auxiliary: the key was written, invalidated or cleared since the
\* load began.
NoFlight == [owned |-> FALSE, epoch |-> 0, version |-> 0, ttl |-> 0,
             superseded |-> FALSE, stale |-> FALSE]

Init ==
    /\ cache = EmptyCache
    /\ lastTick = 0
    /\ epoch = 0
    /\ active = [k \in Keys |-> None]
    /\ flight = [f \in Flights |-> NoFlight]
    /\ stack = [t \in Threads |-> <<>>]
    /\ wait = [t \in Threads |-> None]

Owned     == {f \in Flights : flight[f].owned}
OwnedKeys == {f[2] : f \in Owned}

\* clamp_tick: the clock may step back, the cache does not follow it.
Now(tick) == IF tick > lastTick THEN tick ELSE lastTick

\* A caller may start an operation that bumps the version of k.
MayBump(k) == cache.versions[k] < MaxVersion

-----------------------------------------------------------------------------
(* Operations of any thread, a running loader included                     *)

\* get: purge, and on a hit the entry becomes the most recently used.
Hit(c, k) == IF k \in Present(c) THEN Touch(c, k) ELSE c

Get(k, tick) ==
    /\ lastTick' = Now(tick)
    /\ cache' = Hit(Purge(cache, Now(tick), OwnedKeys), k)
    /\ UNCHANGED <<epoch, active, flight, loadVars>>

\* len() and stats()
Sweep(tick) ==
    /\ lastTick' = Now(tick)
    /\ cache' = Purge(cache, Now(tick), OwnedKeys)
    /\ UNCHANGED <<epoch, active, flight, loadVars>>

\* The flights of K that are still running are known to be out of date.
Marked(K, superseded) ==
    [f \in Flights |->
        [flight[f] EXCEPT !.superseded = @ \/ f \in superseded,
                          !.stale = @ \/ (flight[f].owned /\ f[2] \in K)]]

\* _supersede: the flight goes on, but nobody joins it any more.
Supersede(k, K) ==
    /\ active' = [active EXCEPT ![k] = None]
    /\ flight' = Marked(K, {active[k]})

Set(k, ttl, tick) ==
    /\ MayBump(k)
    /\ lastTick' = Now(tick)
    /\ Supersede(k, {k})
    /\ cache' = Store(cache, k, ttl, Now(tick), OwnedKeys)
    /\ UNCHANGED <<epoch, loadVars>>

\* The clock raises in set(): the load is superseded and nothing is stored.
SetFails(k) ==
    /\ Supersede(k, {})
    /\ UNCHANGED <<cache, lastTick, epoch, loadVars>>

Invalidate(k, tick) ==
    /\ MayBump(k)
    /\ lastTick' = Now(tick)
    /\ Supersede(k, {k})
    /\ cache' = Invalidated(cache, k, Now(tick), OwnedKeys)
    /\ UNCHANGED <<epoch, loadVars>>

Clear(tick) ==
    /\ epoch < MaxEpoch
    /\ epoch' = epoch + 1
    /\ lastTick' = Now(tick)
    /\ active' = [k \in Keys |-> None]
    /\ flight' = Marked(Keys, {active[k] : k \in Keys})
    /\ cache' = Cleared(cache, OwnedKeys)
    /\ UNCHANGED loadVars

-----------------------------------------------------------------------------
(* get_or_load                                                             *)

Top(t) == stack[t][Len(stack[t])]

\* Faulty variant of MayLoad: a loader may ask for its own key again.
MayLoadAgain(t, k) == wait[t] = None /\ (stack[t] # <<>> => <<Top(t), k>> \in Nested)

\* The call is made by an idle thread or by the innermost loader of t, and
\* not for a key that t is loading already: RecursiveLoadError.
MayLoad(t, k) ==
    /\ wait[t] = None
    /\ ~flight[<<t, k>>].owned
    /\ stack[t] # <<>> => <<Top(t), k>> \in Nested

\* A live entry is returned.
LoadHit(t, k, tick) ==
    /\ MayLoad(t, k)
    /\ LET p == Purge(cache, Now(tick), OwnedKeys)
       IN  k \in Present(p) /\ cache' = Touch(p, k)
    /\ lastTick' = Now(tick)
    /\ UNCHANGED <<epoch, active, flight, loadVars>>

Misses(t, k, tick) ==
    /\ MayLoad(t, k)
    /\ lastTick' = Now(tick)
    /\ cache' = Purge(cache, Now(tick), OwnedKeys)
    /\ k \notin Present(cache')

\* Somebody is loading the key: wait for the outcome.
Join(t, k, tick) ==
    /\ Misses(t, k, tick)
    /\ active[k] # None
    /\ wait' = [wait EXCEPT ![t] = active[k]]
    /\ UNCHANGED <<epoch, active, flight, stack>>

\* CacheLoadLimitError
Reject(t, k, tick) ==
    /\ Misses(t, k, tick)
    /\ active[k] = None
    /\ Cardinality(Owned) >= MaxInflight
    /\ UNCHANGED <<epoch, active, flight, loadVars>>

\* Faulty variants of MayBegin: a running load is not looked for; only the
\* flights that callers can still join are counted.
MayBeginAgain(k)  == Cardinality(Owned) < MaxInflight
MayBeginActive(k) ==
    active[k] = None /\ Cardinality({j \in Keys : active[j] # None}) < MaxInflight

MayBegin(k) == active[k] = None /\ Cardinality(Owned) < MaxInflight

\* The thread becomes the owner of a new flight and runs the loader.
BeginLoad(t, k, ttl, tick) ==
    /\ MayBump(k)
    /\ Misses(t, k, tick)
    /\ MayBegin(k)
    /\ flight' = [flight EXCEPT ![<<t, k>>] =
                    [owned |-> TRUE, epoch |-> epoch,
                     version |-> cache'.versions[k], ttl |-> ttl,
                     superseded |-> FALSE, stale |-> FALSE]]
    /\ active' = [active EXCEPT ![k] = <<t, k>>]
    /\ stack' = [stack EXCEPT ![t] = Append(@, k)]
    /\ UNCHANGED <<epoch, wait>>

\* Faulty variant of CanPublish: publish whatever was loaded.
CanPublishAlways(f) == TRUE

CanPublish(f) ==
    /\ ~flight[f].superseded
    /\ epoch = flight[f].epoch
    /\ cache.versions[f[2]] = flight[f].version
    /\ active[f[2]] = f

\* Faulty variant of Wake: a superseded flight wakes nobody.
WakeActive(f) ==
    wait' = [t \in Threads |-> IF wait[t] = f /\ ~flight[f].superseded
                               THEN None ELSE wait[t]]

\* notify_all: whoever waits returns with the outcome of the flight.
Wake(f) == wait' = [t \in Threads |-> IF wait[t] = f THEN None ELSE wait[t]]

\* The innermost loader of t returns a value or raises, and _finish_flight
\* runs; its clock may raise as well, and then nothing is published.
FinishLoad(t, returns, clockOk, tick) ==
    /\ wait[t] = None
    /\ stack[t] # <<>>
    /\ LET k == Top(t)
           f == <<t, k>>
           publish == returns /\ CanPublish(f) /\ clockOk
       IN  /\ cache' = Drop(IF publish
                            THEN Store(cache, k, flight[f].ttl, Now(tick), OwnedKeys)
                            ELSE cache,
                            k, {g[2] : g \in Owned \ {f}})
           /\ lastTick' = IF publish THEN Now(tick) ELSE lastTick
           /\ active' = IF active[k] = f THEN [active EXCEPT ![k] = None] ELSE active
           /\ flight' = [flight EXCEPT ![f] = NoFlight]
           /\ Wake(f)
    /\ stack' = [stack EXCEPT ![t] = SubSeq(@, 1, Len(@) - 1)]
    /\ UNCHANGED epoch

-----------------------------------------------------------------------------

Read(tick) == Sweep(tick) \/ \E k \in Keys : Get(k, tick)

Write(tick) ==
    \/ \E k \in Keys, ttl \in TTLs : Set(k, ttl, tick)
    \/ \E k \in Keys : Invalidate(k, tick)
    \/ Clear(tick)

Load(t, tick) ==
    \/ \E k \in Keys : LoadHit(t, k, tick) \/ Join(t, k, tick) \/ Reject(t, k, tick)
    \/ \E k \in Keys, ttl \in TTLs : BeginLoad(t, k, ttl, tick)

Finish(t, tick) ==
    \E returns, clockOk \in BOOLEAN : FinishLoad(t, returns, clockOk, tick)

Next ==
    \/ \E tick \in Ticks : Read(tick) \/ Write(tick)
    \/ \E k \in Keys : SetFails(k)
    \/ \E t \in Threads, tick \in Ticks : Load(t, tick) \/ Finish(t, tick)

Spec == Init /\ [][Next]_vars

\* Every loader ends: it makes finitely many calls, and they end.  The load
\* at a depth of the stack of a thread is one loader.
FinishAt(t, d) == Len(stack[t]) = d /\ \E tick \in Ticks : Finish(t, tick)

Fairness ==
    \A t \in Threads : \A d \in 1 .. Cardinality(Keys) : SF_vars(FinishAt(t, d))

FairSpec == Spec /\ Fairness

-----------------------------------------------------------------------------
(* Properties                                                              *)

TypeOK ==
    /\ CacheType(cache)
    /\ lastTick \in Nat
    /\ epoch \in Nat
    /\ active \in [Keys -> Flights \cup {None}]
    /\ flight \in [Flights -> [owned : BOOLEAN, epoch : Nat, version : Nat,
                               ttl : Nat, superseded : BOOLEAN, stale : BOOLEAN]]
    /\ stack \in [Threads -> Seq(Keys)]
    /\ wait \in [Threads -> Flights \cup {None}]

\* An entry that is there has not expired: whatever evictions, overwrites and
\* rebuilds of the heap came before, its node is found when its time comes.
NoExpiredEntry == Timely(cache, lastTick)

\* Entries, heap nodes and running loads stay within their limits.
Bounded ==
    /\ Cardinality(Present(cache)) <= MaxSize
    /\ Cardinality(cache.heap) <= 2 * MaxSize
    /\ Cardinality(Owned) <= MaxInflight

\* The version of a key is forgotten as soon as it has neither an entry nor a
\* running load, so versions do not pile up for keys that are gone.
NoVersionLeak == NoSpareVersion(cache, OwnedKeys)

\* The flight a caller joins is running and up to date: nothing was written,
\* invalidated or cleared since it began.
JoinsFreshLoad ==
    \A k \in Keys : active[k] # None =>
        /\ active[k] \in Owned /\ active[k][2] = k
        /\ ~flight[active[k]].superseded /\ ~flight[active[k]].stale

\* Whoever waits, waits for a load that is running, superseded or not: no
\* outcome was delivered before it began to wait.
WaitsForRunningLoad == \A t \in Threads : wait[t] # None => wait[t] \in Owned

\* No threads wait for each other in a circle, nor one for itself: get_or_load
\* refuses a key whose loader asks for it again.  Loaders that load each
\* other's keys from two threads are not refused; Nested has none.
NoCircularWait ==
    \A S \in (SUBSET Threads) \ {{}} :
        \E t \in S : wait[t] = None \/ wait[t][1] \notin S

\* Two threads load the same key at once only if one load was superseded.
SingleFlight ==
    \A f, g \in Owned : f # g /\ f[2] = g[2] =>
        flight[f].superseded \/ flight[g].superseded

\* The result of a load that began before its key was written, invalidated or
\* cleared replaces nothing.
StaleLoadsPublishNothing ==
    [][\A f \in Owned : flight[f].stale /\ ~flight'[f].owned =>
          cache'.entry = cache.entry /\ cache'.heap = cache.heap]_vars

\* Reading the cache removes only entries whose time has come.
ExpiresOnTime ==
    [][(\E tick \in Ticks : Read(tick)) =>
          \A k \in Present(cache) \ Present(cache') :
              cache.entry[k].expires <= lastTick']_vars

\* Whoever waits for a load gets its outcome.
WaitersReturn ==
    \A t \in Threads : wait[t] # None ~> wait[t] = None

-----------------------------------------------------------------------------
(* The inductive invariant behind the safety properties                    *)

\* A running load that was not superseded is the one that callers join.
FlightInv ==
    \A f \in Owned : /\ flight[f].ttl \in TTLs
                     /\ flight[f].superseded \/ active[f[2]] = f

IInv ==
    /\ TypeOK
    /\ HasNodes(cache)
    /\ NoExpiredEntry
    /\ NoVersionLeak
    /\ JoinsFreshLoad
    /\ WaitsForRunningLoad
    /\ FlightInv

=============================================================================
