--------------------------- MODULE TTLCacheProofs ---------------------------
(* The safety properties of TTLCache, for every capacity, every number of  *)
(* keys and threads, and every set of lifetimes.                           *)
EXTENDS TTLCache, CacheStateProofs, SequenceTheorems

\* What the invariant says of the loads.
FlightType == [owned : BOOLEAN, epoch : Nat, version : Nat, ttl : Nat,
               superseded : BOOLEAN, stale : BOOLEAN]

LoadsOK ==
    /\ active \in [Keys -> Flights \cup {None}]
    /\ flight \in [Flights -> FlightType]
    /\ stack \in [Threads -> Seq(Keys)]
    /\ wait \in [Threads -> Flights \cup {None}]
    /\ JoinsFreshLoad
    /\ WaitsForRunningLoad
    /\ FlightInv

(* The invariant is about the entries, the clock and the loads.            *)
LEMMA InvParts ==
    IInv <=> /\ EntriesOK(cache, lastTick, OwnedKeys)
             /\ lastTick \in Nat /\ epoch \in Nat
             /\ LoadsOK
  BY DEF IInv, TypeOK, EntriesOK, LoadsOK, FlightType, NoExpiredEntry, NoVersionLeak

(* The same for the next state.                                            *)
LEMMA InvAfter ==
    ASSUME EntriesOK(cache', lastTick', OwnedKeys'), lastTick' \in Nat, epoch' \in Nat,
           LoadsOK'
    PROVE  IInv'
  BY DEF IInv, TypeOK, EntriesOK, LoadsOK, FlightType, NoExpiredEntry, NoVersionLeak

(* The clamped clock never goes back.                                      *)
LEMMA NowOK ==
    ASSUME lastTick \in Nat, NEW tick \in Ticks
    PROVE  Now(tick) \in Nat
  BY LoadAssumption DEF Now, Ticks

(* Who owns flights depends on the flights only.                           *)
LEMMA OwnedSame ==
    ASSUME UNCHANGED flight
    PROVE  Owned' = Owned /\ OwnedKeys' = OwnedKeys
  BY DEF Owned, OwnedKeys

(* A step that reads the cache, with or without a call of get_or_load that *)
(* ends at once, changes no flight.                                        *)
LEMMA ReadStep ==
    ASSUME IInv, NEW tick \in Ticks, lastTick' = Now(tick),
           UNCHANGED <<epoch, active, flight, loadVars>>,
           \/ cache' = Purge(cache, Now(tick), OwnedKeys)
           \/ \E k \in Keys : cache' = Touch(Purge(cache, Now(tick), OwnedKeys), k)
    PROVE  IInv'
  <1>1. EntriesOK(cache', lastTick', OwnedKeys')
    BY InvParts, NowOK, OwnedSame, PurgeKeeps, TouchKeeps
  <1>2. LoadsOK'
    BY InvParts, OwnedSame DEF LoadsOK, JoinsFreshLoad, WaitsForRunningLoad, FlightInv,
                               loadVars
  <1> QED BY <1>1, <1>2, InvParts, InvAfter, NowOK

(* Marking flights as superseded or stale ends none of them.               *)
LEMMA MarkedOK ==
    ASSUME flight \in [Flights -> FlightType], NEW K, NEW S, flight' = Marked(K, S)
    PROVE  /\ flight' \in [Flights -> FlightType]
           /\ Owned' = Owned /\ OwnedKeys' = OwnedKeys
           /\ \A f \in Flights :
                 /\ flight'[f].ttl = flight[f].ttl
                 /\ flight'[f].superseded <=> flight[f].superseded \/ f \in S
                 /\ f[2] \notin K => (flight'[f].stale <=> flight[f].stale)
  <1>1. \A f \in Flights :
           flight'[f] = [flight[f] EXCEPT
                            !.superseded = @ \/ f \in S,
                            !.stale = @ \/ (flight[f].owned /\ f[2] \in K)]
    BY DEF Marked
  <1>2. DOMAIN flight' = Flights
    BY DEF Marked
  <1>3. ASSUME NEW f \in Flights
        PROVE  /\ flight'[f] \in FlightType
               /\ flight'[f].owned = flight[f].owned
               /\ flight'[f].ttl = flight[f].ttl
               /\ flight'[f].superseded <=> flight[f].superseded \/ f \in S
               /\ f[2] \notin K => (flight'[f].stale <=> flight[f].stale)
    <2> DEFINE r == flight[f]
               a == r.superseded \/ f \in S
               b == r.stale \/ (r.owned /\ f[2] \in K)
    <2>1. r \in FlightType /\ a \in BOOLEAN /\ b \in BOOLEAN
      OBVIOUS
    <2>2. flight'[f] = [r EXCEPT !.superseded = a, !.stale = b]
      BY <1>1
    <2>3. f[2] \notin K => (b <=> r.stale)
      OBVIOUS
    <2> HIDE DEF a, b, r
    <2>4. /\ flight'[f] \in FlightType
          /\ flight'[f].owned = r.owned
          /\ flight'[f].ttl = r.ttl
          /\ flight'[f].superseded = a
          /\ flight'[f].stale = b
      BY <2>1, <2>2 DEF FlightType
    <2> QED BY <2>3, <2>4 DEF a, r
  <1>4. flight' \in [Flights -> FlightType]
    BY <1>2, <1>3 DEF Marked
  <1>5. Owned' = Owned /\ OwnedKeys' = OwnedKeys
    BY <1>3 DEF Owned, OwnedKeys
  <1> QED BY <1>3, <1>4, <1>5

(* When the flights of K are marked stale and nobody can join them any     *)
(* more, the loads are still in order.                                     *)
LEMMA MarkStep ==
    ASSUME LoadsOK, NEW K \in SUBSET Keys, NEW S, flight' = Marked(K, S),
           UNCHANGED loadVars,
           active' \in [Keys -> Flights \cup {None}],
           \A k \in Keys : active'[k] \in {active[k], None},
           \A k \in K : active'[k] = None,
           \A k \in Keys : active'[k] = active[k] /\ active[k] # None => active[k] \notin S,
           \A k \in Keys : active'[k] = None => active[k] \in S \cup {None}
    PROVE  LoadsOK' /\ OwnedKeys' = OwnedKeys
  <1>1. /\ flight' \in [Flights -> FlightType]
        /\ Owned' = Owned /\ OwnedKeys' = OwnedKeys
        /\ \A f \in Flights :
                 /\ flight'[f].ttl = flight[f].ttl
                 /\ flight'[f].superseded <=> flight[f].superseded \/ f \in S
                 /\ f[2] \notin K => (flight'[f].stale <=> flight[f].stale)
    BY MarkedOK DEF LoadsOK
  <1>2. Owned \subseteq Flights
    BY DEF Owned
  <1>3. JoinsFreshLoad'
    <2> SUFFICES ASSUME NEW k \in Keys, active'[k] # None
                 PROVE  /\ active'[k] \in Owned' /\ active'[k][2] = k
                        /\ ~flight'[active'[k]].superseded /\ ~flight'[active'[k]].stale
      BY DEF JoinsFreshLoad
    <2>1. active'[k] = active[k] /\ active[k] # None /\ k \notin K /\ active[k] \notin S
      OBVIOUS
    <2>2. /\ active[k] \in Owned /\ active[k][2] = k
          /\ ~flight[active[k]].superseded /\ ~flight[active[k]].stale
      BY <2>1 DEF LoadsOK, JoinsFreshLoad
    <2> QED BY <1>1, <1>2, <2>1, <2>2
  <1>4. WaitsForRunningLoad'
    BY <1>1 DEF LoadsOK, WaitsForRunningLoad, loadVars
  <1>5. FlightInv'
    <2> SUFFICES ASSUME NEW f \in Owned
                 PROVE  /\ flight'[f].ttl \in TTLs
                        /\ flight'[f].superseded \/ active'[f[2]] = f
      BY <1>1 DEF FlightInv
    <2>1. f \in Flights /\ f[2] \in Keys
      BY DEF Owned, Flights
    <2>2. flight[f].ttl \in TTLs /\ (flight[f].superseded \/ active[f[2]] = f)
      BY DEF LoadsOK, FlightInv
    <2>3. f # None
      BY <2>1, LoadAssumption DEF Flights
    <2> QED BY <1>1, <2>1, <2>2, <2>3
  <1> QED BY <1>1, <1>3, <1>4, <1>5 DEF LoadsOK, loadVars

(* set(), invalidate() and the set() whose clock fails supersede the       *)
(* flight of their key.                                                    *)
LEMMA SupersedeStep ==
    ASSUME LoadsOK, NEW k \in Keys, NEW K \in SUBSET {k}, Supersede(k, K),
           UNCHANGED loadVars
    PROVE  LoadsOK' /\ OwnedKeys' = OwnedKeys
  <1>1. active' = [active EXCEPT ![k] = None] /\ flight' = Marked(K, {active[k]})
    BY DEF Supersede
  <1>2. active \in [Keys -> Flights \cup {None}]
    BY DEF LoadsOK
  <1>3. \A j \in Keys : active'[j] = IF j = k THEN None ELSE active[j]
    BY <1>1, <1>2
  <1>4. \A j \in Keys : active[j] # None => active[j][2] = j
    BY DEF LoadsOK, JoinsFreshLoad
  <1>5. active' \in [Keys -> Flights \cup {None}]
    BY <1>1, <1>2
  <1> QED BY <1>1, <1>3, <1>4, <1>5, MarkStep

(* Every operation that writes, and the set() whose clock fails.           *)
LEMMA WriteStep ==
    ASSUME IInv,
           \/ \E tick \in Ticks : Write(tick)
           \/ \E k \in Keys : SetFails(k)
    PROVE  IInv'
  <1> USE InvParts
  <1>1. ASSUME NEW tick \in Ticks, NEW k \in Keys, NEW ttl \in TTLs, Set(k, ttl, tick)
        PROVE  IInv'
    <2>1. LoadsOK' /\ OwnedKeys' = OwnedKeys
      BY <1>1, SupersedeStep DEF Set
    <2>2. Now(tick) \in Nat /\ ttl \in Nat \ {0}
      BY NowOK, LoadAssumption
    <2>3. EntriesOK(cache', lastTick', OwnedKeys)
      BY <1>1, <2>2, StoreOK DEF Set, EntriesOK
    <2> QED BY <1>1, <2>1, <2>2, <2>3, InvAfter DEF Set
  <1>2. ASSUME NEW tick \in Ticks, NEW k \in Keys, Invalidate(k, tick)
        PROVE  IInv'
    <2>1. LoadsOK' /\ OwnedKeys' = OwnedKeys
      BY <1>2, SupersedeStep DEF Invalidate
    <2>2. EntriesOK(cache', lastTick', OwnedKeys)
      BY <1>2, NowOK, InvalidatedOK DEF Invalidate, EntriesOK
    <2> QED BY <1>2, <2>1, <2>2, NowOK, InvAfter DEF Invalidate
  <1>3. ASSUME NEW tick \in Ticks, Clear(tick)
        PROVE  IInv'
    <2>1. LoadsOK' /\ OwnedKeys' = OwnedKeys
      <3>1. /\ active' = [k \in Keys |-> None]
            /\ flight' = Marked(Keys, {active[k] : k \in Keys})
            /\ UNCHANGED loadVars
        BY <1>3 DEF Clear
      <3> QED BY <3>1, MarkStep
    <2>2. EntriesOK(cache', lastTick', OwnedKeys)
      BY <1>3, ClearedOK DEF Clear, EntriesOK
    <2> QED BY <1>3, <2>1, <2>2, NowOK, InvAfter DEF Clear
  <1>4. ASSUME NEW k \in Keys, SetFails(k)
        PROVE  IInv'
    <2>1. LoadsOK' /\ OwnedKeys' = OwnedKeys
      BY <1>4, SupersedeStep DEF SetFails
    <2> QED BY <1>4, <2>1, InvAfter DEF SetFails
  <1> QED BY <1>1, <1>2, <1>3, <1>4 DEF Write

(* A call of get_or_load that joins a flight waits for one that runs.      *)
LEMMA JoinStep ==
    ASSUME IInv, NEW t \in Threads, NEW k \in Keys, NEW tick \in Ticks, Join(t, k, tick)
    PROVE  IInv'
  <1> USE InvParts
  <1>1. EntriesOK(cache', lastTick', OwnedKeys') /\ Owned' = Owned
    BY NowOK, OwnedSame, PurgeKeeps DEF Join, Misses
  <1>2. active[k] \in Owned /\ Owned \subseteq Flights
    BY DEF Join, LoadsOK, JoinsFreshLoad, Owned
  <1>3. wait' = [wait EXCEPT ![t] = active[k]] /\ UNCHANGED <<active, flight, stack>>
    BY DEF Join
  <1>4. wait' \in [Threads -> Flights \cup {None}] /\ WaitsForRunningLoad'
    BY <1>1, <1>2, <1>3 DEF LoadsOK, WaitsForRunningLoad
  <1>5. LoadsOK'
    BY <1>1, <1>3, <1>4 DEF LoadsOK, JoinsFreshLoad, FlightInv
  <1> QED BY <1>1, <1>5, NowOK, InvAfter DEF Join, Misses

(* A new flight is the only one of its key that was not superseded.        *)
LEMMA BeginStep ==
    ASSUME IInv, NEW t \in Threads, NEW k \in Keys, NEW ttl \in TTLs,
           NEW tick \in Ticks, BeginLoad(t, k, ttl, tick)
    PROVE  IInv'
  <1> USE InvParts
  <1> DEFINE f == <<t, k>>
             r == [owned |-> TRUE, epoch |-> epoch, version |-> cache'.versions[k],
                   ttl |-> ttl, superseded |-> FALSE, stale |-> FALSE]
  <1>1. /\ flight' = [flight EXCEPT ![f] = r]
        /\ active' = [active EXCEPT ![k] = f]
        /\ stack' = [stack EXCEPT ![t] = Append(@, k)]
        /\ active[k] = None
        /\ UNCHANGED <<epoch, wait>>
    BY DEF BeginLoad, MayBegin
  <1>2. EntriesOK(cache', lastTick', OwnedKeys) /\ lastTick' \in Nat
    BY NowOK, PurgeKeeps DEF BeginLoad, Misses
  <1>3. f \in Flights /\ f # None /\ f[1] = t /\ f[2] = k
    BY LoadAssumption DEF Flights
  <1>4. r \in FlightType /\ r.owned /\ r.ttl = ttl /\ ~r.superseded /\ ~r.stale
    BY <1>2, LoadAssumption DEF FlightType, EntriesOK, CacheType
  <1> HIDE DEF r, f
  <1>5. /\ flight' \in [Flights -> FlightType]
        /\ flight'[f] = r
        /\ \A g \in Flights \ {f} : flight'[g] = flight[g]
    BY <1>1, <1>3, <1>4 DEF LoadsOK
  <1>6. Owned' = Owned \cup {f} /\ Owned \subseteq Flights
    BY <1>3, <1>4, <1>5 DEF Owned
  <1>7. EntriesOK(cache', lastTick', OwnedKeys')
    BY <1>2, <1>6 DEF EntriesOK, NoSpareVersion, OwnedKeys
  <1>8. /\ active' \in [Keys -> Flights \cup {None}]
        /\ active'[k] = f
        /\ \A j \in Keys \ {k} : active'[j] = active[j]
    BY <1>1, <1>3 DEF LoadsOK
  <1>9. stack' \in [Threads -> Seq(Keys)]
    BY <1>1 DEF LoadsOK
  <1>10. JoinsFreshLoad'
    <2> SUFFICES ASSUME NEW j \in Keys, active'[j] # None
                 PROVE  /\ active'[j] \in Owned' /\ active'[j][2] = j
                        /\ ~flight'[active'[j]].superseded /\ ~flight'[active'[j]].stale
      BY DEF JoinsFreshLoad
    <2>1. CASE j = k
      BY <1>3, <1>4, <1>5, <1>6, <1>8, <2>1
    <2>2. CASE j # k
      <3>1. /\ active[j] \in Owned /\ active[j][2] = j
            /\ ~flight[active[j]].superseded /\ ~flight[active[j]].stale
        BY <1>8, <2>2 DEF LoadsOK, JoinsFreshLoad
      <3>2. active'[j] = active[j] /\ active[j] # f /\ active[j] \in Flights
        BY <1>3, <1>6, <1>8, <2>2, <3>1
      <3> QED BY <1>5, <1>6, <3>1, <3>2
    <2> QED BY <2>1, <2>2
  <1>11. WaitsForRunningLoad'
    BY <1>1, <1>6 DEF LoadsOK, WaitsForRunningLoad
  <1>12. FlightInv'
    <2> SUFFICES ASSUME NEW g \in Owned'
                 PROVE  /\ flight'[g].ttl \in TTLs
                        /\ flight'[g].superseded \/ active'[g[2]] = g
      BY DEF FlightInv
    <2>1. CASE g = f
      BY <1>3, <1>4, <1>5, <1>8, <2>1
    <2>2. CASE g # f
      <3>1. g \in Owned /\ g \in Flights /\ flight'[g] = flight[g] /\ g[2] \in Keys
        BY <1>5, <1>6, <2>2 DEF Flights
      <3>2. flight[g].ttl \in TTLs /\ (flight[g].superseded \/ active[g[2]] = g)
        BY <3>1 DEF LoadsOK, FlightInv
      <3>3. g # None
        BY <3>1, LoadAssumption DEF Flights
      <3> QED BY <1>1, <1>8, <3>1, <3>2, <3>3
    <2> QED BY <2>1, <2>2
  <1>13. LoadsOK'
    BY <1>1, <1>5, <1>8, <1>9, <1>10, <1>11, <1>12 DEF LoadsOK
  <1> QED BY <1>1, <1>2, <1>7, <1>13, InvAfter

(* A flight that ends wakes whoever waits for it and leaves the others.    *)
LEMMA FinishStep ==
    ASSUME IInv, NEW t \in Threads, NEW returns \in BOOLEAN, NEW clockOk \in BOOLEAN,
           NEW tick \in Ticks, FinishLoad(t, returns, clockOk, tick)
    PROVE  IInv'
  <1> USE InvParts
  <1> DEFINE k == Top(t)
             f == <<t, k>>
             publish == returns /\ CanPublish(f) /\ clockOk
             rest == {g[2] : g \in Owned \ {f}}
             stored == IF publish
                       THEN Store(cache, k, flight[f].ttl, Now(tick), OwnedKeys)
                       ELSE cache
  <1>1. /\ cache' = Drop(stored, k, rest)
        /\ lastTick' = IF publish THEN Now(tick) ELSE lastTick
        /\ active' = IF active[k] = f THEN [active EXCEPT ![k] = None] ELSE active
        /\ flight' = [flight EXCEPT ![f] = NoFlight]
        /\ wait' = [u \in Threads |-> IF wait[u] = f THEN None ELSE wait[u]]
        /\ stack' = [stack EXCEPT ![t] = SubSeq(@, 1, Len(@) - 1)]
        /\ UNCHANGED epoch
        /\ stack[t] # <<>>
    BY DEF FinishLoad, Wake
  <1>2. stack[t] \in Seq(Keys)
    BY DEF LoadsOK
  <1>3. k \in Keys /\ SubSeq(stack[t], 1, Len(stack[t]) - 1) \in Seq(Keys)
    BY <1>1, <1>2 DEF Top
  <1>4. stack' \in [Threads -> Seq(Keys)]
    BY <1>1, <1>3 DEF LoadsOK
  <1> HIDE DEF k
  <1>5. f \in Flights /\ f # None /\ f[2] = k
    BY <1>3, LoadAssumption DEF Flights
  <1>6. ASSUME CanPublish(f)
        PROVE  f \in Owned /\ flight[f].ttl \in Nat \ {0}
    <2>1. active[k] = f
      BY <1>5, <1>6 DEF CanPublish
    <2>2. f \in Owned
      BY <1>3, <1>5, <2>1 DEF LoadsOK, JoinsFreshLoad
    <2> QED BY <2>2, LoadAssumption DEF LoadsOK, FlightInv
  <1> HIDE DEF f
  <1>7. EntriesOK(stored, lastTick', OwnedKeys) /\ lastTick' \in Nat
    <2>1. CASE publish
      <3>1. EntriesOK(Store(cache, k, flight[f].ttl, Now(tick), OwnedKeys), Now(tick), OwnedKeys)
        BY <1>3, <1>6, <2>1, NowOK, StoreOK DEF EntriesOK
      <3> QED BY <1>1, <2>1, <3>1, NowOK
    <2>2. CASE ~publish
      BY <1>1, <2>2
    <2> QED BY <2>1, <2>2
  <1> HIDE DEF stored, publish, rest
  <1>8. /\ flight' \in [Flights -> FlightType]
        /\ ~flight'[f].owned
        /\ \A g \in Flights \ {f} : flight'[g] = flight[g]
    <2>1. NoFlight \in FlightType /\ ~NoFlight.owned
      BY DEF NoFlight, FlightType
    <2> QED BY <1>1, <1>5, <2>1 DEF LoadsOK
  <1>9. Owned' = Owned \ {f} /\ Owned \subseteq Flights
    BY <1>5, <1>8 DEF Owned
  <1>10. OwnedKeys' = rest /\ OwnedKeys \subseteq rest \cup {k}
    BY <1>5, <1>9 DEF OwnedKeys, rest
  <1>11. EntriesOK(cache', lastTick', OwnedKeys')
    <2>1. NoSpareVersion(stored, rest \cup {k})
      BY <1>7, <1>10 DEF EntriesOK, NoSpareVersion
    <2> QED BY <1>1, <1>3, <1>7, <1>10, <2>1, DropOK DEF EntriesOK
  <1>12. /\ active' \in [Keys -> Flights \cup {None}]
         /\ \A j \in Keys : active'[j] = IF active[j] = f /\ j = k THEN None ELSE active[j]
    BY <1>1, <1>3 DEF LoadsOK
  <1>13. JoinsFreshLoad'
    <2> SUFFICES ASSUME NEW j \in Keys, active'[j] # None
                 PROVE  /\ active'[j] \in Owned' /\ active'[j][2] = j
                        /\ ~flight'[active'[j]].superseded /\ ~flight'[active'[j]].stale
      BY DEF JoinsFreshLoad
    <2>1. active'[j] = active[j] /\ active[j] # None /\ ~(active[j] = f /\ j = k)
      BY <1>12
    <2>2. /\ active[j] \in Owned /\ active[j][2] = j
          /\ ~flight[active[j]].superseded /\ ~flight[active[j]].stale
      BY <2>1 DEF LoadsOK, JoinsFreshLoad
    <2>3. active[j] # f
      BY <1>5, <2>1, <2>2
    <2> QED BY <1>8, <1>9, <2>1, <2>2, <2>3
  <1>14. wait' \in [Threads -> Flights \cup {None}] /\ WaitsForRunningLoad'
    BY <1>1, <1>9 DEF LoadsOK, WaitsForRunningLoad
  <1>15. FlightInv'
    <2> SUFFICES ASSUME NEW g \in Owned'
                 PROVE  /\ flight'[g].ttl \in TTLs
                        /\ flight'[g].superseded \/ active'[g[2]] = g
      BY DEF FlightInv
    <2>1. g \in Owned /\ g # f /\ g \in Flights /\ flight'[g] = flight[g] /\ g[2] \in Keys
      BY <1>8, <1>9 DEF Flights
    <2>2. flight[g].ttl \in TTLs /\ (flight[g].superseded \/ active[g[2]] = g)
      BY <2>1 DEF LoadsOK, FlightInv
    <2> QED BY <1>12, <2>1, <2>2
  <1>16. LoadsOK'
    BY <1>4, <1>8, <1>12, <1>13, <1>14, <1>15 DEF LoadsOK
  <1> QED BY <1>1, <1>7, <1>11, <1>16, InvAfter

(* Every step keeps the invariant.                                         *)
LEMMA IInvStep ==
    ASSUME IInv, [Next]_vars
    PROVE  IInv'
  <1>1. ASSUME NEW tick \in Ticks, Read(tick) PROVE IInv'
    <2>1. UNCHANGED <<epoch, active, flight, loadVars>> /\ lastTick' = Now(tick)
      BY <1>1 DEF Read, Sweep, Get
    <2>2. \/ cache' = Purge(cache, Now(tick), OwnedKeys)
          \/ \E k \in Keys : cache' = Touch(Purge(cache, Now(tick), OwnedKeys), k)
      BY <1>1 DEF Read, Sweep, Get, Hit
    <2> QED BY <2>1, <2>2, ReadStep
  <1>2. ASSUME NEW t \in Threads, NEW tick \in Ticks, Load(t, tick) PROVE IInv'
    <2>1. ASSUME NEW k \in Keys, LoadHit(t, k, tick) PROVE IInv'
      BY <2>1, ReadStep DEF LoadHit
    <2>2. ASSUME NEW k \in Keys, Reject(t, k, tick) PROVE IInv'
      BY <2>2, ReadStep DEF Reject, Misses
    <2> QED BY <1>2, <2>1, <2>2, JoinStep, BeginStep DEF Load
  <1>3. ASSUME NEW t \in Threads, NEW tick \in Ticks, Finish(t, tick) PROVE IInv'
    BY <1>3, FinishStep DEF Finish
  <1>4. CASE UNCHANGED vars
    BY <1>4 DEF vars, loadVars, IInv, TypeOK, NoExpiredEntry, NoVersionLeak, JoinsFreshLoad,
                WaitsForRunningLoad, FlightInv, Owned, OwnedKeys
  <1> QED BY <1>1, <1>2, <1>3, <1>4, WriteStep DEF Next

(* The invariant holds at the start.                                       *)
LEMMA IInvInit == Init => IInv
  <1> SUFFICES ASSUME Init PROVE IInv
    OBVIOUS
  <1>1. Owned = {}
    BY DEF Init, Owned, NoFlight
  <1>2. EntriesOK(cache, lastTick, OwnedKeys)
    BY EmptyCacheOK DEF Init, EntriesOK
  <1>3. NoFlight \in FlightType
    BY DEF NoFlight, FlightType
  <1>4. LoadsOK
    BY <1>1, <1>3 DEF Init, LoadsOK, JoinsFreshLoad, WaitsForRunningLoad, FlightInv
  <1> QED BY <1>2, <1>4, InvParts DEF Init

-----------------------------------------------------------------------------
(* The inductive invariant holds in every state of the cache.              *)
THEOREM Invariance == Spec => []IInv
  <1>1. IInv /\ [Next]_vars => IInv'
    BY IInvStep
  <1> QED BY <1>1, IInvInit, PTL DEF Spec

(* The variables keep their types: the entries, the heap, the flights and  *)
(* the stacks of loaders stay within what the code handles.                *)
THEOREM TypeCorrect == Spec => []TypeOK
  <1>1. IInv => TypeOK
    BY DEF IInv
  <1> QED BY <1>1, Invariance, PTL

(* An entry that is there has not expired, whatever was evicted,           *)
(* overwritten or rebuilt before: purge_expired finds its heap node.       *)
THEOREM ExpiryCorrect == Spec => []NoExpiredEntry
  <1>1. IInv => NoExpiredEntry
    BY DEF IInv
  <1> QED BY <1>1, Invariance, PTL

(* drop_unused_version leaves no version behind for a key that has neither *)
(* an entry nor a running load.                                            *)
THEOREM VersionsDropped == Spec => []NoVersionLeak
  <1>1. IInv => NoVersionLeak
    BY DEF IInv
  <1> QED BY <1>1, Invariance, PTL

(* get_or_load joins only a load that began after the last set, invalidate *)
(* or clear of its key.                                                    *)
THEOREM JoinCorrect == Spec => []JoinsFreshLoad
  <1>1. IInv => JoinsFreshLoad
    BY DEF IInv
  <1> QED BY <1>1, Invariance, PTL

(* A thread waits only for a load that still runs, so _finish_flight will  *)
(* notify it.                                                              *)
THEOREM NoLostWakeup == Spec => []WaitsForRunningLoad
  <1>1. IInv => WaitsForRunningLoad
    BY DEF IInv
  <1> QED BY <1>1, Invariance, PTL

(* Of the loads of a key that run at once, all but one were superseded.    *)
THEOREM SingleFlightCorrect == Spec => []SingleFlight
  <1>1. IInv => SingleFlight
    BY DEF IInv, FlightInv, SingleFlight
  <1> QED BY <1>1, Invariance, PTL

(* A load that began before its key was written, invalidated or cleared    *)
(* ends without touching an entry or the heap.                             *)
THEOREM StaleLoadsHarmless == Spec => StaleLoadsPublishNothing
  <1>1. ASSUME IInv, [Next]_vars
        PROVE  [\A f \in Owned : flight[f].stale /\ ~flight'[f].owned =>
                   cache'.entry = cache.entry /\ cache'.heap = cache.heap]_vars
    <2> SUFFICES ASSUME NEW f \in Owned, flight[f].stale, ~flight'[f].owned
                 PROVE  cache'.entry = cache.entry /\ cache'.heap = cache.heap
      OBVIOUS
    <2>1. f \in Flights /\ flight[f].owned
      BY DEF Owned
    <2>2. LoadsOK /\ CacheType(cache)
      BY <1>1, InvParts DEF EntriesOK
    <2>3. ASSUME NEW K, NEW S, flight' = Marked(K, S) PROVE FALSE
      BY <2>1, <2>2, <2>3, MarkedOK DEF LoadsOK, Owned
    <2>4. ASSUME UNCHANGED flight PROVE FALSE
      BY <2>1, <2>4
    <2>5. ASSUME NEW t \in Threads, NEW k \in Keys, NEW ttl \in TTLs, NEW tick \in Ticks,
                 BeginLoad(t, k, ttl, tick)
          PROVE  FALSE
      <3>1. <<t, k>> \in Flights
        BY DEF Flights
      <3> QED BY <2>1, <2>2, <2>5, <3>1 DEF BeginLoad, LoadsOK
    <2>6. ASSUME NEW t \in Threads, NEW returns \in BOOLEAN, NEW clockOk \in BOOLEAN,
                 NEW tick \in Ticks, FinishLoad(t, returns, clockOk, tick)
          PROVE  cache'.entry = cache.entry /\ cache'.heap = cache.heap
      <3> DEFINE k == Top(t)
                 g == <<t, k>>
      <3>1. k \in Keys
        BY <2>2, <2>6 DEF Top, LoadsOK, FinishLoad
      <3>2. f = g
        BY <2>1, <2>2, <2>6 DEF FinishLoad, LoadsOK
      <3>3. ~CanPublish(g)
        <4>1. g[2] = k /\ g # None
          BY <3>1, LoadAssumption DEF Flights
        <4>2. active[k] = g => ~flight[g].stale
          BY <2>2, <3>1, <4>1 DEF LoadsOK, JoinsFreshLoad
        <4> QED BY <3>2, <4>1, <4>2 DEF CanPublish
      <3>4. \E owned : cache' = Drop(cache, k, owned)
        BY <2>6, <3>3 DEF FinishLoad
      <3> HIDE DEF k
      <3>5. PICK owned : cache' = Drop(cache, k, owned)
        BY <3>4
      <3>6. /\ Drop(cache, k, owned).entry = cache.entry
            /\ Drop(cache, k, owned).heap = cache.heap
        BY <2>2, <3>1, DropOK
      <3> QED BY <3>5, <3>6
    <2>7. flight' = flight
          \/ (\E K, S : flight' = Marked(K, S))
          \/ (\E t \in Threads, k \in Keys, ttl \in TTLs, tick \in Ticks :
                 BeginLoad(t, k, ttl, tick))
          \/ (\E t \in Threads, returns, clockOk \in BOOLEAN, tick \in Ticks :
                 FinishLoad(t, returns, clockOk, tick))
      BY <1>1 DEF Next, Read, Write, Load, Finish, Get, Sweep, Set, SetFails, Invalidate,
                  Clear, Supersede, LoadHit, Join, Reject, vars
    <2> QED BY <2>3, <2>4, <2>5, <2>6, <2>7
  <1> QED BY <1>1, Invariance, PTL DEF Spec, StaleLoadsPublishNothing

-----------------------------------------------------------------------------
(* The limits of entries, heap nodes and loads                             *)

\* Entries, heap nodes and running loads are within their limits, and the
\* order of use always has a first key to evict.
LimitInv ==
    /\ Within(cache)
    /\ IsFiniteSet(Owned)
    /\ Cardinality(Owned) <= MaxInflight

(* Of all steps only BeginLoad adds a load, and it looks at the limit.     *)
LEMMA LoadsLimited ==
    ASSUME IInv, [Next]_vars, IsFiniteSet(Owned), Cardinality(Owned) <= MaxInflight
    PROVE  IsFiniteSet(Owned') /\ Cardinality(Owned') <= MaxInflight
  <1>1. flight \in [Flights -> FlightType]
    BY InvParts DEF LoadsOK
  <1>2. Cardinality(Owned) \in Nat
    BY FS_CardinalityType
  <1>3. ASSUME Owned' \subseteq Owned
        PROVE  IsFiniteSet(Owned') /\ Cardinality(Owned') <= MaxInflight
    <2>1. IsFiniteSet(Owned') /\ Cardinality(Owned') <= Cardinality(Owned)
      BY <1>3, FS_Subset
    <2> QED BY <1>2, <2>1, FS_CardinalityType, LoadAssumption
  <1>4. ASSUME NEW K, NEW S, flight' = Marked(K, S) PROVE Owned' \subseteq Owned
    BY <1>1, <1>4, MarkedOK
  <1>5. ASSUME NEW t \in Threads, NEW k \in Keys, NEW ttl \in TTLs, NEW tick \in Ticks,
               BeginLoad(t, k, ttl, tick)
        PROVE  IsFiniteSet(Owned') /\ Cardinality(Owned') <= MaxInflight
    <2>1. Owned' \subseteq Owned \cup {<<t, k>>}
      BY <1>1, <1>5 DEF BeginLoad, Owned
    <2>2. Cardinality(Owned) < MaxInflight
      BY <1>5 DEF BeginLoad, MayBegin
    <2>3. /\ IsFiniteSet(Owned \cup {<<t, k>>})
          /\ \/ Cardinality(Owned \cup {<<t, k>>}) = Cardinality(Owned)
             \/ Cardinality(Owned \cup {<<t, k>>}) = Cardinality(Owned) + 1
      BY FS_AddElement
    <2>4. IsFiniteSet(Owned') /\ Cardinality(Owned') <= Cardinality(Owned \cup {<<t, k>>})
      BY <2>1, <2>3, FS_Subset
    <2>5. Cardinality(Owned') \in Nat
      BY <2>4, FS_CardinalityType
    <2> QED BY <1>2, <2>2, <2>3, <2>4, <2>5, LoadAssumption
  <1>6. ASSUME NEW t \in Threads, NEW returns \in BOOLEAN, NEW clockOk \in BOOLEAN,
               NEW tick \in Ticks, FinishLoad(t, returns, clockOk, tick)
        PROVE  Owned' \subseteq Owned
    <2>1. flight' = [flight EXCEPT ![<<t, Top(t)>>] = NoFlight] /\ ~NoFlight.owned
      BY <1>6 DEF FinishLoad, NoFlight
    <2> QED BY <1>1, <2>1 DEF Owned
  <1>7. \/ flight' = flight
        \/ \E K, S : flight' = Marked(K, S)
        \/ \E t \in Threads, k \in Keys, ttl \in TTLs, tick \in Ticks : BeginLoad(t, k, ttl, tick)
        \/ \E t \in Threads, returns, clockOk \in BOOLEAN, tick \in Ticks :
              FinishLoad(t, returns, clockOk, tick)
    BY DEF Next, Read, Write, Load, Finish, Get, Sweep, Set, SetFails, Invalidate,
           Clear, Supersede, LoadHit, Join, Reject, vars
  <1> QED BY <1>3, <1>4, <1>5, <1>6, <1>7, OwnedSame

(* Whatever an operation does to the entries, it leaves them within the    *)
(* capacity.                                                               *)
LEMMA EntriesLimited ==
    ASSUME IInv, [Next]_vars, Within(cache)
    PROVE  Within(cache')
  <1>1. CacheType(cache) /\ HasNodes(cache) /\ lastTick \in Nat /\ LoadsOK
    BY InvParts DEF EntriesOK
  <1>2. ASSUME NEW tick \in Ticks
        PROVE  /\ Now(tick) \in Nat
               /\ CacheType(Purge(cache, Now(tick), OwnedKeys))
               /\ Within(Purge(cache, Now(tick), OwnedKeys))
    BY <1>1, NowOK, PurgeOK, PurgeWithin
  <1>3. ASSUME NEW tick \in Ticks, NEW k \in Keys
        PROVE  Within(Touch(Purge(cache, Now(tick), OwnedKeys), k))
    BY <1>2, TouchWithin
  <1>4. ASSUME NEW tick \in Ticks, Read(tick) PROVE Within(cache')
    BY <1>2, <1>3, <1>4 DEF Read, Sweep, Get, Hit
  <1>5. ASSUME NEW tick \in Ticks, Write(tick) PROVE Within(cache')
    <2>1. ASSUME NEW k \in Keys, NEW ttl \in TTLs, Set(k, ttl, tick) PROVE Within(cache')
      BY <1>1, <1>2, <2>1, StoreWithin, LoadAssumption DEF Set
    <2>2. ASSUME NEW k \in Keys, Invalidate(k, tick) PROVE Within(cache')
      BY <1>1, <1>2, <2>2, InvalidatedWithin DEF Invalidate
    <2>3. ASSUME Clear(tick) PROVE Within(cache')
      BY <1>1, <2>3, ClearedWithin DEF Clear
    <2> QED BY <1>5, <2>1, <2>2, <2>3 DEF Write
  <1>6. ASSUME NEW t \in Threads, NEW tick \in Ticks, Load(t, tick) PROVE Within(cache')
    BY <1>2, <1>3, <1>6 DEF Load, LoadHit, Join, Reject, BeginLoad, Misses
  <1>7. ASSUME NEW t \in Threads, NEW returns \in BOOLEAN, NEW clockOk \in BOOLEAN,
               NEW tick \in Ticks, FinishLoad(t, returns, clockOk, tick)
        PROVE  Within(cache')
    <2> DEFINE k == Top(t)
               f == <<t, k>>
    <2>1. k \in Keys
      BY <1>1, <1>7 DEF Top, LoadsOK, FinishLoad
    <2>2. \E owned : \/ cache' = Drop(cache, k, owned)
                     \/ /\ CanPublish(f)
                        /\ cache' = Drop(Store(cache, k, flight[f].ttl, Now(tick), OwnedKeys),
                                         k, owned)
      BY <1>7 DEF FinishLoad
    <2> HIDE DEF k
    <2>3. ASSUME CanPublish(f) PROVE flight[f].ttl \in Nat \ {0}
      <3>1. f[2] = k /\ f # None /\ active[k] = f
        BY <2>1, <2>3, LoadAssumption DEF CanPublish
      <3> QED BY <1>1, <2>1, <3>1, LoadAssumption DEF LoadsOK, JoinsFreshLoad, FlightInv
    <2>4. ASSUME CanPublish(f)
          PROVE  /\ CacheType(Store(cache, k, flight[f].ttl, Now(tick), OwnedKeys))
                 /\ HasNodes(Store(cache, k, flight[f].ttl, Now(tick), OwnedKeys))
                 /\ Within(Store(cache, k, flight[f].ttl, Now(tick), OwnedKeys))
      BY <1>1, <1>2, <2>1, <2>3, <2>4, StoreOK, StoreWithin
    <2> QED BY <1>1, <2>1, <2>2, <2>4, DropWithin
  <1>8. ASSUME NEW k \in Keys, SetFails(k) PROVE Within(cache')
    BY <1>8 DEF SetFails
  <1> QED BY <1>4, <1>5, <1>6, <1>7, <1>8 DEF Next, Finish, vars

(* The limits hold in every state.                                         *)
LEMMA LimitsKept == Spec => []LimitInv
  <1>1. Init => LimitInv
    <2> SUFFICES ASSUME Init PROVE LimitInv
      OBVIOUS
    <2>1. Owned = {}
      BY DEF Init, Owned, NoFlight
    <2> QED BY <2>1, EmptyWithin, FS_EmptySet, LoadAssumption DEF Init, LimitInv
  <1>2. IInv /\ LimitInv /\ [Next]_vars => LimitInv'
    BY LoadsLimited, EntriesLimited DEF LimitInv
  <1> QED BY <1>1, <1>2, Invariance, PTL DEF Spec

(* The cache never holds more than max_size entries, its expiry heap never *)
(* more than twice as many nodes, and no more than max_inflight loads run, *)
(* superseded ones included.  The eviction relies on the order of use      *)
(* having a first key whatever hits, overwrites, expiries and evictions    *)
(* came before, and the heap on rebuild_expiry_heap leaving one node for   *)
(* each entry.                                                             *)
THEOREM BoundedCorrect == Spec => []Bounded
  <1>1. LimitInv => Bounded
    BY DEF LimitInv, Within, Bounded
  <1> QED BY <1>1, LimitsKept, PTL

-----------------------------------------------------------------------------
(* Threads that wait for each other                                        *)

\* The loads of t are those of its stack, each begun by the loader below it,
\* and the load it waits for was asked for by its innermost loader.
StackOK(t) ==
    /\ \A i \in 1 .. Len(stack[t]) : <<t, stack[t][i]>> \in Owned
    /\ \A i, j \in 1 .. Len(stack[t]) : stack[t][i] = stack[t][j] => i = j
    /\ \A k \in Keys : <<t, k>> \in Owned => \E i \in 1 .. Len(stack[t]) : stack[t][i] = k
    /\ \A i \in 1 .. Len(stack[t]) : i < Len(stack[t]) =>
          <<stack[t][i], stack[t][i + 1]>> \in Nested
    /\ wait[t] # None /\ stack[t] # <<>> =>
          <<Top(t), wait[t][2]>> \in Nested /\ Top(t) # wait[t][2]

StackInv == \A t \in Threads : StackOK(t)

(* What a thread that neither begins nor ends a load relies on is left     *)
(* alone by every other thread.                                            *)
LEMMA StackSame ==
    ASSUME NEW t \in Threads, StackOK(t), stack'[t] = stack[t], wait'[t] \in {wait[t], None},
           \A k \in Keys : <<t, k>> \in Owned' <=> <<t, k>> \in Owned,
           stack[t] \in Seq(Keys)
    PROVE  StackOK(t)'
  <1>1. \A i \in 1 .. Len(stack[t]) : stack[t][i] \in Keys
    OBVIOUS
  <1>2. Top(t)' = Top(t)
    BY DEF Top
  <1> QED BY <1>1, <1>2 DEF StackOK

(* A nested load goes on top: its key is none of the keys below.           *)
LEMMA StackBegin ==
    ASSUME IInv, StackInv, NEW t \in Threads, NEW k \in Keys, NEW ttl \in TTLs,
           NEW tick \in Ticks, BeginLoad(t, k, ttl, tick)
    PROVE  StackInv'
  <1>1. stack \in [Threads -> Seq(Keys)] /\ flight \in [Flights -> FlightType]
    BY InvParts DEF LoadsOK
  <1>2. /\ stack' = [stack EXCEPT ![t] = Append(@, k)] /\ UNCHANGED wait
        /\ wait[t] = None /\ <<t, k>> \notin Owned
        /\ stack[t] # <<>> => <<Top(t), k>> \in Nested
    BY DEF BeginLoad, Misses, MayLoad, Owned
  <1>3. Owned' = Owned \cup {<<t, k>>}
    BY <1>1 DEF BeginLoad, Owned, Flights
  <1>4. ASSUME NEW u \in Threads, u # t PROVE StackOK(u)'
    BY <1>1, <1>2, <1>3, <1>4, StackSame DEF StackInv
  <1>5. StackOK(t)'
    <2> DEFINE s == stack[t]
               r == Append(s, k)
    <2>1. /\ s \in Seq(Keys) /\ stack'[t] = r /\ Len(s) \in Nat
          /\ Len(r) = Len(s) + 1 /\ r[Len(s) + 1] = k
          /\ \A i \in 1 .. Len(s) : r[i] = s[i] /\ s[i] \in Keys
      BY <1>1, <1>2
    <2>2. /\ \A i \in 1 .. Len(s) : <<t, s[i]>> \in Owned
          /\ \A i, j \in 1 .. Len(s) : s[i] = s[j] => i = j
          /\ \A j \in Keys : <<t, j>> \in Owned => \E i \in 1 .. Len(s) : s[i] = j
          /\ \A i \in 1 .. Len(s) : i < Len(s) => <<s[i], s[i + 1]>> \in Nested
      BY DEF StackInv, StackOK
    <2>3. Len(s) > 0 => <<s[Len(s)], k>> \in Nested
      BY <1>2, <2>1 DEF Top
    <2> HIDE DEF s, r
    <2>4. \A i \in 1 .. Len(s) : s[i] # k
      BY <1>2, <2>2
    <2>5. \A i \in 1 .. Len(r) : i \in 1 .. Len(s) \/ i = Len(s) + 1
      BY <2>1
    <2>6. \A i \in 1 .. Len(r) : <<t, r[i]>> \in Owned'
      BY <1>3, <2>1, <2>2, <2>5
    <2>7. \A i, j \in 1 .. Len(r) : r[i] = r[j] => i = j
      BY <2>1, <2>2, <2>4, <2>5
    <2>8. \A j \in Keys : <<t, j>> \in Owned' => \E i \in 1 .. Len(r) : r[i] = j
      BY <1>3, <2>1, <2>2
    <2>9. \A i \in 1 .. Len(r) : i < Len(r) => <<r[i], r[i + 1]>> \in Nested
      <3> SUFFICES ASSUME NEW i \in 1 .. Len(r), i < Len(r) PROVE <<r[i], r[i + 1]>> \in Nested
        OBVIOUS
      <3>1. i \in 1 .. Len(s) BY <2>1
      <3>2. CASE i = Len(s) BY <2>1, <2>3, <3>1, <3>2
      <3>3. CASE i # Len(s)
        <4>1. i < Len(s) /\ i + 1 \in 1 .. Len(s) BY <2>1, <3>1, <3>3
        <4> QED BY <2>1, <2>2, <3>1, <4>1
      <3> QED BY <3>2, <3>3
    <2>10. wait'[t] = None /\ stack'[t] = r
      BY <1>2, <2>1
    <2> QED BY <2>6, <2>7, <2>8, <2>9, <2>10 DEF StackOK
  <1> QED BY <1>4, <1>5 DEF StackInv

(* The innermost load ends first, and the thread does not wait then.       *)
LEMMA StackFinish ==
    ASSUME IInv, StackInv, NEW t \in Threads, NEW returns \in BOOLEAN,
           NEW clockOk \in BOOLEAN, NEW tick \in Ticks, FinishLoad(t, returns, clockOk, tick)
    PROVE  StackInv'
  <1>1. stack \in [Threads -> Seq(Keys)] /\ flight \in [Flights -> FlightType]
    BY InvParts DEF LoadsOK
  <1> DEFINE s == stack[t]
             r == SubSeq(s, 1, Len(s) - 1)
             k == Top(t)
  <1>2. /\ stack' = [stack EXCEPT ![t] = r]
        /\ flight' = [flight EXCEPT ![<<t, k>>] = NoFlight]
        /\ wait' = [u \in Threads |-> IF wait[u] = <<t, k>> THEN None ELSE wait[u]]
        /\ wait[t] = None /\ s # <<>>
    BY DEF FinishLoad, Wake
  <1>3. /\ s \in Seq(Keys) /\ Len(s) \in Nat /\ Len(s) > 0 /\ k = s[Len(s)]
        /\ Len(r) = Len(s) - 1 /\ \A i \in 1 .. Len(r) : r[i] = s[i]
        /\ stack'[t] = r /\ \A i \in 1 .. Len(s) : s[i] \in Keys
    <2>1. s \in Seq(Keys) /\ Len(s) \in Nat /\ Len(s) > 0 /\ stack'[t] = r
      BY <1>1, <1>2
    <2>2. k = s[Len(s)]
      BY DEF Top
    <2> HIDE DEF s, k
    <2>3. /\ 1 \in Int /\ Len(s) - 1 \in Int /\ Len(s) - 1 \in Nat
          /\ \A i \in 1 .. Len(s) - 1 : s[i] \in Keys
      BY <2>1
    <2>4. /\ Len(r) = IF 1 <= Len(s) - 1 THEN (Len(s) - 1) - 1 + 1 ELSE 0
          /\ \A i \in 1 .. (Len(s) - 1) - 1 + 1 : r[i] = s[1 + i - 1]
      BY <2>3, SubSeqProperties
    <2> HIDE DEF r
    <2> DEFINE n == Len(s)
    <2>5. Len(r) = Len(s) - 1
      <3>1. n \in Nat /\ n > 0 /\ Len(r) = IF 1 <= n - 1 THEN (n - 1) - 1 + 1 ELSE 0
        BY <2>1, <2>4
      <3> HIDE DEF n
      <3>2. Len(r) = n - 1
        BY <3>1
      <3> QED BY <3>2 DEF n
    <2>6. ASSUME NEW i \in 1 .. Len(s) - 1 PROVE r[i] = s[i]
      <3>1. i \in 1 .. (Len(s) - 1) - 1 + 1 /\ 1 + i - 1 = i
        BY <2>1
      <3> QED BY <2>4, <3>1
    <2> QED BY <2>1, <2>2, <2>5, <2>6
  <1>4. Owned' = Owned \ {<<t, k>>}
    BY <1>1, <1>2, <1>3 DEF Owned, Flights, NoFlight
  <1>5. ASSUME NEW u \in Threads, u # t PROVE StackOK(u)'
    BY <1>1, <1>2, <1>4, <1>5, StackSame DEF StackInv
  <1>6. StackOK(t)'
    <2>1. /\ \A i \in 1 .. Len(s) : <<t, s[i]>> \in Owned
          /\ \A i, j \in 1 .. Len(s) : s[i] = s[j] => i = j
          /\ \A j \in Keys : <<t, j>> \in Owned => \E i \in 1 .. Len(s) : s[i] = j
          /\ \A i \in 1 .. Len(s) : i < Len(s) => <<s[i], s[i + 1]>> \in Nested
      BY DEF StackInv, StackOK
    <2>2. wait'[t] = None
      BY <1>2
    <2> HIDE DEF s, r, k
    <2>3. \A i \in 1 .. Len(s) : (i \in 1 .. Len(r) <=> i # Len(s)) /\ (i # Len(s) => s[i] # k)
      BY <1>3, <2>1
    <2>4. \A i \in 1 .. Len(r) : i \in 1 .. Len(s) /\ i # Len(s)
      BY <1>3
    <2>5. \A i \in 1 .. Len(r) : <<t, r[i]>> \in Owned'
      BY <1>3, <1>4, <2>1, <2>3, <2>4
    <2>6. \A i, j \in 1 .. Len(r) : r[i] = r[j] => i = j
      BY <1>3, <2>1, <2>4
    <2>7. \A j \in Keys : <<t, j>> \in Owned' => \E i \in 1 .. Len(r) : r[i] = j
      <3> SUFFICES ASSUME NEW j \in Keys, <<t, j>> \in Owned'
                   PROVE  \E i \in 1 .. Len(r) : r[i] = j
        OBVIOUS
      <3>1. PICK i \in 1 .. Len(s) : s[i] = j BY <1>4, <2>1
      <3>2. i # Len(s) BY <1>3, <1>4, <3>1
      <3> QED BY <1>3, <2>3, <3>1, <3>2
    <2>8. \A i \in 1 .. Len(r) : i < Len(r) => <<r[i], r[i + 1]>> \in Nested
      <3> SUFFICES ASSUME NEW i \in 1 .. Len(r), i < Len(r) PROVE <<r[i], r[i + 1]>> \in Nested
        OBVIOUS
      <3>1. i + 1 \in 1 .. Len(r) /\ i \in 1 .. Len(s) /\ i < Len(s) BY <1>3
      <3> QED BY <1>3, <2>1, <3>1
    <2> QED BY <1>3, <2>2, <2>5, <2>6, <2>7, <2>8 DEF StackOK
  <1> QED BY <1>5, <1>6 DEF StackInv

(* A thread that joins a load asked for it with its innermost loader, for  *)
(* a key that it is not loading itself.                                    *)
LEMMA StackJoin ==
    ASSUME IInv, StackInv, NEW t \in Threads, NEW k \in Keys, NEW tick \in Ticks,
           Join(t, k, tick)
    PROVE  StackInv'
  <1>1. LoadsOK
    BY InvParts
  <1>2. /\ wait' = [wait EXCEPT ![t] = active[k]] /\ UNCHANGED <<flight, stack>>
        /\ active[k] # None /\ <<t, k>> \notin Owned
        /\ stack[t] # <<>> => <<Top(t), k>> \in Nested
    BY DEF Join, Misses, MayLoad, Owned
  <1>3. Owned' = Owned
    BY <1>2, OwnedSame
  <1>4. active[k][2] = k /\ wait'[t] = active[k]
    BY <1>1, <1>2 DEF LoadsOK, JoinsFreshLoad
  <1>5. ASSUME NEW u \in Threads, u # t PROVE StackOK(u)'
    BY <1>1, <1>2, <1>3, <1>5, StackSame DEF StackInv, LoadsOK
  <1>6. StackOK(t)'
    <2>1. StackOK(t) /\ stack'[t] = stack[t] /\ Top(t)' = Top(t) /\ stack[t] \in Seq(Keys)
      BY <1>1, <1>2 DEF StackInv, Top, LoadsOK
    <2>2. ASSUME stack[t] # <<>> PROVE <<Top(t), k>> \in Nested /\ Top(t) # k
      <3>1. Len(stack[t]) \in 1 .. Len(stack[t])
        BY <2>1, <2>2
      <3>2. <<t, Top(t)>> \in Owned
        BY <2>1, <3>1 DEF StackOK, Top
      <3> QED BY <1>2, <2>2, <3>2
    <2> QED BY <1>3, <1>4, <2>1, <2>2 DEF StackOK
  <1> QED BY <1>5, <1>6 DEF StackInv

(* Every step keeps the stacks in order.                                   *)
LEMMA StackStep ==
    ASSUME IInv, StackInv, [Next]_vars
    PROVE  StackInv'
  <1>1. LoadsOK
    BY InvParts
  <1>2. ASSUME Owned' = Owned, UNCHANGED loadVars PROVE StackInv'
    <2> SUFFICES ASSUME NEW t \in Threads PROVE StackOK(t)'
      BY DEF StackInv
    <2> QED BY <1>1, <1>2, StackSame DEF StackInv, loadVars, LoadsOK
  <1>3. ASSUME NEW K, NEW S, flight' = Marked(K, S), UNCHANGED loadVars PROVE StackInv'
    BY <1>1, <1>2, <1>3, MarkedOK DEF LoadsOK
  <1>4. ASSUME UNCHANGED <<flight, loadVars>> PROVE StackInv'
    BY <1>2, <1>4, OwnedSame
  <1>5. \/ UNCHANGED <<flight, loadVars>>
        \/ \E K, S : flight' = Marked(K, S) /\ UNCHANGED loadVars
        \/ \E t \in Threads, k \in Keys, tick \in Ticks : Join(t, k, tick)
        \/ \E t \in Threads, k \in Keys, ttl \in TTLs, tick \in Ticks : BeginLoad(t, k, ttl, tick)
        \/ \E t \in Threads, returns, clockOk \in BOOLEAN, tick \in Ticks :
              FinishLoad(t, returns, clockOk, tick)
    BY DEF Next, Read, Write, Load, Finish, Get, Sweep, Set, SetFails, Invalidate,
           Clear, Supersede, LoadHit, Reject, vars, loadVars
  <1> QED BY <1>3, <1>4, <1>5, StackJoin, StackBegin, StackFinish

\* Pairs <<k, j>> of different keys: the loader of j may load k.
Inner == {p \in Keys \X Keys : p[1] # p[2] /\ <<p[2], p[1]>> \in Nested}

(* Were there threads that wait for each other in a circle, the keys of    *)
(* their loaders would have no innermost one.                              *)
LEMMA NoCircle ==
    ASSUME IInv, StackInv, IsWellFoundedOn(Inner, Keys)
    PROVE  NoCircularWait
  <1> SUFFICES ASSUME NEW S \in SUBSET Threads, S # {},
                      \A t \in S : wait[t] # None /\ wait[t][1] \in S
               PROVE  FALSE
    BY DEF NoCircularWait
  <1> DEFINE T == {k \in Keys : \E t \in S : \E i \in 1 .. Len(stack[t]) : stack[t][i] = k}
  <1>1. LoadsOK
    BY InvParts
  <1>2. /\ \A t \in S : stack[t] \in Seq(Keys) /\ Len(stack[t]) \in Nat
        /\ \A t \in S : \A i \in 1 .. Len(stack[t]) : stack[t][i] \in Keys
        /\ \A t \in S : StackOK(t)
    <2>1. \A t \in S : stack[t] \in Seq(Keys)
      BY <1>1 DEF LoadsOK
    <2>2. \A t \in S : StackOK(t)
      BY DEF StackInv
    <2> QED BY <2>1, <2>2
  <1>3. ASSUME NEW t \in S PROVE wait[t][2] \in T
    <2>1. wait[t] \in Owned /\ wait[t] = <<wait[t][1], wait[t][2]>> /\ wait[t][2] \in Keys
      BY <1>1 DEF LoadsOK, WaitsForRunningLoad, Owned, Flights
    <2>2. StackOK(wait[t][1])
      BY <1>2
    <2>3. \E i \in 1 .. Len(stack[wait[t][1]]) : stack[wait[t][1]][i] = wait[t][2]
      BY <2>1, <2>2 DEF StackOK
    <2> QED BY <2>1, <2>3
  <1>4. ASSUME NEW k \in T PROVE \E y \in T : <<y, k>> \in Inner
    <2>1. PICK t \in S : \E i \in 1 .. Len(stack[t]) : stack[t][i] = k
      OBVIOUS
    <2>2. PICK i \in 1 .. Len(stack[t]) : stack[t][i] = k
      BY <2>1
    <2>3. CASE i < Len(stack[t])
      <3>1. i + 1 \in 1 .. Len(stack[t]) /\ i + 1 # i
        BY <1>2, <2>3
      <3>2. stack[t][i + 1] \in T
        BY <1>2, <3>1
      <3>3. <<k, stack[t][i + 1]>> \in Nested /\ stack[t][i + 1] # k
        BY <1>2, <2>2, <2>3, <3>1 DEF StackOK
      <3> QED BY <3>2, <3>3 DEF Inner
    <2>4. CASE ~(i < Len(stack[t]))
      <3>1. i = Len(stack[t]) /\ stack[t] # <<>>
        BY <1>2, <2>4
      <3>2. Top(t) = k
        BY <2>2, <3>1 DEF Top
      <3>3. <<k, wait[t][2]>> \in Nested /\ k # wait[t][2]
        BY <1>2, <3>1, <3>2 DEF StackOK
      <3> QED BY <1>3, <3>3 DEF Inner
    <2> QED BY <2>3, <2>4
  <1>5. T # {} /\ T \subseteq Keys
    BY <1>3
  <1> HIDE DEF T
  <1>6. \E k \in T : \A y \in T : ~(<<y, k>> \in Inner)
    BY <1>5, WFMin
  <1> QED BY <1>4, <1>6

(* Stacks and flights agree in every state.                                *)
LEMMA StacksKept == Spec => []StackInv
  <1>1. Init => StackInv
    BY DEF Init, StackInv, StackOK, Owned, NoFlight
  <1>2. IInv /\ StackInv /\ [Next]_vars => StackInv'
    BY StackStep
  <1> QED BY <1>1, <1>2, Invariance, PTL DEF Spec

(* When no loaders of different keys load in a cycle, no threads wait for  *)
(* each other: some thread of every group runs, or waits for one outside   *)
(* the group.  That a loader asks for its own key again does not matter:   *)
(* get_or_load raises RecursiveLoadError.                                  *)
THEOREM DeadlockFree ==
    ASSUME IsWellFoundedOn(Inner, Keys)
    PROVE  Spec => []NoCircularWait
  <1>1. IInv /\ StackInv => NoCircularWait
    BY NoCircle
  <1> QED BY <1>1, Invariance, StacksKept, PTL

-----------------------------------------------------------------------------
(* The order of use and what an eviction spares                            *)

(* A load that is published has the lifetime its caller chose.             *)
LEMMA PublishedTtl ==
    ASSUME IInv, NEW t \in Threads, NEW k \in Keys, CanPublish(<<t, k>>)
    PROVE  flight[<<t, k>>].ttl \in Nat \ {0}
  <1>1. LoadsOK
    BY InvParts
  <1>2. active[k] = <<t, k>> /\ <<t, k>> # None
    BY LoadAssumption DEF CanPublish
  <1> QED BY <1>1, <1>2, LoadAssumption DEF LoadsOK, JoinsFreshLoad, FlightInv

(* store(), called by set() or for a loaded value, leaves its key in the   *)
(* cache and the entries in their order.                                   *)
LEMMA StoredOrdered ==
    ASSUME IInv, Within(cache), Ordered(cache), NEW k \in Keys, NEW ttl \in Nat \ {0},
           NEW tick \in Ticks
    PROVE  LET s == Store(cache, k, ttl, Now(tick), OwnedKeys)
           IN  /\ CacheType(s) /\ Ordered(s) /\ k \in Present(s)
               /\ s.entry[k].expires = Now(tick) + ttl
  <1>1. CacheType(cache) /\ HasNodes(cache) /\ lastTick \in Nat
    BY InvParts DEF EntriesOK
  <1>2. Now(tick) \in Nat
    BY <1>1, NowOK
  <1>3. CacheType(Store(cache, k, ttl, Now(tick), OwnedKeys))
    BY <1>1, <1>2, StoreOK
  <1> QED BY <1>1, <1>2, <1>3, StoreKeeps

(* Every operation keeps the entries in an order of use.                   *)
LEMMA EntriesOrdered ==
    ASSUME IInv, [Next]_vars, Within(cache), Ordered(cache)
    PROVE  Ordered(cache')
  <1>1. CacheType(cache) /\ HasNodes(cache) /\ lastTick \in Nat /\ LoadsOK
    BY InvParts DEF EntriesOK
  <1>2. ASSUME NEW tick \in Ticks
        PROVE  /\ Now(tick) \in Nat
               /\ CacheType(Purge(cache, Now(tick), OwnedKeys))
               /\ Ordered(Purge(cache, Now(tick), OwnedKeys))
    BY <1>1, NowOK, PurgeOK, PurgeOrdered
  <1>3. ASSUME NEW tick \in Ticks, NEW k \in Keys
        PROVE  Ordered(Touch(Purge(cache, Now(tick), OwnedKeys), k))
    BY <1>2, TouchOrdered
  <1>4. ASSUME NEW tick \in Ticks, Read(tick) PROVE Ordered(cache')
    BY <1>2, <1>3, <1>4 DEF Read, Sweep, Get, Hit
  <1>5. ASSUME NEW tick \in Ticks, Write(tick) PROVE Ordered(cache')
    <2>1. ASSUME NEW k \in Keys, NEW ttl \in TTLs, Set(k, ttl, tick) PROVE Ordered(cache')
      BY <2>1, StoredOrdered, LoadAssumption DEF Set
    <2>2. ASSUME NEW k \in Keys, Invalidate(k, tick) PROVE Ordered(cache')
      BY <1>1, <1>2, <2>2, InvalidatedOrdered DEF Invalidate
    <2>3. ASSUME Clear(tick) PROVE Ordered(cache')
      BY <2>3, ClearedOrdered DEF Clear
    <2> QED BY <1>5, <2>1, <2>2, <2>3 DEF Write
  <1>6. ASSUME NEW t \in Threads, NEW tick \in Ticks, Load(t, tick) PROVE Ordered(cache')
    BY <1>2, <1>3, <1>6 DEF Load, LoadHit, Join, Reject, BeginLoad, Misses
  <1>7. ASSUME NEW t \in Threads, NEW returns \in BOOLEAN, NEW clockOk \in BOOLEAN,
               NEW tick \in Ticks, FinishLoad(t, returns, clockOk, tick)
        PROVE  Ordered(cache')
    <2> DEFINE k == Top(t)
               f == <<t, k>>
    <2>1. k \in Keys
      BY <1>1, <1>7 DEF Top, LoadsOK, FinishLoad
    <2>2. \E owned : \/ cache' = Drop(cache, k, owned)
                     \/ /\ CanPublish(f)
                        /\ cache' = Drop(Store(cache, k, flight[f].ttl, Now(tick), OwnedKeys),
                                         k, owned)
      BY <1>7 DEF FinishLoad
    <2> HIDE DEF k
    <2>3. ASSUME CanPublish(f)
          PROVE  /\ CacheType(Store(cache, k, flight[f].ttl, Now(tick), OwnedKeys))
                 /\ Ordered(Store(cache, k, flight[f].ttl, Now(tick), OwnedKeys))
      BY <2>1, <2>3, PublishedTtl, StoredOrdered
    <2> QED BY <1>1, <2>1, <2>2, <2>3, DropOrdered
  <1>8. ASSUME NEW k \in Keys, SetFails(k) PROVE Ordered(cache')
    BY <1>8 DEF SetFails
  <1> QED BY <1>4, <1>5, <1>6, <1>7, <1>8 DEF Next, Finish, vars

(* The entries are in an order of use in every state.                      *)
LEMMA OrderKept == Spec => []Ordered(cache)
  <1>1. Init => Ordered(cache)
    BY ClearedOrdered DEF Init
  <1>2. IInv /\ LimitInv /\ Ordered(cache) /\ [Next]_vars => Ordered(cache)'
    BY EntriesOrdered DEF LimitInv
  <1> QED BY <1>1, <1>2, Invariance, LimitsKept, PTL DEF Spec

\* The next victim: of the entries, popitem(last=False) takes the one that
\* was read or written before all others.
VictimIsLeastRecent ==
    Present(cache) # {} =>
        /\ Lru(cache) \in Present(cache)
        /\ \A k \in Present(cache) \ {Lru(cache)} : <<Lru(cache), k>> \in cache.older

(* However hits, overwrites, expiries and evictions interleave, there is   *)
(* exactly one least recently used entry, and it is the one evicted next.  *)
THEOREM EvictsLeastRecent == Spec => []VictimIsLeastRecent
  <1>1. LimitInv /\ Ordered(cache) => VictimIsLeastRecent
    BY LruFirst DEF LimitInv, Within, VictimIsLeastRecent
  <1> QED BY <1>1, LimitsKept, OrderKept, PTL

\* What store() wrote is there after the step, with its own lifetime.
Stored(k, ttl, tick) ==
    k \in Present(cache') /\ cache'.entry[k].expires = Now(tick) + ttl

\* The flight callers join carries the epoch and the version of its key.
StampInv ==
    \A k \in Keys : active[k] # None =>
        flight[active[k]].epoch = epoch /\ flight[active[k]].version = cache.versions[k]

(* Marking a flight leaves what it began with.                             *)
LEMMA MarkedStamp ==
    ASSUME flight \in [Flights -> FlightType], NEW K, NEW S, flight' = Marked(K, S),
           NEW f \in Flights
    PROVE  flight'[f].epoch = flight[f].epoch /\ flight'[f].version = flight[f].version
  <1> DEFINE r == flight[f]
             a == r.superseded \/ f \in S
             b == r.stale \/ (r.owned /\ f[2] \in K)
  <1>1. flight'[f] = [r EXCEPT !.superseded = a, !.stale = b]
    BY DEF Marked
  <1>2. r \in FlightType
    OBVIOUS
  <1> HIDE DEF a, b, r
  <1>3. flight'[f].epoch = r.epoch /\ flight'[f].version = r.version
    BY <1>1, <1>2 DEF FlightType
  <1> QED BY <1>3 DEF r

(* A flight that can still be joined keeps its stamps if the step leaves   *)
(* them, the epoch and the versions of the keys being loaded alone.        *)
LEMMA StampSame ==
    ASSUME IInv, StampInv, epoch' = epoch, NEW J \in SUBSET Keys,
           \A k \in Keys : active'[k] # None =>
               /\ active'[k] = active[k] /\ k \notin J
               /\ flight'[active[k]].epoch = flight[active[k]].epoch
               /\ flight'[active[k]].version = flight[active[k]].version,
           SameVersions(cache, cache', (Keys \cap OwnedKeys) \ J)
    PROVE  StampInv'
  <1> SUFFICES ASSUME NEW k \in Keys, active'[k] # None
               PROVE  /\ flight'[active'[k]].epoch = epoch'
                      /\ flight'[active'[k]].version = cache'.versions[k]
    BY DEF StampInv
  <1>1. active'[k] = active[k] /\ active[k] # None /\ k \notin J
    OBVIOUS
  <1>2. active[k] \in Owned /\ active[k][2] = k
    BY <1>1, InvParts DEF LoadsOK, JoinsFreshLoad
  <1>3. k \in OwnedKeys
    BY <1>2 DEF OwnedKeys
  <1>4. cache'.versions[k] = cache.versions[k]
    BY <1>1, <1>3 DEF SameVersions
  <1>5. flight[active[k]].epoch = epoch /\ flight[active[k]].version = cache.versions[k]
    BY <1>1 DEF StampInv
  <1> QED BY <1>1, <1>4, <1>5

(* No operation changes the epoch or the version under a load that can     *)
(* still be joined: what changes them supersedes the load as well.         *)
LEMMA StampStep ==
    ASSUME IInv, [Next]_vars, StampInv
    PROVE  StampInv'
  <1>1. /\ CacheType(cache) /\ HasNodes(cache) /\ lastTick \in Nat /\ LoadsOK
        /\ epoch \in Nat
    BY InvParts DEF EntriesOK
  <1>2. ASSUME NEW tick \in Ticks
        PROVE  /\ Now(tick) \in Nat
               /\ CacheType(Purge(cache, Now(tick), OwnedKeys))
               /\ SameVersions(cache, Purge(cache, Now(tick), OwnedKeys), Keys \cap OwnedKeys)
    BY <1>1, NowOK, PurgeOK, PurgeVersions
  <1>3. ASSUME NEW tick \in Ticks, NEW k \in Keys
        PROVE  SameVersions(cache, Touch(Purge(cache, Now(tick), OwnedKeys), k),
                            Keys \cap OwnedKeys)
    BY <1>2, TouchOK DEF SameVersions
  <1>4. ASSUME UNCHANGED <<epoch, active, flight>>,
               SameVersions(cache, cache', Keys \cap OwnedKeys)
        PROVE  StampInv'
    <2> DEFINE J == {}
    <2>1. J \in SUBSET Keys /\ \A k \in Keys : k \notin J
      OBVIOUS
    <2>2. SameVersions(cache, cache', (Keys \cap OwnedKeys) \ J)
      BY <1>4 DEF SameVersions
    <2> HIDE DEF J
    <2>3. \A k \in Keys : active'[k] # None =>
             /\ active'[k] = active[k] /\ k \notin J
             /\ flight'[active[k]].epoch = flight[active[k]].epoch
             /\ flight'[active[k]].version = flight[active[k]].version
      BY <1>4, <2>1
    <2> QED BY <1>4, <2>1, <2>2, <2>3, StampSame
  <1>5. ASSUME NEW tick \in Ticks, Read(tick) PROVE StampInv'
    BY <1>2, <1>3, <1>4, <1>5 DEF Read, Sweep, Get, Hit
  <1>6. ASSUME NEW k \in Keys, NEW K, Supersede(k, K), epoch' = epoch,
               SameVersions(cache, cache', (Keys \cap OwnedKeys) \ {k})
        PROVE  StampInv'
    <2>1. \A j \in Keys : active'[j] # None =>
             /\ active'[j] = active[j] /\ j \notin {k}
             /\ flight'[active[j]].epoch = flight[active[j]].epoch
             /\ flight'[active[j]].version = flight[active[j]].version
      <3> SUFFICES ASSUME NEW j \in Keys, active'[j] # None
                   PROVE  /\ active'[j] = active[j] /\ j \notin {k}
                          /\ flight'[active[j]].epoch = flight[active[j]].epoch
                          /\ flight'[active[j]].version = flight[active[j]].version
        OBVIOUS
      <3>1. active'[j] = active[j] /\ j # k
        BY <1>1, <1>6 DEF Supersede, LoadsOK
      <3>2. active[j] \in Flights
        BY <1>1, <3>1 DEF LoadsOK
      <3> QED BY <1>1, <1>6, <3>1, <3>2, MarkedStamp DEF Supersede, LoadsOK
    <2> QED BY <1>6, <2>1, StampSame
  <1>7. ASSUME NEW tick \in Ticks, Write(tick) PROVE StampInv'
    <2>1. ASSUME NEW k \in Keys, NEW ttl \in TTLs, Set(k, ttl, tick) PROVE StampInv'
      <3>1. SameVersions(cache, cache', (Keys \cap OwnedKeys) \ {k})
        BY <1>1, <1>2, <2>1, StoreVersions, LoadAssumption DEF Set
      <3> QED BY <1>6, <2>1, <3>1 DEF Set
    <2>2. ASSUME NEW k \in Keys, Invalidate(k, tick) PROVE StampInv'
      <3>1. SameVersions(cache, cache', (Keys \cap OwnedKeys) \ {k})
        BY <1>1, <1>2, <2>2, InvalidatedVersions DEF Invalidate
      <3> QED BY <1>6, <2>2, <3>1 DEF Invalidate
    <2>3. ASSUME Clear(tick) PROVE StampInv'
      BY <2>3 DEF Clear, StampInv
    <2> QED BY <1>7, <2>1, <2>2, <2>3 DEF Write
  <1>8. ASSUME NEW t \in Threads, NEW tick \in Ticks, NEW k \in Keys,
               LoadHit(t, k, tick) \/ Join(t, k, tick) \/ Reject(t, k, tick)
        PROVE  StampInv'
    BY <1>2, <1>3, <1>4, <1>8 DEF LoadHit, Join, Reject, Misses
  <1>9. ASSUME NEW t \in Threads, NEW k \in Keys, NEW ttl \in TTLs, NEW tick \in Ticks,
               BeginLoad(t, k, ttl, tick)
        PROVE  StampInv'
    <2> SUFFICES ASSUME NEW j \in Keys, active'[j] # None
                 PROVE  /\ flight'[active'[j]].epoch = epoch'
                        /\ flight'[active'[j]].version = cache'.versions[j]
      BY DEF StampInv
    <2>1. <<t, k>> \in Flights
      BY DEF Flights
    <2>2. /\ flight'[<<t, k>>].epoch = epoch
          /\ flight'[<<t, k>>].version = cache'.versions[k]
          /\ epoch' = epoch
          /\ \A g \in Flights \ {<<t, k>>} : flight'[g] = flight[g]
      BY <1>1, <1>9, <2>1 DEF BeginLoad, LoadsOK
    <2>3. active'[k] = <<t, k>> /\ \A i \in Keys \ {k} : active'[i] = active[i]
      BY <1>1, <1>9 DEF BeginLoad, LoadsOK
    <2>4. CASE j = k
      BY <2>2, <2>3, <2>4
    <2>5. CASE j # k
      <3>1. /\ active'[j] = active[j] /\ active[j] \in Owned /\ active[j][2] = j
            /\ active[j] \in Flights
        BY <1>1, <2>3, <2>5 DEF LoadsOK, JoinsFreshLoad
      <3>2. active[j] # <<t, k>> /\ j \in OwnedKeys
        BY <2>5, <3>1 DEF OwnedKeys
      <3>3. cache'.versions[j] = cache.versions[j]
        BY <1>2, <1>9, <3>2 DEF BeginLoad, Misses, SameVersions
      <3>4. flight[active[j]].epoch = epoch /\ flight[active[j]].version = cache.versions[j]
        BY <3>1 DEF StampInv
      <3> QED BY <2>2, <3>1, <3>2, <3>3, <3>4
    <2> QED BY <2>4, <2>5
  <1>10. ASSUME NEW t \in Threads, NEW returns \in BOOLEAN, NEW clockOk \in BOOLEAN,
                NEW tick \in Ticks, FinishLoad(t, returns, clockOk, tick)
         PROVE  StampInv'
    <2> DEFINE k == Top(t)
               f == <<t, k>>
               others == {g[2] : g \in Owned \ {f}}
               s == Store(cache, k, flight[f].ttl, Now(tick), OwnedKeys)
    <2>1. k \in Keys
      BY <1>1, <1>10 DEF Top, LoadsOK, FinishLoad
    <2>2. \/ cache' = Drop(cache, k, others)
          \/ CanPublish(f) /\ cache' = Drop(s, k, others)
      BY <1>10 DEF FinishLoad
    <2>3. /\ epoch' = epoch
          /\ active' = IF active[k] = f THEN [active EXCEPT ![k] = None] ELSE active
          /\ flight' = [flight EXCEPT ![f] = NoFlight]
      BY <1>10 DEF FinishLoad
    <2> HIDE DEF k
    <2>4. f \in Flights /\ f # None /\ f[2] = k
      BY <2>1, LoadAssumption DEF Flights
    <2>5. ASSUME CanPublish(f)
          PROVE  /\ active[k] = f /\ CacheType(s)
                 /\ SameVersions(cache, s, (Keys \cap OwnedKeys) \ {k})
      <3>1. flight[f].ttl \in Nat \ {0}
        BY <2>1, <2>5, PublishedTtl
      <3> QED BY <1>1, <1>2, <2>1, <2>4, <2>5, <3>1, StoreOK, StoreVersions DEF CanPublish
    <2> HIDE DEF s, others
    <2> SUFFICES ASSUME NEW j \in Keys, active'[j] # None
                 PROVE  /\ flight'[active'[j]].epoch = epoch'
                        /\ flight'[active'[j]].version = cache'.versions[j]
      BY DEF StampInv
    <2>6. active'[j] = active[j] /\ (active[k] = f => j # k)
      BY <1>1, <2>1, <2>3 DEF LoadsOK
    <2>7. active[j] \in Owned /\ active[j][2] = j /\ active[j] \in Flights
      BY <1>1, <2>6 DEF LoadsOK, JoinsFreshLoad
    <2>8. active[j] # f
      BY <2>4, <2>6, <2>7
    <2>9. j \in others /\ j \in OwnedKeys
      BY <2>7, <2>8 DEF others, OwnedKeys
    <2>10. cache'.versions[j] = cache.versions[j]
      <3>1. CASE cache' = Drop(cache, k, others)
        BY <1>1, <2>1, <2>9, <3>1, DropVersions DEF SameVersions
      <3>2. CASE CanPublish(f) /\ cache' = Drop(s, k, others)
        <4>1. Drop(s, k, others).versions[j] = s.versions[j]
          BY <2>1, <2>5, <2>9, <3>2, DropVersions DEF SameVersions
        <4>2. s.versions[j] = cache.versions[j]
          BY <2>5, <2>6, <2>9, <3>2 DEF SameVersions
        <4> QED BY <3>2, <4>1, <4>2
      <3> QED BY <2>2, <3>1, <3>2
    <2>11. flight[active[j]].epoch = epoch /\ flight[active[j]].version = cache.versions[j]
      BY <2>6 DEF StampInv
    <2>12. flight'[active[j]] = flight[active[j]]
      BY <1>1, <2>3, <2>7, <2>8 DEF LoadsOK
    <2> QED BY <2>3, <2>6, <2>10, <2>11, <2>12
  <1>11. ASSUME NEW k \in Keys, SetFails(k) PROVE StampInv'
    <2>1. SameVersions(cache, cache', (Keys \cap OwnedKeys) \ {k})
      BY <1>11 DEF SetFails, SameVersions
    <2> QED BY <1>6, <1>11, <2>1 DEF SetFails
  <1>12. ASSUME UNCHANGED vars PROVE StampInv'
    BY <1>12 DEF vars, StampInv
  <1> QED BY <1>5, <1>7, <1>8, <1>9, <1>10, <1>11, <1>12 DEF Next, Load, Finish

(* Stamps and state agree in every state.                                  *)
LEMMA StampsKept == Spec => []StampInv
  <1>1. Init => StampInv
    BY DEF Init, StampInv
  <1>2. IInv /\ StampInv /\ [Next]_vars => StampInv'
    BY StampStep
  <1> QED BY <1>1, <1>2, Invariance, PTL DEF Spec

\* A load may publish exactly when nobody superseded it: the comparisons of
\* epoch and version in _finish_flight never turn down a fresh result.
FreshLoadsMayPublish ==
    \A f \in Owned : CanPublish(f) <=> ~flight[f].superseded

(* No load is thrown away without cause, whatever hits, evictions, expiries *)
(* and loads of other keys happen while its loader runs: a key that is     *)
(* evicted while it is loaded keeps its version.                           *)
THEOREM FreshLoadsPublish == Spec => []FreshLoadsMayPublish
  <1>1. ASSUME IInv, StampInv, NEW f \in Owned, ~flight[f].superseded
        PROVE  CanPublish(f)
    <2>1. f \in Flights /\ f[2] \in Keys /\ f # None
      BY LoadAssumption DEF Owned, Flights
    <2>2. active[f[2]] = f
      BY <1>1, InvParts DEF LoadsOK, FlightInv
    <2> QED BY <1>1, <2>1, <2>2 DEF StampInv, CanPublish
  <1>2. IInv /\ StampInv => FreshLoadsMayPublish
    BY <1>1 DEF FreshLoadsMayPublish, CanPublish
  <1> QED BY <1>2, Invariance, StampsKept, PTL

\* What set() writes is in the cache after the step, and so is what the loader
\* of a fresh load returns; both with the lifetime their caller chose.
WritesStick ==
    [][/\ \A k \in Keys, ttl \in TTLs, tick \in Ticks :
            Set(k, ttl, tick) => Stored(k, ttl, tick)
       /\ \A t \in Threads, tick \in Ticks :
            FinishLoad(t, TRUE, TRUE, tick) /\ ~flight[<<t, Top(t)>>].superseded
              => Stored(Top(t), flight[<<t, Top(t)>>].ttl, tick)]_vars

(* The eviction that makes room for an entry never takes that entry, even  *)
(* with max_size = 1, and a fresh load is never lost.                      *)
THEOREM WritesKept == Spec => WritesStick
  <1>1. ASSUME IInv, LimitInv, Ordered(cache), NEW k \in Keys, NEW ttl \in TTLs,
               NEW tick \in Ticks, Set(k, ttl, tick)
        PROVE  Stored(k, ttl, tick)
    BY <1>1, StoredOrdered, LoadAssumption DEF Set, Stored, LimitInv
  <1>2. ASSUME IInv, LimitInv, Ordered(cache), StackInv, FreshLoadsMayPublish,
               NEW t \in Threads, NEW tick \in Ticks, FinishLoad(t, TRUE, TRUE, tick),
               ~flight[<<t, Top(t)>>].superseded
        PROVE  Stored(Top(t), flight[<<t, Top(t)>>].ttl, tick)
    <2> DEFINE k == Top(t)
               f == <<t, k>>
               owned == {g[2] : g \in Owned \ {f}}
               s == Store(cache, k, flight[f].ttl, Now(tick), OwnedKeys)
    <2>1. k \in Keys /\ f \in Owned
      <3>1. stack[t] \in Seq(Keys) /\ stack[t] # <<>> /\ StackOK(t)
        BY <1>2, InvParts DEF LoadsOK, FinishLoad, StackInv
      <3>2. Len(stack[t]) \in 1 .. Len(stack[t])
        BY <3>1
      <3> QED BY <3>1, <3>2 DEF Top, StackOK
    <2>2. CanPublish(f)
      BY <1>2, <2>1 DEF FreshLoadsMayPublish
    <2>3. cache' = Drop(s, k, owned)
      BY <1>2, <2>2 DEF FinishLoad
    <2> HIDE DEF k
    <2>4. /\ CacheType(s) /\ k \in Present(s)
          /\ s.entry[k].expires = Now(tick) + flight[f].ttl
      BY <1>2, <2>1, <2>2, PublishedTtl, StoredOrdered DEF LimitInv
    <2> HIDE DEF s
    <2>5. cache' = s
      BY <2>3, <2>4 DEF Drop
    <2>6. Stored(k, flight[f].ttl, tick)
      BY <2>4, <2>5 DEF Stored
    <2> QED BY <2>6 DEF k
  <1>3. IInv /\ LimitInv /\ Ordered(cache) /\ StackInv /\ FreshLoadsMayPublish =>
          /\ \A k \in Keys, ttl \in TTLs, tick \in Ticks :
               Set(k, ttl, tick) => Stored(k, ttl, tick)
          /\ \A t \in Threads, tick \in Ticks :
               FinishLoad(t, TRUE, TRUE, tick) /\ ~flight[<<t, Top(t)>>].superseded
                 => Stored(Top(t), flight[<<t, Top(t)>>].ttl, tick)
    BY <1>1, <1>2
  <1> QED BY <1>3, Invariance, LimitsKept, OrderKept, StacksKept, FreshLoadsPublish, PTL
          DEF WritesStick

=============================================================================
