------------------------- MODULE AsyncTTLCacheProofs -------------------------
(* The safety properties of AsyncTTLCache, for any number of keys, tasks   *)
(* and flights: waiters are counted exactly, a load is abandoned exactly   *)
(* when the last of them has left, and a late load publishes nothing.      *)
EXTENDS FiniteSetTheorems, AsyncTTLCache, CacheStateProofs

FlightType == [owned : BOOLEAN, key : Keys, epoch : Nat, version : Nat, ttl : Nat,
               waiters : Nat, scope : SUBSET Keys, abandoned : BOOLEAN,
               superseded : BOOLEAN, stale : BOOLEAN]

\* Who waits for f, when the callers wait as w says.
CountOf(w, f) == Cardinality({c \in Callers : w[c] = f})

\* The loads: waiters are counted, and a running load has a lifetime to give
\* and is abandoned exactly when it has no waiters.
WaitsOK ==
    /\ wait \in [Callers -> FlightIds \cup {None}]
    /\ leaving \in [Callers -> BOOLEAN]
    /\ flight \in [FlightIds -> FlightType]
    /\ \A f \in FlightIds :
          /\ flight[f].waiters = CountOf(wait, f)
          /\ flight[f].owned => flight[f].ttl \in TTLs
          /\ flight[f].owned => (flight[f].abandoned <=> flight[f].waiters = 0)

JoinsOK ==
    /\ active \in [Keys -> FlightIds \cup {None}]
    /\ JoinsFreshLoad

AInv ==
    /\ EntriesOK(cache, lastTick, OwnedKeys)
    /\ lastTick \in Nat /\ epoch \in Nat
    /\ WaitsOK
    /\ JoinsOK

-----------------------------------------------------------------------------
(* Counting waiters                                                        *)

\* The waiters of a flight are finitely many.
LEMMA CountType ==
    ASSUME NEW w, NEW f
    PROVE  /\ IsFiniteSet({c \in Callers : w[c] = f})
           /\ CountOf(w, f) \in Nat
           /\ CountOf(w, f) = 0 <=> {c \in Callers : w[c] = f} = {}
  <1> DEFINE S == {c \in Callers : w[c] = f}
  <1>1. IsFiniteSet(Callers) BY LoadAssumption, FS_Union DEF Callers
  <1>2. IsFiniteSet(S) BY <1>1, FS_Subset
  <1> QED BY <1>2, FS_CardinalityType, FS_EmptySet DEF CountOf

\* A caller that waits for nothing begins to wait.
LEMMA CountJoin ==
    ASSUME wait \in [Callers -> FlightIds \cup {None}], NEW c \in Callers, wait[c] = None,
           NEW f \in FlightIds, wait' = [wait EXCEPT ![c] = f]
    PROVE  /\ wait' \in [Callers -> FlightIds \cup {None}]
           /\ CountOf(wait', f) = CountOf(wait, f) + 1
           /\ \A g \in FlightIds : g # f => CountOf(wait', g) = CountOf(wait, g)
  <1> DEFINE S == {b \in Callers : wait[b] = f}
  <1>1. f # None BY LoadAssumption
  <1>2. {b \in Callers : wait'[b] = f} = S \cup {c} /\ c \notin S BY <1>1
  <1>3. CountOf(wait', f) = CountOf(wait, f) + 1
    <2>1. IsFiniteSet(S) BY CountType
    <2>2. Cardinality(S \cup {c}) = Cardinality(S) + 1 BY <1>2, <2>1, FS_AddElement
    <2> QED BY <1>2, <2>2 DEF CountOf
  <1>4. ASSUME NEW g \in FlightIds, g # f PROVE CountOf(wait', g) = CountOf(wait, g)
    <2>1. g # None BY LoadAssumption
    <2>2. {b \in Callers : wait'[b] = g} = {b \in Callers : wait[b] = g} BY <1>4, <2>1
    <2> QED BY <2>2 DEF CountOf
  <1> QED BY <1>3, <1>4

\* A caller waits no longer.
LEMMA CountLeave ==
    ASSUME wait \in [Callers -> FlightIds \cup {None}], NEW c \in Callers,
           NEW f \in FlightIds, wait[c] = f, wait' = [wait EXCEPT ![c] = None]
    PROVE  /\ wait' \in [Callers -> FlightIds \cup {None}]
           /\ CountOf(wait', f) = CountOf(wait, f) - 1 /\ CountOf(wait, f) # 0
           /\ \A g \in FlightIds : g # f => CountOf(wait', g) = CountOf(wait, g)
  <1> DEFINE S == {b \in Callers : wait[b] = f}
  <1>1. f # None BY LoadAssumption
  <1>2. {b \in Callers : wait'[b] = f} = S \ {c} /\ c \in S BY <1>1
  <1>3. CountOf(wait', f) = CountOf(wait, f) - 1 /\ CountOf(wait, f) # 0
    <2>1. IsFiniteSet(S) /\ (CountOf(wait, f) = 0 <=> S = {}) BY CountType
    <2>2. Cardinality(S \ {c}) = Cardinality(S) - 1 BY <1>2, <2>1, FS_RemoveElement
    <2>3. S # {} BY <1>2
    <2> QED BY <1>2, <2>1, <2>2, <2>3 DEF CountOf
  <1>4. ASSUME NEW g \in FlightIds, g # f PROVE CountOf(wait', g) = CountOf(wait, g)
    <2>1. g # None BY LoadAssumption
    <2>2. {b \in Callers : wait'[b] = g} = {b \in Callers : wait[b] = g} BY <1>4, <2>1
    <2> QED BY <2>2 DEF CountOf
  <1> QED BY <1>3, <1>4

-----------------------------------------------------------------------------
(* Reads                                                                   *)

\* The clamped clock shows a number.
LEMMA NowOK ==
    ASSUME lastTick \in Nat, NEW tick \in Ticks
    PROVE  Now(tick) \in Nat
  BY LoadAssumption DEF Now, Ticks

\* Which keys are being loaded depends on the flights only.
LEMMA OwnedSame ==
    ASSUME UNCHANGED flight
    PROVE  Owned' = Owned /\ OwnedKeys' = OwnedKeys
  BY DEF Owned, OwnedKeys, KeysOf

\* What the invariant says of the loads depends on four variables only.
LEMMA LoadsSame ==
    ASSUME AInv, UNCHANGED <<active, flight, wait, leaving>>
    PROVE  WaitsOK' /\ JoinsOK' /\ OwnedKeys' = OwnedKeys
  BY OwnedSame DEF AInv, WaitsOK, JoinsOK, JoinsFreshLoad

\* get, size, stats, and the calls of get_or_load that end at once.
LEMMA ReadStep ==
    ASSUME AInv, NEW tick \in Ticks, lastTick' = Now(tick),
           UNCHANGED <<epoch, active, flight, callVars>>,
           \/ cache' = Purge(cache, Now(tick), OwnedKeys)
           \/ \E k \in Keys : cache' = Touch(Purge(cache, Now(tick), OwnedKeys), k)
           \/ \E k \in Keys : cache' = Drop(Purge(cache, Now(tick), OwnedKeys), k, OwnedKeys)
    PROVE  AInv'
  <1> DEFINE p == Purge(cache, Now(tick), OwnedKeys)
  <1>1. Now(tick) \in Nat BY NowOK DEF AInv
  <1>2. EntriesOK(p, Now(tick), OwnedKeys) BY <1>1, PurgeKeeps DEF AInv
  <1>3. ASSUME NEW k \in Keys PROVE EntriesOK(Touch(p, k), Now(tick), OwnedKeys)
    BY <1>2, TouchKeeps
  <1>4. ASSUME NEW k \in Keys PROVE EntriesOK(Drop(p, k, OwnedKeys), Now(tick), OwnedKeys)
    <2>1. NoSpareVersion(p, OwnedKeys \cup {k}) BY <1>2 DEF EntriesOK, NoSpareVersion
    <2> HIDE DEF p
    <2> QED BY <1>2, <2>1, DropOK DEF EntriesOK
  <1>5. WaitsOK' /\ JoinsOK' /\ OwnedKeys' = OwnedKeys BY LoadsSame DEF callVars
  <1> HIDE DEF p
  <1>6. EntriesOK(cache', lastTick', OwnedKeys') BY <1>2, <1>3, <1>4, <1>5 DEF p
  <1> QED BY <1>1, <1>5, <1>6 DEF AInv

-----------------------------------------------------------------------------
(* Writes                                                                  *)

\* Marking flights as superseded or stale ends none of them.
LEMMA MarkedOK ==
    ASSUME flight \in [FlightIds -> FlightType], NEW K, NEW S, flight' = Marked(K, S)
    PROVE  /\ flight' \in [FlightIds -> FlightType]
           /\ \A f \in FlightIds :
                 /\ flight'[f].owned = flight[f].owned
                 /\ flight'[f].key = flight[f].key
                 /\ flight'[f].ttl = flight[f].ttl
                 /\ flight'[f].waiters = flight[f].waiters
                 /\ flight'[f].abandoned = flight[f].abandoned
                 /\ flight'[f].superseded <=> flight[f].superseded \/ f \in S
                 /\ flight[f].key \notin K => (flight'[f].stale <=> flight[f].stale)
  <1>1. ASSUME NEW f \in FlightIds
        PROVE  /\ flight'[f] \in FlightType
               /\ flight'[f].owned = flight[f].owned
               /\ flight'[f].key = flight[f].key
               /\ flight'[f].ttl = flight[f].ttl
               /\ flight'[f].waiters = flight[f].waiters
               /\ flight'[f].abandoned = flight[f].abandoned
               /\ flight'[f].superseded <=> flight[f].superseded \/ f \in S
               /\ flight[f].key \notin K => (flight'[f].stale <=> flight[f].stale)
    <2> DEFINE r == flight[f]
               a == r.superseded \/ f \in S
               b == r.stale \/ (r.owned /\ r.key \in K)
    <2>1. r \in FlightType /\ a \in BOOLEAN /\ b \in BOOLEAN OBVIOUS
    <2>2. flight'[f] = [r EXCEPT !.superseded = a, !.stale = b] BY DEF Marked
    <2>3. r.key \notin K => (b <=> r.stale) OBVIOUS
    <2> HIDE DEF a, b, r
    <2>4. /\ flight'[f] \in FlightType
          /\ flight'[f].owned = r.owned /\ flight'[f].key = r.key
          /\ flight'[f].ttl = r.ttl /\ flight'[f].waiters = r.waiters
          /\ flight'[f].abandoned = r.abandoned
          /\ flight'[f].superseded = a /\ flight'[f].stale = b
      BY <2>1, <2>2 DEF FlightType
    <2> QED BY <2>3, <2>4 DEF a, r
  <1>2. flight' \in [FlightIds -> FlightType] BY <1>1 DEF Marked
  <1> QED BY <1>1, <1>2

\* When the flights of K are stale and nobody can join them any more, the
\* loads are still in order.
LEMMA MarkStep ==
    ASSUME WaitsOK, JoinsOK, NEW K \in SUBSET Keys, NEW S, flight' = Marked(K, S),
           UNCHANGED callVars,
           active' \in [Keys -> FlightIds \cup {None}],
           \A k \in Keys : active'[k] \in {active[k], None},
           \A k \in K : active'[k] = None,
           \A k \in Keys : active'[k] = active[k] /\ active[k] # None => active[k] \notin S
    PROVE  WaitsOK' /\ JoinsOK' /\ OwnedKeys' = OwnedKeys
  <1>1. /\ flight' \in [FlightIds -> FlightType]
        /\ \A f \in FlightIds :
                 /\ flight'[f].owned = flight[f].owned
                 /\ flight'[f].key = flight[f].key
                 /\ flight'[f].ttl = flight[f].ttl
                 /\ flight'[f].waiters = flight[f].waiters
                 /\ flight'[f].abandoned = flight[f].abandoned
                 /\ flight'[f].superseded <=> flight[f].superseded \/ f \in S
                 /\ flight[f].key \notin K => (flight'[f].stale <=> flight[f].stale)
    BY MarkedOK DEF WaitsOK
  <1>2. Owned' = Owned /\ Owned \subseteq FlightIds BY <1>1 DEF Owned
  <1>3. OwnedKeys' = OwnedKeys BY <1>1, <1>2 DEF OwnedKeys, KeysOf
  <1>4. WaitsOK' BY <1>1 DEF WaitsOK, callVars
  <1>5. JoinsFreshLoad'
    <2> SUFFICES ASSUME NEW k \in Keys, active'[k] # None
                 PROVE  /\ active'[k] \in Owned' /\ flight'[active'[k]].key = k
                        /\ ~flight'[active'[k]].superseded /\ ~flight'[active'[k]].stale
                        /\ ~flight'[active'[k]].abandoned
      BY DEF JoinsFreshLoad
    <2>1. active'[k] = active[k] /\ active[k] # None /\ k \notin K /\ active[k] \notin S
      OBVIOUS
    <2>2. /\ active[k] \in Owned /\ flight[active[k]].key = k
          /\ ~flight[active[k]].superseded /\ ~flight[active[k]].stale
          /\ ~flight[active[k]].abandoned
      BY <2>1 DEF JoinsOK, JoinsFreshLoad
    <2>3. active[k] \in FlightIds BY <1>2, <2>2
    <2> QED BY <1>1, <1>2, <2>1, <2>2, <2>3
  <1> QED BY <1>3, <1>4, <1>5 DEF JoinsOK

\* set(), invalidate() and the set() whose clock fails supersede a flight.
LEMMA SupersedeStep ==
    ASSUME WaitsOK, JoinsOK, NEW k \in Keys, NEW K \in SUBSET {k}, Supersede(k, K),
           UNCHANGED callVars
    PROVE  WaitsOK' /\ JoinsOK' /\ OwnedKeys' = OwnedKeys
  <1>1. active' = [active EXCEPT ![k] = None] /\ flight' = Marked(K, {active[k]})
    BY DEF Supersede
  <1>2. active \in [Keys -> FlightIds \cup {None}] BY DEF JoinsOK
  <1>3. \A j \in Keys : active'[j] = IF j = k THEN None ELSE active[j] BY <1>1, <1>2
  <1>4. \A j \in Keys : active[j] # None => flight[active[j]].key = j
    BY DEF JoinsOK, JoinsFreshLoad
  <1>5. active' \in [Keys -> FlightIds \cup {None}] BY <1>1, <1>2
  <1> QED BY <1>1, <1>3, <1>4, <1>5, MarkStep

\* Every operation that writes, and the set() whose clock fails.
LEMMA WriteStep ==
    ASSUME AInv,
           \/ \E tick \in Ticks : Write(tick)
           \/ \E k \in Keys : SetFails(k)
    PROVE  AInv'
  <1>0. WaitsOK /\ JoinsOK /\ EntriesOK(cache, lastTick, OwnedKeys) /\ lastTick \in Nat BY DEF AInv
  <1>1. ASSUME NEW tick \in Ticks, NEW k \in Keys, NEW ttl \in TTLs, Set(k, ttl, tick)
        PROVE  AInv'
    <2>1. WaitsOK' /\ JoinsOK' /\ OwnedKeys' = OwnedKeys BY <1>0, <1>1, SupersedeStep DEF Set
    <2>2. Now(tick) \in Nat /\ ttl \in Nat \ {0} BY <1>0, NowOK, LoadAssumption
    <2>3. EntriesOK(cache', lastTick', OwnedKeys)
      BY <1>0, <1>1, <2>2, StoreOK DEF Set, EntriesOK
    <2> QED BY <1>1, <2>1, <2>2, <2>3 DEF AInv, Set
  <1>2. ASSUME NEW tick \in Ticks, NEW k \in Keys, Invalidate(k, tick)
        PROVE  AInv'
    <2>1. WaitsOK' /\ JoinsOK' /\ OwnedKeys' = OwnedKeys
      BY <1>0, <1>2, SupersedeStep DEF Invalidate
    <2>2. EntriesOK(cache', lastTick', OwnedKeys)
      BY <1>0, <1>2, NowOK, InvalidatedOK DEF Invalidate, EntriesOK
    <2> QED BY <1>0, <1>2, <2>1, <2>2, NowOK DEF AInv, Invalidate
  <1>3. ASSUME NEW tick \in Ticks, Clear(tick)
        PROVE  AInv'
    <2>1. /\ active' = [k \in Keys |-> None]
          /\ flight' = Marked(Keys, {active[k] : k \in Keys})
          /\ UNCHANGED callVars
      BY <1>3 DEF Clear
    <2>2. WaitsOK' /\ JoinsOK' /\ OwnedKeys' = OwnedKeys BY <1>0, <2>1, MarkStep
    <2>3. EntriesOK(cache', lastTick', OwnedKeys)
      BY <1>0, <1>3, ClearedOK DEF Clear, EntriesOK
    <2> QED BY <1>0, <1>3, <2>2, <2>3, NowOK DEF AInv, Clear
  <1>4. ASSUME NEW k \in Keys, SetFails(k)
        PROVE  AInv'
    <2>1. WaitsOK' /\ JoinsOK' /\ OwnedKeys' = OwnedKeys
      BY <1>0, <1>4, SupersedeStep DEF SetFails
    <2> QED BY <1>4, <2>1 DEF AInv, SetFails
  <1> QED BY <1>1, <1>2, <1>3, <1>4 DEF Write

-----------------------------------------------------------------------------
(* Loads begin, are joined and end                                         *)

\* A flight that is not used is typed, and nobody waits for it.
LEMMA NewFlight ==
    ASSUME NEW k \in Keys
    PROVE  /\ NoFlight(k) \in FlightType /\ NoFlight(k).key = k /\ ~NoFlight(k).owned
           /\ NoFlight(k).waiters = 0 /\ ~NoFlight(k).abandoned
           /\ ~NoFlight(k).superseded /\ ~NoFlight(k).stale
  BY DEF NoFlight, FlightType

\* A caller that joins a load is one more waiter of it.
LEMMA JoinStep ==
    ASSUME AInv, NEW c \in Callers, NEW k \in Keys, NEW tick \in Ticks, Join(c, k, tick)
    PROVE  AInv'
  <1> DEFINE f == active[k]
             r == [flight[f] EXCEPT !.waiters = @ + 1]
  <1>0. WaitsOK /\ JoinsOK /\ lastTick \in Nat BY DEF AInv
  <1>1. /\ wait[c] = None /\ f # None /\ lastTick' = Now(tick)
        /\ cache' = Purge(cache, Now(tick), OwnedKeys)
        /\ flight' = [flight EXCEPT ![f].waiters = @ + 1]
        /\ wait' = [wait EXCEPT ![c] = f]
        /\ UNCHANGED <<epoch, active, leaving>>
    BY DEF Join, Misses, MayLoad
  <1>2. f \in Owned /\ f \in FlightIds /\ flight[f].owned /\ ~flight[f].abandoned
    BY <1>0, <1>1 DEF JoinsOK, JoinsFreshLoad, Owned
  <1> HIDE DEF f
  <1>3. flight \in [FlightIds -> FlightType] /\ flight[f] \in FlightType
    BY <1>0, <1>2 DEF WaitsOK
  <1>4. /\ r \in FlightType /\ r.waiters = flight[f].waiters + 1 /\ r.owned = flight[f].owned
        /\ r.key = flight[f].key /\ r.ttl = flight[f].ttl /\ r.abandoned = flight[f].abandoned
        /\ r.superseded = flight[f].superseded /\ r.stale = flight[f].stale
    BY <1>3 DEF FlightType
  <1>5. flight' = [flight EXCEPT ![f] = r] BY <1>1
  <1> HIDE DEF r
  <1>6. /\ flight' \in [FlightIds -> FlightType] /\ flight'[f] = r
        /\ \A g \in FlightIds : g # f => flight'[g] = flight[g]
    BY <1>2, <1>3, <1>4, <1>5
  <1>7. Owned' = Owned /\ Owned \subseteq FlightIds BY <1>2, <1>4, <1>6 DEF Owned
  <1>8. OwnedKeys' = OwnedKeys BY <1>4, <1>6, <1>7 DEF OwnedKeys, KeysOf
  <1>9. /\ wait' \in [Callers -> FlightIds \cup {None}]
        /\ CountOf(wait', f) = CountOf(wait, f) + 1
        /\ \A g \in FlightIds : g # f => CountOf(wait', g) = CountOf(wait, g)
    <2>1. wait \in [Callers -> FlightIds \cup {None}] BY <1>0 DEF WaitsOK
    <2>2. wait[c] = None /\ wait' = [wait EXCEPT ![c] = f] /\ f \in FlightIds BY <1>1, <1>2
    <2> QED BY <2>1, <2>2, CountJoin
  <1>10. WaitsOK'
    <2>1. flight[f].waiters \in Nat BY <1>3 DEF FlightType
    <2>2. /\ flight'[f].waiters = CountOf(wait', f) /\ flight'[f].ttl \in TTLs
          /\ ~flight'[f].abandoned /\ flight'[f].waiters # 0
      BY <1>0, <1>2, <1>4, <1>6, <1>9, <2>1 DEF WaitsOK
    <2>3. ASSUME NEW g \in FlightIds, g # f
          PROVE  /\ flight'[g].waiters = CountOf(wait', g)
                 /\ flight'[g].owned => flight'[g].ttl \in TTLs
                 /\ flight'[g].owned => (flight'[g].abandoned <=> flight'[g].waiters = 0)
      BY <1>0, <1>6, <1>9, <2>3 DEF WaitsOK
    <2> QED BY <1>0, <1>1, <1>6, <1>9, <2>2, <2>3 DEF WaitsOK
  <1>11. JoinsOK'
    <2>1. \A g \in FlightIds :
             /\ flight'[g].key = flight[g].key /\ flight'[g].superseded = flight[g].superseded
             /\ flight'[g].stale = flight[g].stale /\ flight'[g].abandoned = flight[g].abandoned
      BY <1>4, <1>6
    <2> QED BY <1>0, <1>1, <1>7, <2>1 DEF JoinsOK, JoinsFreshLoad
  <1>12. EntriesOK(cache', lastTick', OwnedKeys') /\ lastTick' \in Nat
    BY <1>1, <1>8, NowOK, PurgeKeeps DEF AInv
  <1> QED BY <1>1, <1>10, <1>11, <1>12 DEF AInv

\* The first waiter of a new load is the caller that begins it.
LEMMA BeginStep ==
    ASSUME AInv, NEW c \in Callers, NEW k \in Keys, NEW ttl \in TTLs, NEW tick \in Ticks,
           BeginLoad(c, k, ttl, tick)
    PROVE  AInv'
  <1>0. WaitsOK /\ JoinsOK /\ lastTick \in Nat /\ epoch \in Nat BY DEF AInv
  <1> DEFINE new == [NoFlight(k) EXCEPT
                        !.owned = TRUE, !.epoch = epoch, !.ttl = ttl,
                        !.version = cache'.versions[k], !.waiters = 1,
                        !.scope = Scope(c) \cup {k}]
  <1>1. /\ wait[c] = None /\ active[k] = None /\ lastTick' = Now(tick)
        /\ cache' = Purge(cache, Now(tick), OwnedKeys)
        /\ UNCHANGED <<epoch, leaving>>
    BY DEF BeginLoad, Misses, MayLoad, MayBegin
  <1>2. PICK f \in Free : /\ flight' = [flight EXCEPT ![f] = new]
                          /\ active' = [active EXCEPT ![k] = f]
                          /\ wait' = [wait EXCEPT ![c] = f]
    BY DEF BeginLoad
  <1>3. f \in FlightIds /\ ~flight[f].owned /\ flight[f].waiters = 0 /\ f # None
    BY LoadAssumption DEF Free
  <1>4. EntriesOK(cache', lastTick', OwnedKeys) /\ lastTick' \in Nat
    BY <1>1, NowOK, PurgeKeeps DEF AInv
  <1>5. Scope(c) \cup {k} \in SUBSET Keys BY <1>0 DEF Scope, WaitsOK, FlightType
  <1>6. cache'.versions[k] \in Nat /\ ttl \in Nat
    BY <1>4, LoadAssumption DEF EntriesOK, CacheType
  <1>7. /\ NoFlight(k) \in FlightType /\ NoFlight(k).key = k
        /\ ~NoFlight(k).abandoned /\ ~NoFlight(k).superseded /\ ~NoFlight(k).stale
    BY NewFlight
  <1>8. /\ new \in FlightType /\ new.owned /\ new.key = k /\ new.ttl = ttl /\ new.waiters = 1
        /\ ~new.abandoned /\ ~new.superseded /\ ~new.stale
    BY <1>0, <1>5, <1>6, <1>7 DEF FlightType
  <1> HIDE DEF new
  <1>9. /\ flight' \in [FlightIds -> FlightType] /\ flight'[f] = new
        /\ \A g \in FlightIds : g # f => flight'[g] = flight[g]
    BY <1>0, <1>2, <1>3, <1>8 DEF WaitsOK
  <1>10. Owned' = Owned \cup {f} /\ f \notin Owned /\ Owned \subseteq FlightIds
    BY <1>3, <1>8, <1>9 DEF Owned
  <1>11. OwnedKeys \subseteq OwnedKeys' BY <1>9, <1>10 DEF OwnedKeys, KeysOf
  <1>12. EntriesOK(cache', lastTick', OwnedKeys')
    BY <1>4, <1>11 DEF EntriesOK, NoSpareVersion
  <1>13. /\ wait' \in [Callers -> FlightIds \cup {None}]
         /\ CountOf(wait', f) = CountOf(wait, f) + 1
         /\ \A g \in FlightIds : g # f => CountOf(wait', g) = CountOf(wait, g)
    <2>1. wait \in [Callers -> FlightIds \cup {None}] BY <1>0 DEF WaitsOK
    <2>2. wait[c] = None /\ wait' = [wait EXCEPT ![c] = f] /\ f \in FlightIds
      BY <1>1, <1>2, <1>3
    <2> QED BY <2>1, <2>2, CountJoin
  <1>14. WaitsOK'
    <2>1. CountOf(wait, f) = 0 BY <1>0, <1>3 DEF WaitsOK
    <2>2. /\ flight'[f].waiters = CountOf(wait', f) /\ flight'[f].ttl \in TTLs
          /\ ~flight'[f].abandoned /\ flight'[f].waiters # 0
      BY <1>8, <1>9, <1>13, <2>1
    <2>3. ASSUME NEW g \in FlightIds, g # f
          PROVE  /\ flight'[g].waiters = CountOf(wait', g)
                 /\ flight'[g].owned => flight'[g].ttl \in TTLs
                 /\ flight'[g].owned => (flight'[g].abandoned <=> flight'[g].waiters = 0)
      BY <1>0, <1>9, <1>13, <2>3 DEF WaitsOK
    <2> QED BY <1>0, <1>1, <1>9, <1>13, <2>2, <2>3 DEF WaitsOK
  <1>15. /\ active' \in [Keys -> FlightIds \cup {None}] /\ active'[k] = f
         /\ \A j \in Keys : j # k => active'[j] = active[j]
    BY <1>0, <1>2, <1>3 DEF JoinsOK
  <1>16. JoinsFreshLoad'
    <2> SUFFICES ASSUME NEW j \in Keys, active'[j] # None
                 PROVE  /\ active'[j] \in Owned' /\ flight'[active'[j]].key = j
                        /\ ~flight'[active'[j]].superseded /\ ~flight'[active'[j]].stale
                        /\ ~flight'[active'[j]].abandoned
      BY DEF JoinsFreshLoad
    <2>1. CASE j = k BY <1>8, <1>9, <1>10, <1>15, <2>1
    <2>2. CASE j # k
      <3>1. active'[j] = active[j] /\ active[j] \in Owned BY <1>0, <1>15, <2>2 DEF JoinsOK, JoinsFreshLoad
      <3>2. active[j] # f /\ active[j] \in FlightIds BY <1>10, <3>1
      <3>3. flight'[active[j]] = flight[active[j]] BY <1>9, <3>2
      <3> QED BY <1>0, <1>10, <3>1, <3>3, <2>2 DEF JoinsOK, JoinsFreshLoad
    <2> QED BY <2>1, <2>2
  <1> QED BY <1>0, <1>1, <1>4, <1>12, <1>14, <1>15, <1>16 DEF AInv, JoinsOK

\* A load that ends keeps its waiters until they leave.
LEMMA FinishStep ==
    ASSUME AInv, NEW f \in FlightIds, NEW returns \in BOOLEAN, NEW clockOk \in BOOLEAN,
           NEW tick \in Ticks, FinishLoad(f, returns, clockOk, tick)
    PROVE  AInv'
  <1> DEFINE k == flight[f].key
             publish == returns /\ CanPublish(f) /\ clockOk
             rest == KeysOf(Owned \ {f})
             stored == IF publish
                       THEN Store(cache, k, flight[f].ttl, Now(tick), OwnedKeys)
                       ELSE cache
             end == [NoFlight(k) EXCEPT !.waiters = flight[f].waiters]
  <1>0. WaitsOK /\ JoinsOK /\ lastTick \in Nat /\ epoch \in Nat BY DEF AInv
  <1>1. /\ flight[f].owned
        /\ cache' = Drop(stored, k, rest)
        /\ lastTick' = IF publish THEN Now(tick) ELSE lastTick
        /\ active' = IF active[k] = f THEN [active EXCEPT ![k] = None] ELSE active
        /\ flight' = [flight EXCEPT ![f] = end]
        /\ UNCHANGED <<epoch, wait, leaving>>
    BY DEF FinishLoad, callVars
  <1>2. flight[f] \in FlightType /\ k \in Keys /\ flight[f].ttl \in TTLs
    BY <1>0, <1>1 DEF WaitsOK, FlightType
  <1>3. NoFlight(k) \in FlightType /\ ~NoFlight(k).owned BY <1>2, NewFlight
  <1>4. end \in FlightType /\ ~end.owned /\ end.waiters = flight[f].waiters
    BY <1>2, <1>3 DEF FlightType
  <1>5. f \in Owned /\ k \in OwnedKeys BY <1>1 DEF Owned, OwnedKeys, KeysOf
  <1> HIDE DEF k, end
  <1>6. EntriesOK(stored, lastTick', OwnedKeys) /\ lastTick' \in Nat
    <2>1. CASE publish
      <3>1. flight[f].ttl \in Nat \ {0} /\ Now(tick) \in Nat BY <1>0, <1>2, NowOK, LoadAssumption
      <3>2. EntriesOK(Store(cache, k, flight[f].ttl, Now(tick), OwnedKeys), Now(tick), OwnedKeys)
        BY <1>2, <3>1, StoreOK DEF AInv, EntriesOK
      <3> QED BY <1>1, <2>1, <3>1, <3>2
    <2>2. CASE ~publish BY <1>1, <2>2 DEF AInv
    <2> QED BY <2>1, <2>2
  <1> HIDE DEF stored, publish, rest
  <1>7. /\ flight' \in [FlightIds -> FlightType] /\ flight'[f] = end
        /\ \A g \in FlightIds : g # f => flight'[g] = flight[g]
    BY <1>0, <1>1, <1>4 DEF WaitsOK
  <1>8. Owned' = Owned \ {f} /\ Owned \subseteq FlightIds BY <1>4, <1>7 DEF Owned
  <1>9. OwnedKeys' = rest /\ OwnedKeys \subseteq rest \cup {k}
    BY <1>7, <1>8 DEF OwnedKeys, KeysOf, rest, k
  <1>10. EntriesOK(cache', lastTick', OwnedKeys')
    <2>1. NoSpareVersion(stored, rest \cup {k}) BY <1>6, <1>9 DEF EntriesOK, NoSpareVersion
    <2> QED BY <1>1, <1>2, <1>6, <1>9, <2>1, DropOK DEF EntriesOK
  <1>11. WaitsOK'
    <2>1. ASSUME NEW g \in FlightIds
          PROVE  /\ flight'[g].waiters = CountOf(wait', g)
                 /\ flight'[g].owned => flight'[g].ttl \in TTLs
                 /\ flight'[g].owned => (flight'[g].abandoned <=> flight'[g].waiters = 0)
      <3>1. CASE g = f BY <1>0, <1>1, <1>4, <1>7, <3>1 DEF WaitsOK
      <3>2. CASE g # f BY <1>0, <1>1, <1>7, <3>2 DEF WaitsOK
      <3> QED BY <3>1, <3>2
    <2> QED BY <1>0, <1>1, <1>7, <2>1 DEF WaitsOK
  <1>12. /\ active' \in [Keys -> FlightIds \cup {None}]
         /\ \A j \in Keys : active'[j] = IF active[j] = f /\ j = k THEN None ELSE active[j]
    BY <1>0, <1>1, <1>2 DEF JoinsOK
  <1>13. JoinsFreshLoad'
    <2> SUFFICES ASSUME NEW j \in Keys, active'[j] # None
                 PROVE  /\ active'[j] \in Owned' /\ flight'[active'[j]].key = j
                        /\ ~flight'[active'[j]].superseded /\ ~flight'[active'[j]].stale
                        /\ ~flight'[active'[j]].abandoned
      BY DEF JoinsFreshLoad
    <2>1. active'[j] = active[j] /\ active[j] # None /\ ~(active[j] = f /\ j = k) BY <1>12
    <2>2. /\ active[j] \in Owned /\ flight[active[j]].key = j
          /\ ~flight[active[j]].superseded /\ ~flight[active[j]].stale
          /\ ~flight[active[j]].abandoned
      BY <1>0, <2>1 DEF JoinsOK, JoinsFreshLoad
    <2>3. active[j] # f BY <2>1, <2>2 DEF k
    <2>4. flight'[active[j]] = flight[active[j]] BY <1>7, <1>8, <2>2, <2>3
    <2> QED BY <1>8, <2>1, <2>2, <2>3, <2>4
  <1> QED BY <1>0, <1>1, <1>6, <1>10, <1>11, <1>12, <1>13 DEF AInv, JoinsOK

-----------------------------------------------------------------------------
(* Callers that leave                                                      *)

\* A cancellation is only noted.
LEMMA CancelStep ==
    ASSUME AInv, NEW c \in Callers, Cancel(c) PROVE AInv'
  <1>1. UNCHANGED <<cache, lastTick, epoch, active, flight, wait>> BY DEF Cancel
  <1>2. leaving' \in [Callers -> BOOLEAN] BY DEF AInv, WaitsOK, Cancel
  <1>3. WaitsOK' BY <1>1, <1>2 DEF AInv, WaitsOK
  <1>4. JoinsOK' /\ OwnedKeys' = OwnedKeys
    BY <1>1, OwnedSame DEF AInv, JoinsOK, JoinsFreshLoad
  <1> QED BY <1>1, <1>3, <1>4 DEF AInv

\* A caller that leaves is one waiter less, and the last one abandons the
\* load.
LEMMA ReleaseStep ==
    ASSUME AInv, NEW c \in Callers, Release(c) PROVE AInv'
  <1> DEFINE f == wait[c]
             aband == Abandons(c, f)
             r == [flight[f] EXCEPT !.waiters = @ - 1, !.abandoned = @ \/ aband]
  <1>0. WaitsOK /\ JoinsOK BY DEF AInv
  <1>1. /\ f # None /\ wait' = [wait EXCEPT ![c] = None] /\ UNCHANGED <<lastTick, epoch>>
        /\ \/ /\ ~aband
              /\ flight' = [flight EXCEPT ![f].waiters = @ - 1]
              /\ leaving' = [leaving EXCEPT ![c] = FALSE]
              /\ UNCHANGED <<cache, active>>
           \/ /\ aband
              /\ flight' = [flight EXCEPT ![f].waiters = @ - 1, ![f].abandoned = TRUE]
              /\ active' = [k \in Keys |-> IF active[k] = f THEN None ELSE active[k]]
              /\ cache' = Bumped(cache, flight[f].key)
              /\ leaving' = [leaving EXCEPT ![c] = FALSE, ![f] = wait[f] # None]
    BY DEF Release
  <1>2. f \in FlightIds BY <1>0, <1>1 DEF WaitsOK
  <1>3. /\ wait' \in [Callers -> FlightIds \cup {None}]
        /\ CountOf(wait', f) = CountOf(wait, f) - 1 /\ CountOf(wait, f) # 0
        /\ \A g \in FlightIds : g # f => CountOf(wait', g) = CountOf(wait, g)
    <2>1. wait \in [Callers -> FlightIds \cup {None}] BY <1>0 DEF WaitsOK
    <2> QED BY <1>1, <1>2, <2>1, CountLeave
  <1>4. aband <=> flight[f].owned /\ flight[f].waiters = 1 BY DEF Abandons
  <1> HIDE DEF f, aband
  <1>5. /\ flight[f] \in FlightType /\ flight[f].waiters \in Nat
        /\ flight[f].waiters = CountOf(wait, f)
    BY <1>0, <1>2 DEF WaitsOK, FlightType
  <1>6. flight[f].owned => ~flight[f].abandoned BY <1>0, <1>2, <1>3, <1>5 DEF WaitsOK
  <1>7. /\ flight' \in [FlightIds -> FlightType]
        /\ \A g \in FlightIds : g # f => flight'[g] = flight[g]
        /\ flight'[f].waiters = flight[f].waiters - 1
        /\ flight'[f].owned = flight[f].owned /\ flight'[f].key = flight[f].key
        /\ flight'[f].ttl = flight[f].ttl /\ flight'[f].superseded = flight[f].superseded
        /\ flight'[f].stale = flight[f].stale
        /\ ~aband => flight'[f].abandoned = flight[f].abandoned
        /\ aband => flight'[f].abandoned
    <2>1. flight \in [FlightIds -> FlightType] BY <1>0 DEF WaitsOK
    <2>2. flight[f].waiters - 1 \in Nat BY <1>3, <1>5
    <2>3. CASE ~aband
      <3> DEFINE q == [flight[f] EXCEPT !.waiters = @ - 1]
      <3>1. flight' = [flight EXCEPT ![f] = q] BY <1>1, <2>3
      <3>2. q \in FlightType BY <1>5, <2>2 DEF FlightType
      <3>3. /\ q.waiters = flight[f].waiters - 1
            /\ q.owned = flight[f].owned /\ q.key = flight[f].key
            /\ q.ttl = flight[f].ttl /\ q.superseded = flight[f].superseded
            /\ q.stale = flight[f].stale /\ q.abandoned = flight[f].abandoned
        BY <1>5 DEF FlightType
      <3> HIDE DEF q
      <3>4. flight'[f] = q BY <1>2, <2>1, <3>1
      <3>5. \A g \in FlightIds : g # f => flight'[g] = flight[g] BY <2>1, <3>1
      <3>6. flight' \in [FlightIds -> FlightType] BY <1>2, <2>1, <3>1, <3>2
      <3> QED BY <2>3, <3>3, <3>4, <3>5, <3>6
    <2>4. CASE aband
      <3> DEFINE q == [flight[f] EXCEPT !.waiters = @ - 1, !.abandoned = TRUE]
      <3>1. flight' = [flight EXCEPT ![f] = q] BY <1>1, <2>4
      <3>2. q \in FlightType BY <1>5, <2>2 DEF FlightType
      <3>3. /\ q.waiters = flight[f].waiters - 1
            /\ q.owned = flight[f].owned /\ q.key = flight[f].key
            /\ q.ttl = flight[f].ttl /\ q.superseded = flight[f].superseded
            /\ q.stale = flight[f].stale /\ q.abandoned = TRUE
        BY <1>5 DEF FlightType
      <3> HIDE DEF q
      <3>4. flight'[f] = q BY <1>2, <2>1, <3>1
      <3>5. \A g \in FlightIds : g # f => flight'[g] = flight[g] BY <2>1, <3>1
      <3>6. flight' \in [FlightIds -> FlightType] BY <1>2, <2>1, <3>1, <3>2
      <3> QED BY <2>4, <3>3, <3>4, <3>5, <3>6
    <2> QED BY <2>3, <2>4
  <1>8. Owned' = Owned /\ Owned \subseteq FlightIds BY <1>2, <1>7 DEF Owned
  <1>9. OwnedKeys' = OwnedKeys BY <1>2, <1>7, <1>8 DEF OwnedKeys, KeysOf
  <1>10. leaving' \in [Callers -> BOOLEAN]
    <2>1. leaving \in [Callers -> BOOLEAN] BY <1>0 DEF WaitsOK
    <2>2. CASE leaving' = [leaving EXCEPT ![c] = FALSE] BY <2>1, <2>2
    <2>3. CASE leaving' = [leaving EXCEPT ![c] = FALSE, ![f] = wait[f] # None]
      <3>1. (wait[f] # None) \in BOOLEAN OBVIOUS
      <3> QED BY <2>1, <2>3, <3>1, Zenon
    <2> QED BY <1>1, <2>2, <2>3
  <1>11. WaitsOK'
    <2>1. /\ flight'[f].waiters = CountOf(wait', f)
          /\ flight'[f].owned => flight'[f].ttl \in TTLs
      BY <1>0, <1>2, <1>3, <1>5, <1>7 DEF WaitsOK
    <2>2. flight'[f].owned => (flight'[f].abandoned <=> flight'[f].waiters = 0)
      <3>1. CASE aband BY <1>4, <1>7, <3>1
      <3>2. CASE ~aband /\ flight[f].owned
        <4>1. flight'[f].waiters # 0 BY <1>4, <1>5, <1>7, <3>2
        <4>2. ~flight'[f].abandoned BY <1>6, <1>7, <3>2
        <4> QED BY <4>1, <4>2
      <3> QED BY <1>7, <3>1, <3>2
    <2>3. ASSUME NEW g \in FlightIds, g # f
          PROVE  /\ flight'[g].waiters = CountOf(wait', g)
                 /\ flight'[g].owned => flight'[g].ttl \in TTLs
                 /\ flight'[g].owned => (flight'[g].abandoned <=> flight'[g].waiters = 0)
      BY <1>0, <1>3, <1>7, <2>3 DEF WaitsOK
    <2> QED BY <1>3, <1>7, <1>10, <2>1, <2>2, <2>3 DEF WaitsOK
  <1>12. /\ active' \in [Keys -> FlightIds \cup {None}]
         /\ \A k \in Keys : active'[k] \in {active[k], None}
         /\ aband => \A k \in Keys : active'[k] # f
    <2>1. active \in [Keys -> FlightIds \cup {None}] BY <1>0 DEF JoinsOK
    <2>2. CASE ~aband BY <1>1, <2>1, <2>2
    <2>3. CASE aband
      <3>1. active' = [k \in Keys |-> IF active[k] = f THEN None ELSE active[k]] BY <1>1, <2>3
      <3> QED BY <1>1, <2>1, <3>1
    <2> QED BY <2>2, <2>3
  <1>13. JoinsFreshLoad'
    <2> SUFFICES ASSUME NEW k \in Keys, active'[k] # None
                 PROVE  /\ active'[k] \in Owned' /\ flight'[active'[k]].key = k
                        /\ ~flight'[active'[k]].superseded /\ ~flight'[active'[k]].stale
                        /\ ~flight'[active'[k]].abandoned
      BY DEF JoinsFreshLoad
    <2>1. active'[k] = active[k] /\ active[k] # None /\ (aband => active[k] # f) BY <1>12
    <2>2. /\ active[k] \in Owned /\ flight[active[k]].key = k
          /\ ~flight[active[k]].superseded /\ ~flight[active[k]].stale
          /\ ~flight[active[k]].abandoned
      BY <1>0, <2>1 DEF JoinsOK, JoinsFreshLoad
    <2>3. CASE active[k] = f BY <1>7, <1>8, <2>1, <2>2, <2>3
    <2>4. CASE active[k] # f
      <3>1. flight'[active[k]] = flight[active[k]] BY <1>7, <1>8, <2>2, <2>4
      <3> QED BY <1>8, <2>1, <2>2, <3>1
    <2> QED BY <2>3, <2>4
  <1>14. EntriesOK(cache', lastTick', OwnedKeys')
    <2>1. EntriesOK(cache, lastTick, OwnedKeys) BY DEF AInv
    <2>2. CASE ~aband BY <1>1, <1>9, <2>1, <2>2
    <2>3. CASE aband
      <3>1. f \in Owned /\ flight[f].key \in Keys /\ flight[f].key \in OwnedKeys
        BY <1>2, <1>4, <1>5, <2>3 DEF Owned, OwnedKeys, KeysOf, FlightType
      <3>2. EntriesOK(Bumped(cache, flight[f].key), lastTick, OwnedKeys) BY <2>1, <3>1, BumpedOK
      <3> QED BY <1>1, <1>9, <2>3, <3>2
    <2> QED BY <2>2, <2>3
  <1> QED BY <1>1, <1>11, <1>12, <1>13, <1>14 DEF AInv, JoinsOK

-----------------------------------------------------------------------------
(* All steps, and what follows                                             *)

\* The invariant holds at the start.
LEMMA AInvInit == Init => AInv
  <1> SUFFICES ASSUME Init PROVE AInv OBVIOUS
  <1> DEFINE k == CHOOSE k \in Keys : TRUE
  <1>1. k \in Keys BY LoadAssumption
  <1>2. \A f \in FlightIds : flight[f] = NoFlight(k) BY DEF Init
  <1> HIDE DEF k
  <1>3. NoFlight(k) \in FlightType /\ ~NoFlight(k).owned /\ NoFlight(k).waiters = 0
    BY <1>1, NewFlight
  <1>4. flight \in [FlightIds -> FlightType] BY <1>2, <1>3 DEF Init
  <1>5. ASSUME NEW f \in FlightIds PROVE CountOf(wait, f) = 0
    <2>1. f # None BY LoadAssumption
    <2>2. {c \in Callers : wait[c] = f} = {} BY <2>1 DEF Init
    <2> QED BY <2>2, CountType
  <1>6. WaitsOK BY <1>2, <1>3, <1>4, <1>5 DEF Init, WaitsOK
  <1>7. JoinsOK BY DEF Init, JoinsOK, JoinsFreshLoad
  <1>8. EntriesOK(cache, lastTick, OwnedKeys) BY EmptyCacheOK DEF Init, EntriesOK
  <1> QED BY <1>6, <1>7, <1>8 DEF Init, AInv

\* Every step keeps the invariant.
LEMMA AInvStep == AInv /\ [Next]_vars => AInv'
  <1> SUFFICES ASSUME AInv, [Next]_vars PROVE AInv' OBVIOUS
  <1>1. ASSUME NEW tick \in Ticks, Read(tick) PROVE AInv'
    <2>1. UNCHANGED <<epoch, active, flight, callVars>> /\ lastTick' = Now(tick)
      BY <1>1 DEF Read, Sweep, Get
    <2>2. \/ cache' = Purge(cache, Now(tick), OwnedKeys)
          \/ \E k \in Keys : cache' = Touch(Purge(cache, Now(tick), OwnedKeys), k)
      BY <1>1 DEF Read, Sweep, Get, Hit
    <2> QED BY <2>1, <2>2, ReadStep
  <1>2. ASSUME NEW c \in Callers, NEW k \in Keys, NEW tick \in Ticks, Load(c, k, tick) PROVE AInv'
    <2>1. ASSUME LoadHit(c, k, tick) PROVE AInv' BY <2>1, ReadStep DEF LoadHit
    <2>2. ASSUME Reject(c, k, tick) PROVE AInv' BY <2>2, ReadStep DEF Reject, Misses
    <2>3. ASSUME BeginFails(c, k, tick) PROVE AInv' BY <2>3, ReadStep DEF BeginFails, Misses
    <2> QED BY <1>2, <2>1, <2>2, <2>3, JoinStep, BeginStep DEF Load
  <1>3. ASSUME NEW f \in FlightIds, Finish(f) PROVE AInv' BY <1>3, FinishStep DEF Finish
  <1>4. CASE UNCHANGED vars
    <2>1. UNCHANGED <<cache, lastTick, epoch>> /\ UNCHANGED <<active, flight, wait, leaving>>
      BY <1>4 DEF vars
    <2> QED BY <2>1, LoadsSame DEF AInv
  <1> QED BY <1>1, <1>2, <1>3, <1>4, WriteStep, CancelStep, ReleaseStep DEF Next

\* The invariant holds in every behaviour of the cache.
THEOREM Invariance == Spec => []AInv
  BY AInvInit, AInvStep, PTL DEF Spec

\* The variables keep their types.
THEOREM TypeCorrect == Spec => []TypeOK
  <1>1. AInv => TypeOK
    BY DEF AInv, EntriesOK, WaitsOK, JoinsOK, TypeOK, FlightType
  <1> QED BY <1>1, Invariance, PTL

\* The waiters of a load are counted exactly whatever joins, cancellations
\* and nested loads there are, and the load is abandoned with the last one.
THEOREM AbandonmentExact == Spec => []AbandonedWhenAlone
  <1>1. AInv => AbandonedWhenAlone
    <2> SUFFICES ASSUME AInv, NEW f \in FlightIds
                 PROVE  /\ flight[f].waiters = Cardinality(WaitersOf(f))
                        /\ flight[f].owned => (flight[f].abandoned <=> WaitersOf(f) = {})
      BY DEF AbandonedWhenAlone
    <2>1. CountOf(wait, f) = 0 <=> WaitersOf(f) = {} BY CountType DEF WaitersOf
    <2>2. CountOf(wait, f) = Cardinality(WaitersOf(f)) BY DEF CountOf, WaitersOf
    <2> QED BY <2>1, <2>2 DEF AInv, WaitsOK
  <1> QED BY <1>1, Invariance, PTL

\* A caller joins only a load that runs, was not abandoned and began after
\* the last set, invalidate or clear of its key.
THEOREM JoinCorrect == Spec => []JoinsFreshLoad
  <1>1. AInv => JoinsFreshLoad BY DEF AInv, JoinsOK
  <1> QED BY <1>1, Invariance, PTL

\* No entry is past its time, each has the heap node that will expire it, and
\* versions are kept only for entries and for running loads, the abandoned
\* ones included.
THEOREM EntriesCorrect ==
    Spec => [](HasNodes(cache) /\ Timely(cache, lastTick) /\ NoSpareVersion(cache, OwnedKeys))
  <1>1. AInv => HasNodes(cache) /\ Timely(cache, lastTick) /\ NoSpareVersion(cache, OwnedKeys)
    BY DEF AInv, EntriesOK
  <1> QED BY <1>1, Invariance, PTL

\* A load that was abandoned or outdated ends without touching an entry.
THEOREM LateLoadsHarmless == Spec => LateLoadsPublishNothing
  <1>1. ASSUME AInv, [Next]_vars
        PROVE  [\A f \in Owned : (flight[f].stale \/ flight[f].abandoned) /\ ~flight'[f].owned =>
                   cache'.entry = cache.entry /\ cache'.heap = cache.heap]_vars
    <2> SUFFICES ASSUME NEW f \in Owned, flight[f].stale \/ flight[f].abandoned,
                        ~flight'[f].owned
                 PROVE  cache'.entry = cache.entry /\ cache'.heap = cache.heap
      OBVIOUS
    <2>1. f \in FlightIds /\ flight[f].owned BY DEF Owned
    <2>2. /\ WaitsOK /\ JoinsOK /\ CacheType(cache)
          /\ flight \in [FlightIds -> FlightType] /\ flight[f] \in FlightType
      BY <1>1, <2>1 DEF AInv, EntriesOK, WaitsOK
    <2>3. ASSUME NEW K, NEW S, flight' = Marked(K, S) PROVE FALSE
      BY <2>1, <2>2, <2>3, MarkedOK
    <2>4. ASSUME UNCHANGED flight PROVE FALSE BY <2>1, <2>4
    <2>5. ASSUME NEW g \in FlightIds, NEW r \in FlightType, r.owned \/ g # f,
                 flight' = [flight EXCEPT ![g] = r]
          PROVE  FALSE
      BY <2>1, <2>2, <2>5
    <2>6. ASSUME NEW c \in Callers, NEW k \in Keys, NEW tick \in Ticks, Join(c, k, tick)
          PROVE  FALSE
      <3>1. active[k] \in FlightIds /\ flight' = [flight EXCEPT ![active[k]].waiters = @ + 1]
        BY <2>2, <2>6 DEF Join, JoinsOK
      <3>2. flight[active[k]] \in FlightType BY <2>2, <3>1
      <3> QED BY <2>1, <2>2, <3>1, <3>2 DEF FlightType
    <2>7. ASSUME NEW c \in Callers, NEW k \in Keys, NEW ttl \in TTLs, NEW tick \in Ticks,
                 BeginLoad(c, k, ttl, tick)
          PROVE  FALSE
      <3>1. PICK g \in Free : \E r : flight' = [flight EXCEPT ![g] = r] BY <2>7 DEF BeginLoad
      <3>2. g # f BY <2>1 DEF Free
      <3> QED BY <2>1, <2>2, <3>1, <3>2
    <2>8. ASSUME NEW c \in Callers, Release(c) PROVE FALSE
      <3>1. wait[c] \in FlightIds BY <2>2, <2>8 DEF Release, WaitsOK
      <3>2. flight[wait[c]] \in FlightType BY <2>2, <3>1
      <3>3. flight'[f].owned = flight[f].owned
        <4>1. CASE flight' = [flight EXCEPT ![wait[c]].waiters = @ - 1]
          BY <2>1, <2>2, <3>1, <3>2, <4>1 DEF FlightType
        <4>2. CASE flight' = [flight EXCEPT ![wait[c]].waiters = @ - 1, ![wait[c]].abandoned = TRUE]
          BY <2>1, <2>2, <3>1, <3>2, <4>2 DEF FlightType
        <4> QED BY <2>8, <4>1, <4>2 DEF Release
      <3> QED BY <2>1, <3>3
    <2>9. ASSUME NEW g \in FlightIds, NEW returns \in BOOLEAN, NEW clockOk \in BOOLEAN,
                 NEW tick \in Ticks, FinishLoad(g, returns, clockOk, tick)
          PROVE  cache'.entry = cache.entry /\ cache'.heap = cache.heap
      <3> DEFINE k == flight[g].key
      <3>1. f = g /\ k \in Keys
        <4>1. \E r : flight' = [flight EXCEPT ![g] = r] BY <2>9 DEF FinishLoad
        <4>2. g # f => flight'[f] = flight[f] BY <2>1, <2>2, <4>1
        <4> QED BY <2>1, <2>2, <4>2 DEF FlightType
      <3>2. ~CanPublish(g)
        <4>1. g # None BY LoadAssumption
        <4>2. active[k] = g => ~flight[g].stale BY <2>2, <3>1, <4>1 DEF JoinsOK, JoinsFreshLoad
        <4> QED BY <3>1, <4>2 DEF CanPublish
      <3>3. \E owned : cache' = Drop(cache, k, owned) BY <2>9, <3>2 DEF FinishLoad
      <3> HIDE DEF k
      <3>4. PICK owned : cache' = Drop(cache, k, owned) BY <3>3
      <3>5. /\ Drop(cache, k, owned).entry = cache.entry
            /\ Drop(cache, k, owned).heap = cache.heap
        BY <2>2, <3>1, DropOK
      <3> QED BY <3>4, <3>5
    <2>10. \/ flight' = flight
           \/ \E K, S : flight' = Marked(K, S)
           \/ \E c \in Callers, k \in Keys, tick \in Ticks : Join(c, k, tick)
           \/ \E c \in Callers, k \in Keys, ttl \in TTLs, tick \in Ticks : BeginLoad(c, k, ttl, tick)
           \/ \E c \in Callers : Release(c)
           \/ \E g \in FlightIds, returns, clockOk \in BOOLEAN, tick \in Ticks :
                 FinishLoad(g, returns, clockOk, tick)
      BY <1>1 DEF Next, Read, Write, Load, Finish, Get, Sweep, Set, SetFails, Invalidate,
                  Clear, Supersede, LoadHit, Reject, BeginFails, Cancel, vars
    <2> QED BY <2>3, <2>4, <2>6, <2>7, <2>8, <2>9, <2>10
  <1> QED BY <1>1, Invariance, PTL DEF Spec, LateLoadsPublishNothing

-----------------------------------------------------------------------------
(* The limits of entries and loads                                         *)

\* Within is about the entries and their order of use; the loads counted are
\* all that run, superseded and abandoned ones included.
LimitInv == Within(cache) /\ Cardinality(Owned) <= MaxInflight

\* There are finitely many flights.
LEMMA OwnedFinite == IsFiniteSet(Owned) /\ Cardinality(Owned) \in Nat
  <1>1. IsFiniteSet(Owned) BY LoadAssumption, FS_Subset DEF Owned
  <1> QED BY <1>1, FS_CardinalityType

\* Of all steps only BeginLoad adds a load.
LEMMA OwnedShrinks ==
    ASSUME AInv, [Next]_vars
    PROVE  \/ Owned' \subseteq Owned
           \/ \E c \in Callers, k \in Keys, ttl \in TTLs, tick \in Ticks :
                 BeginLoad(c, k, ttl, tick)
  <1>1. flight \in [FlightIds -> FlightType] /\ WaitsOK /\ JoinsOK BY DEF AInv, WaitsOK
  <1>2. ASSUME NEW K, NEW S, flight' = Marked(K, S) PROVE Owned' \subseteq Owned
    BY <1>1, <1>2, MarkedOK DEF Owned
  <1>3. ASSUME NEW c \in Callers, NEW k \in Keys, NEW tick \in Ticks, Join(c, k, tick)
        PROVE  Owned' \subseteq Owned
    <2>1. active[k] \in FlightIds /\ flight' = [flight EXCEPT ![active[k]].waiters = @ + 1]
      BY <1>1, <1>3 DEF Join, JoinsOK
    <2>2. flight[active[k]] \in FlightType BY <1>1, <2>1
    <2> QED BY <1>1, <2>1, <2>2 DEF FlightType, Owned
  <1>4. ASSUME NEW c \in Callers, Release(c) PROVE Owned' \subseteq Owned
    <2>1. wait[c] \in FlightIds BY <1>1, <1>4 DEF Release, WaitsOK
    <2>2. flight[wait[c]] \in FlightType BY <1>1, <2>1
    <2>3. CASE flight' = [flight EXCEPT ![wait[c]].waiters = @ - 1]
      BY <1>1, <2>1, <2>2, <2>3 DEF FlightType, Owned
    <2>4. CASE flight' = [flight EXCEPT ![wait[c]].waiters = @ - 1, ![wait[c]].abandoned = TRUE]
      BY <1>1, <2>1, <2>2, <2>4 DEF FlightType, Owned
    <2> QED BY <1>4, <2>3, <2>4 DEF Release
  <1>5. ASSUME NEW f \in FlightIds, Finish(f) PROVE Owned' \subseteq Owned
    <2>1. flight[f].key \in Keys BY <1>1 DEF FlightType
    <2>2. flight' = [flight EXCEPT ![f] =
                       [NoFlight(flight[f].key) EXCEPT !.waiters = flight[f].waiters]]
      BY <1>5 DEF Finish, FinishLoad
    <2>3. ~[NoFlight(flight[f].key) EXCEPT !.waiters = flight[f].waiters].owned
      BY DEF NoFlight
    <2> QED BY <1>1, <2>2, <2>3 DEF Owned
  <1>6. \/ flight' = flight
        \/ \E K, S : flight' = Marked(K, S)
        \/ \E c \in Callers, k \in Keys, tick \in Ticks : Join(c, k, tick)
        \/ \E c \in Callers, k \in Keys, ttl \in TTLs, tick \in Ticks : BeginLoad(c, k, ttl, tick)
        \/ \E c \in Callers : Release(c)
        \/ \E f \in FlightIds : Finish(f)
    BY DEF Next, Read, Write, Load, Get, Sweep, Set, SetFails, Invalidate,
           Clear, Supersede, LoadHit, Reject, BeginFails, Cancel, vars
  <1>7. ASSUME flight' = flight PROVE Owned' \subseteq Owned BY <1>7 DEF Owned
  <1> QED BY <1>2, <1>3, <1>4, <1>5, <1>6, <1>7

\* BeginLoad looks at the limit before it adds a load.
LEMMA LoadsLimited ==
    ASSUME AInv, [Next]_vars, Cardinality(Owned) <= MaxInflight
    PROVE  Cardinality(Owned') <= MaxInflight
  <1>1. flight \in [FlightIds -> FlightType] BY DEF AInv, WaitsOK
  <1>2. IsFiniteSet(Owned) /\ Cardinality(Owned) \in Nat BY OwnedFinite
  <1>3. ASSUME Owned' \subseteq Owned PROVE Cardinality(Owned') <= MaxInflight
    <2>1. IsFiniteSet(Owned') /\ Cardinality(Owned') <= Cardinality(Owned)
      BY <1>2, <1>3, FS_Subset
    <2> QED BY <1>2, <2>1, FS_CardinalityType, LoadAssumption
  <1>4. ASSUME NEW c \in Callers, NEW k \in Keys, NEW ttl \in TTLs, NEW tick \in Ticks,
               BeginLoad(c, k, ttl, tick)
        PROVE  Cardinality(Owned') <= MaxInflight
    <2>1. PICK f \in Free : \E r : flight' = [flight EXCEPT ![f] = r] BY <1>4 DEF BeginLoad
    <2>2. Owned' \subseteq Owned \cup {f} BY <1>1, <2>1 DEF Owned
    <2>3. Cardinality(Owned) < MaxInflight BY <1>4 DEF BeginLoad, MayBegin
    <2>4. /\ IsFiniteSet(Owned \cup {f})
          /\ \/ Cardinality(Owned \cup {f}) = Cardinality(Owned)
             \/ Cardinality(Owned \cup {f}) = Cardinality(Owned) + 1
      BY <1>2, FS_AddElement
    <2>5. IsFiniteSet(Owned') /\ Cardinality(Owned') <= Cardinality(Owned \cup {f})
      BY <2>2, <2>4, FS_Subset
    <2>6. Cardinality(Owned') \in Nat BY <2>5, FS_CardinalityType
    <2> QED BY <1>2, <2>3, <2>4, <2>5, <2>6, LoadAssumption
  <1> QED BY <1>3, <1>4, OwnedShrinks

\* Whatever a step does to the entries, it leaves them within the capacity.
LEMMA EntriesLimited ==
    ASSUME AInv, [Next]_vars, Within(cache)
    PROVE  Within(cache')
  <1>1. CacheType(cache) /\ HasNodes(cache) /\ lastTick \in Nat /\ WaitsOK
    BY DEF AInv, EntriesOK
  <1>2. ASSUME NEW tick \in Ticks
        PROVE  /\ Now(tick) \in Nat
               /\ CacheType(Purge(cache, Now(tick), OwnedKeys))
               /\ Within(Purge(cache, Now(tick), OwnedKeys))
    BY <1>1, NowOK, PurgeOK, PurgeWithin
  <1>3. ASSUME NEW tick \in Ticks, NEW k \in Keys
        PROVE  /\ Within(Touch(Purge(cache, Now(tick), OwnedKeys), k))
               /\ Within(Drop(Purge(cache, Now(tick), OwnedKeys), k, OwnedKeys))
    BY <1>2, TouchWithin, DropWithin
  <1>4. ASSUME NEW tick \in Ticks, Read(tick) PROVE Within(cache')
    BY <1>2, <1>3, <1>4 DEF Read, Sweep, Get, Hit
  <1>5. ASSUME NEW tick \in Ticks, Write(tick) PROVE Within(cache')
    <2>1. ASSUME NEW k \in Keys, NEW ttl \in TTLs, Set(k, ttl, tick) PROVE Within(cache')
      BY <1>1, <1>2, <2>1, StoreWithin, LoadAssumption DEF Set
    <2>2. ASSUME NEW k \in Keys, Invalidate(k, tick) PROVE Within(cache')
      BY <1>1, <1>2, <2>2, InvalidatedWithin DEF Invalidate
    <2>3. ASSUME Clear(tick) PROVE Within(cache') BY <2>3, ClearedWithin DEF Clear
    <2> QED BY <1>5, <2>1, <2>2, <2>3 DEF Write
  <1>6. ASSUME NEW c \in Callers, NEW k \in Keys, NEW tick \in Ticks, Load(c, k, tick)
        PROVE  Within(cache')
    BY <1>2, <1>3, <1>6 DEF Load, LoadHit, Join, Reject, BeginLoad, BeginFails
  <1>7. ASSUME NEW f \in FlightIds, NEW returns \in BOOLEAN, NEW clockOk \in BOOLEAN,
               NEW tick \in Ticks, FinishLoad(f, returns, clockOk, tick)
        PROVE  Within(cache')
    <2> DEFINE k == flight[f].key
               s == Store(cache, k, flight[f].ttl, Now(tick), OwnedKeys)
    <2>1. k \in Keys /\ flight[f].ttl \in Nat \ {0}
      BY <1>1, <1>7, LoadAssumption DEF WaitsOK, FlightType, FinishLoad
    <2>2. \E owned : cache' = Drop(cache, k, owned) \/ cache' = Drop(s, k, owned)
      BY <1>7 DEF FinishLoad
    <2> HIDE DEF k
    <2>3. CacheType(s) /\ Within(s) BY <1>1, <1>2, <2>1, StoreOK, StoreWithin
    <2> HIDE DEF s
    <2> QED BY <1>1, <2>2, <2>3, DropWithin
  <1>8. ASSUME NEW c \in Callers, Release(c) PROVE Within(cache')
    <2>1. cache' = cache \/ cache' = Bumped(cache, flight[wait[c]].key)
      BY <1>8 DEF Release
    <2>2. Within(Bumped(cache, flight[wait[c]].key)) BY <1>1, BumpedWithin
    <2> QED BY <2>1, <2>2
  <1> QED BY <1>4, <1>5, <1>6, <1>7, <1>8 DEF Next, Finish, SetFails, Cancel, vars

\* The limits hold in every state.
LEMMA LimitsKept == Spec => []LimitInv
  <1>1. Init => LimitInv
    <2> SUFFICES ASSUME Init PROVE LimitInv OBVIOUS
    <2>1. Owned = {} BY DEF Init, Owned, NoFlight
    <2> QED BY <2>1, EmptyWithin, FS_EmptySet, LoadAssumption DEF Init, LimitInv
  <1>2. AInv /\ LimitInv /\ [Next]_vars => LimitInv'
    BY LoadsLimited, EntriesLimited DEF LimitInv
  <1> QED BY <1>1, <1>2, Invariance, PTL DEF Spec

\* The cache never holds more than max_size entries, its heap never more than
\* twice as many nodes, and it never runs more than max_inflight loads, the
\* abandoned ones that still run included.
THEOREM CapacityKept ==
    Spec => [](/\ Cardinality(Present(cache)) <= MaxSize
               /\ Cardinality(cache.heap) <= 2 * MaxSize
               /\ Cardinality(Owned) <= MaxInflight)
  <1>1. LimitInv => /\ Cardinality(Present(cache)) <= MaxSize
                    /\ Cardinality(cache.heap) <= 2 * MaxSize
                    /\ Cardinality(Owned) <= MaxInflight
    BY DEF LimitInv, Within
  <1> QED BY <1>1, LimitsKept, PTL

-----------------------------------------------------------------------------
(* The order of use                                                        *)

\* Every step keeps the entries in an order of use.
LEMMA EntriesOrdered ==
    ASSUME AInv, [Next]_vars, Within(cache), Ordered(cache)
    PROVE  Ordered(cache')
  <1>1. CacheType(cache) /\ HasNodes(cache) /\ lastTick \in Nat /\ WaitsOK
    BY DEF AInv, EntriesOK
  <1>2. ASSUME NEW tick \in Ticks
        PROVE  /\ Now(tick) \in Nat
               /\ CacheType(Purge(cache, Now(tick), OwnedKeys))
               /\ Ordered(Purge(cache, Now(tick), OwnedKeys))
    BY <1>1, NowOK, PurgeOK, PurgeOrdered
  <1>3. ASSUME NEW tick \in Ticks, NEW k \in Keys
        PROVE  /\ Ordered(Touch(Purge(cache, Now(tick), OwnedKeys), k))
               /\ Ordered(Drop(Purge(cache, Now(tick), OwnedKeys), k, OwnedKeys))
    BY <1>2, TouchOrdered, DropOrdered
  <1>4. ASSUME NEW tick \in Ticks, Read(tick) PROVE Ordered(cache')
    BY <1>2, <1>3, <1>4 DEF Read, Sweep, Get, Hit
  <1>5. ASSUME NEW tick \in Ticks, Write(tick) PROVE Ordered(cache')
    <2>1. ASSUME NEW k \in Keys, NEW ttl \in TTLs, Set(k, ttl, tick) PROVE Ordered(cache')
      BY <1>1, <1>2, <2>1, StoreKeeps, LoadAssumption DEF Set
    <2>2. ASSUME NEW k \in Keys, Invalidate(k, tick) PROVE Ordered(cache')
      BY <1>1, <1>2, <2>2, InvalidatedOrdered DEF Invalidate
    <2>3. ASSUME Clear(tick) PROVE Ordered(cache') BY <2>3, ClearedOrdered DEF Clear
    <2> QED BY <1>5, <2>1, <2>2, <2>3 DEF Write
  <1>6. ASSUME NEW c \in Callers, NEW k \in Keys, NEW tick \in Ticks, Load(c, k, tick)
        PROVE  Ordered(cache')
    BY <1>2, <1>3, <1>6 DEF Load, LoadHit, Join, Reject, BeginLoad, BeginFails
  <1>7. ASSUME NEW f \in FlightIds, NEW returns \in BOOLEAN, NEW clockOk \in BOOLEAN,
               NEW tick \in Ticks, FinishLoad(f, returns, clockOk, tick)
        PROVE  Ordered(cache')
    <2> DEFINE k == flight[f].key
               s == Store(cache, k, flight[f].ttl, Now(tick), OwnedKeys)
    <2>1. k \in Keys /\ flight[f].ttl \in Nat \ {0}
      BY <1>1, <1>7, LoadAssumption DEF WaitsOK, FlightType, FinishLoad
    <2>2. \E owned : cache' = Drop(cache, k, owned) \/ cache' = Drop(s, k, owned)
      BY <1>7 DEF FinishLoad
    <2> HIDE DEF k
    <2>3. CacheType(s) /\ Ordered(s) BY <1>1, <1>2, <2>1, StoreOK, StoreKeeps
    <2> HIDE DEF s
    <2> QED BY <1>1, <2>2, <2>3, DropOrdered
  <1>8. ASSUME NEW c \in Callers, Release(c) PROVE Ordered(cache')
    <2>1. cache' = cache \/ cache' = Bumped(cache, flight[wait[c]].key)
      BY <1>8 DEF Release
    <2>2. Ordered(Bumped(cache, flight[wait[c]].key)) BY <1>1, BumpedOrdered
    <2> QED BY <2>1, <2>2
  <1> QED BY <1>4, <1>5, <1>6, <1>7, <1>8 DEF Next, Finish, SetFails, Cancel, vars

\* The next victim is the entry that was read or written before all others.
VictimIsLeastRecent ==
    Present(cache) # {} =>
        /\ Lru(cache) \in Present(cache)
        /\ \A k \in Present(cache) \ {Lru(cache)} : <<Lru(cache), k>> \in cache.older

\* However hits, overwrites, expiries, evictions and abandoned loads interleave,
\* there is exactly one least recently used entry to evict next.
THEOREM EvictsLeastRecent == Spec => []VictimIsLeastRecent
  <1>1. Init => Ordered(cache) BY ClearedOrdered DEF Init
  <1>2. AInv /\ LimitInv /\ Ordered(cache) /\ [Next]_vars => Ordered(cache)'
    BY EntriesOrdered DEF LimitInv
  <1>3. LimitInv /\ Ordered(cache) => VictimIsLeastRecent
    BY LruFirst DEF LimitInv, Within, VictimIsLeastRecent
  <1> QED BY <1>1, <1>2, <1>3, Invariance, LimitsKept, PTL DEF Spec

-----------------------------------------------------------------------------
(* Loads that wait for each other                                          *)

\* No loads wait for each other in a circle, nor one for itself.
NoCircularWait ==
    \A S \in (SUBSET FlightIds) \ {{}} : \E f \in S : wait[f] = None \/ wait[f] \notin S

\* A loader has its key in its scope, and waits, while it runs, for the load
\* of another key that it may ask for.
NestOK(f) ==
    /\ flight[f].owned => flight[f].key \in flight[f].scope
    /\ wait[f] # None => /\ flight[f].owned
                         /\ <<flight[f].key, flight[wait[f]].key>> \in Nested
                         /\ flight[f].key # flight[wait[f]].key

NestInv == \A f \in FlightIds : NestOK(f)

\* A flight and the one it waits for are what they were: joins, releases,
\* cancellations and writes change neither key nor scope.
LEMMA NestSame ==
    ASSUME WaitsOK, NestInv, NEW f \in FlightIds, wait'[f] \in {wait[f], None},
           \A g \in FlightIds : flight'[g].key = flight[g].key,
           flight'[f].owned = flight[f].owned, flight'[f].scope = flight[f].scope
    PROVE  NestOK(f)'
  <1>1. f \in Callers /\ wait[f] \in FlightIds \cup {None} BY DEF WaitsOK, Callers
  <1> QED BY <1>1 DEF NestInv, NestOK

\* set, invalidate and clear mark flights and change nothing else of them.
LEMMA MarkedScope ==
    ASSUME flight \in [FlightIds -> FlightType], NEW K, NEW S, flight' = Marked(K, S),
           NEW f \in FlightIds
    PROVE  flight'[f].scope = flight[f].scope
  <1> DEFINE r == flight[f]
             a == r.superseded \/ f \in S
             b == r.stale \/ (r.owned /\ r.key \in K)
  <1>1. flight'[f] = [r EXCEPT !.superseded = a, !.stale = b] BY DEF Marked
  <1>2. r \in FlightType OBVIOUS
  <1> HIDE DEF r, a, b
  <1>3. flight'[f].scope = r.scope BY <1>1, <1>2 DEF FlightType
  <1> QED BY <1>3 DEF r

\* A loader joins the load of a key that is not in its scope.
LEMMA NestJoin ==
    ASSUME AInv, NestInv, NEW c \in Callers, NEW k \in Keys, NEW tick \in Ticks,
           Join(c, k, tick)
    PROVE  NestInv'
  <1>1. WaitsOK /\ JoinsOK BY DEF AInv
  <1>2. /\ active[k] # None /\ flight' = [flight EXCEPT ![active[k]].waiters = @ + 1]
        /\ wait' = [wait EXCEPT ![c] = active[k]] /\ k \notin Scope(c)
        /\ c \in FlightIds => flight[c].owned /\ <<flight[c].key, k>> \in Nested
    BY DEF Join, Misses, MayLoad
  <1>3. active[k] \in FlightIds /\ flight[active[k]].key = k
    BY <1>1, <1>2 DEF JoinsOK, JoinsFreshLoad, Owned
  <1>4. flight[active[k]] \in FlightType BY <1>1, <1>3 DEF WaitsOK
  <1>5. \A g \in FlightIds : /\ flight'[g].key = flight[g].key
                             /\ flight'[g].owned = flight[g].owned
                             /\ flight'[g].scope = flight[g].scope
    BY <1>1, <1>2, <1>3, <1>4 DEF WaitsOK, FlightType
  <1>6. wait \in [Callers -> FlightIds \cup {None}] BY <1>1 DEF WaitsOK
  <1>7. ASSUME NEW f \in FlightIds, f # c PROVE NestOK(f)'
    <2>1. wait'[f] = wait[f] BY <1>2, <1>6, <1>7 DEF Callers
    <2> QED BY <1>1, <1>5, <2>1, NestSame
  <1>8. ASSUME c \in FlightIds PROVE NestOK(c)'
    <2>1. wait'[c] = active[k] BY <1>2, <1>6
    <2>2. flight[c].key \in flight[c].scope /\ k \notin flight[c].scope
      BY <1>2, <1>8 DEF NestInv, NestOK, Scope
    <2> QED BY <1>2, <1>3, <1>5, <1>8, <2>1, <2>2 DEF NestOK
  <1> QED BY <1>7, <1>8 DEF NestInv

\* So does a loader that begins the load: nobody waited for the flight before.
LEMMA NestBegin ==
    ASSUME AInv, NestInv, NEW c \in Callers, NEW k \in Keys, NEW ttl \in TTLs,
           NEW tick \in Ticks, BeginLoad(c, k, ttl, tick)
    PROVE  NestInv'
  <1>1. WaitsOK BY DEF AInv
  <1>2. /\ k \notin Scope(c) /\ wait[c] = None
        /\ c \in FlightIds => flight[c].owned /\ <<flight[c].key, k>> \in Nested
    BY DEF BeginLoad, Misses, MayLoad
  <1> DEFINE new == [NoFlight(k) EXCEPT
                        !.owned = TRUE, !.epoch = epoch, !.ttl = ttl,
                        !.version = cache'.versions[k], !.waiters = 1,
                        !.scope = Scope(c) \cup {k}]
  <1>3. PICK f \in Free : flight' = [flight EXCEPT ![f] = new] /\ wait' = [wait EXCEPT ![c] = f]
    BY DEF BeginLoad
  <1>4. new.owned /\ new.key = k /\ k \in new.scope BY DEF NoFlight
  <1> HIDE DEF new
  <1>5. f \in FlightIds /\ ~flight[f].owned /\ flight[f].waiters = 0 /\ f \in Callers
    BY DEF Free, Callers
  <1>6. flight'[f] = new /\ \A g \in FlightIds : g # f => flight'[g] = flight[g]
    BY <1>1, <1>3, <1>5 DEF WaitsOK
  <1>7. wait \in [Callers -> FlightIds \cup {None}] BY <1>1 DEF WaitsOK
  <1>8. ASSUME NEW d \in Callers PROVE wait[d] # f
    <2>1. CountOf(wait, f) = 0 BY <1>1, <1>5 DEF WaitsOK
    <2>2. {b \in Callers : wait[b] = f} = {} BY <2>1, CountType
    <2> QED BY <2>2
  <1>9. f # c BY <1>2, <1>5
  <1>10. wait'[f] = None
    <2>1. wait[f] = None BY <1>5 DEF NestInv, NestOK
    <2> QED BY <1>3, <1>5, <1>7, <1>9, <2>1
  <1>11. NestOK(f)' BY <1>4, <1>6, <1>10 DEF NestOK
  <1>12. ASSUME c \in FlightIds PROVE NestOK(c)'
    <2>1. wait'[c] = f /\ flight'[c] = flight[c] BY <1>3, <1>6, <1>7, <1>9, <1>12
    <2>2. flight[c].key \in flight[c].scope /\ k \notin flight[c].scope
      BY <1>2, <1>12 DEF NestInv, NestOK, Scope
    <2> QED BY <1>2, <1>4, <1>6, <1>12, <2>1, <2>2 DEF NestOK
  <1>13. ASSUME NEW g \in FlightIds, g # f, g # c PROVE NestOK(g)'
    <2>1. g \in Callers /\ wait'[g] = wait[g] BY <1>3, <1>7, <1>13 DEF Callers
    <2>2. wait[g] # f /\ wait[g] \in FlightIds \cup {None} BY <1>7, <1>8, <2>1
    <2>3. NestOK(g) BY DEF NestInv
    <2>4. flight'[g] = flight[g] BY <1>6, <1>13
    <2>5. wait[g] # None => flight'[wait[g]] = flight[wait[g]] BY <1>6, <2>2
    <2> QED BY <2>1, <2>3, <2>4, <2>5 DEF NestOK
  <1> QED BY <1>11, <1>12, <1>13 DEF NestInv

\* A load ends when its loader does not wait, and keeps its key for whoever
\* has yet to read the outcome.
LEMMA NestFinish ==
    ASSUME AInv, NestInv, NEW f \in FlightIds, Finish(f)
    PROVE  NestInv'
  <1>1. WaitsOK BY DEF AInv
  <1> DEFINE end == [NoFlight(flight[f].key) EXCEPT !.waiters = flight[f].waiters]
  <1>2. flight' = [flight EXCEPT ![f] = end] /\ wait[f] = None /\ UNCHANGED wait
    BY DEF Finish, FinishLoad, callVars
  <1>3. ~end.owned /\ end.key = flight[f].key BY DEF NoFlight
  <1> HIDE DEF end
  <1>4. flight'[f] = end /\ \A g \in FlightIds : g # f => flight'[g] = flight[g]
    BY <1>1, <1>2 DEF WaitsOK
  <1>5. NestOK(f)' BY <1>2, <1>3, <1>4 DEF NestOK
  <1>6. ASSUME NEW g \in FlightIds, g # f PROVE NestOK(g)'
    <2>1. \A h \in FlightIds : flight'[h].key = flight[h].key BY <1>3, <1>4
    <2> QED BY <1>1, <1>2, <1>4, <1>6, <2>1, NestSame
  <1> QED BY <1>5, <1>6 DEF NestInv

\* A caller that leaves a load, the last one or not, stops waiting.
LEMMA NestRelease ==
    ASSUME AInv, NestInv, NEW c \in Callers, Release(c)
    PROVE  NestInv'
  <1>1. WaitsOK BY DEF AInv
  <1> DEFINE f == wait[c]
  <1>2. f # None /\ wait' = [wait EXCEPT ![c] = None] BY DEF Release
  <1>3. f \in FlightIds /\ flight[f] \in FlightType BY <1>1, <1>2 DEF WaitsOK
  <1>4. \/ flight' = [flight EXCEPT ![f].waiters = @ - 1]
        \/ flight' = [flight EXCEPT ![f].waiters = @ - 1, ![f].abandoned = TRUE]
    BY DEF Release
  <1> HIDE DEF f
  <1>5. \A g \in FlightIds : /\ flight'[g].key = flight[g].key
                             /\ flight'[g].owned = flight[g].owned
                             /\ flight'[g].scope = flight[g].scope
    BY <1>1, <1>3, <1>4 DEF WaitsOK, FlightType
  <1>6. ASSUME NEW g \in FlightIds PROVE NestOK(g)'
    <2>1. wait'[g] \in {wait[g], None} BY <1>1, <1>2 DEF WaitsOK, Callers
    <2> QED BY <1>1, <1>5, <2>1, NestSame
  <1> QED BY <1>6 DEF NestInv

\* Every step keeps what the loads know of each other.
LEMMA NestStep ==
    ASSUME AInv, NestInv, [Next]_vars
    PROVE  NestInv'
  <1>1. WaitsOK BY DEF AInv
  <1>2. ASSUME NEW K, NEW S, flight' = Marked(K, S), UNCHANGED wait PROVE NestInv'
    <2> SUFFICES ASSUME NEW f \in FlightIds PROVE NestOK(f)' BY DEF NestInv
    <2>1. flight \in [FlightIds -> FlightType] BY <1>1 DEF WaitsOK
    <2>2. /\ \A g \in FlightIds : flight'[g].key = flight[g].key
          /\ flight'[f].owned = flight[f].owned
      BY <1>2, <2>1, MarkedOK
    <2>3. flight'[f].scope = flight[f].scope BY <1>2, <2>1, MarkedScope
    <2> QED BY <1>1, <1>2, <2>2, <2>3, NestSame
  <1>3. ASSUME UNCHANGED <<flight, wait>> PROVE NestInv'
    BY <1>3 DEF NestInv, NestOK
  <1>4. \/ UNCHANGED <<flight, wait>>
        \/ \E K, S : flight' = Marked(K, S) /\ UNCHANGED wait
        \/ \E c \in Callers, k \in Keys, tick \in Ticks : Join(c, k, tick)
        \/ \E c \in Callers, k \in Keys, ttl \in TTLs, tick \in Ticks : BeginLoad(c, k, ttl, tick)
        \/ \E c \in Callers : Release(c)
        \/ \E f \in FlightIds : Finish(f)
    BY DEF Next, Read, Write, Load, Get, Sweep, Set, SetFails, Invalidate,
           Clear, Supersede, LoadHit, Reject, BeginFails, Cancel, vars, callVars
  <1> QED BY <1>2, <1>3, <1>4, NestJoin, NestBegin, NestRelease, NestFinish

\* Pairs <<k, j>> of different keys: the loader of j may load k.
Inner == {p \in Keys \X Keys : p[1] # p[2] /\ <<p[2], p[1]>> \in Nested}

\* When no loaders of different keys load in a cycle, no loads wait for each
\* other, whatever joins, abandonments and cancellations came before: some
\* loader of every group runs, or waits for one outside the group.  A loader
\* that asks for a key of its own scope gets RecursiveLoadError.
THEOREM DeadlockFree ==
    ASSUME IsWellFoundedOn(Inner, Keys)
    PROVE  Spec => []NoCircularWait
  <1>1. Init => NestInv
    <2> SUFFICES ASSUME Init, NEW f \in FlightIds PROVE NestOK(f) BY DEF NestInv
    <2>1. ~flight[f].owned /\ wait[f] = None BY DEF Init, NoFlight, Callers
    <2> QED BY <2>1 DEF NestOK
  <1>2. AInv /\ NestInv /\ [Next]_vars => NestInv' BY NestStep
  <1>3. AInv /\ NestInv => NoCircularWait
    <2> SUFFICES ASSUME AInv, NestInv, NEW S \in SUBSET FlightIds, S # {},
                        \A f \in S : wait[f] # None /\ wait[f] \in S
                 PROVE  FALSE
      BY DEF NoCircularWait
    <2> DEFINE T == {flight[f].key : f \in S}
    <2>1. \A f \in S : flight[f].key \in Keys BY DEF AInv, WaitsOK, FlightType
    <2>2. ASSUME NEW k \in T PROVE \E y \in T : <<y, k>> \in Inner
      <3>1. PICK f \in S : k = flight[f].key OBVIOUS
      <3>2. /\ <<flight[f].key, flight[wait[f]].key>> \in Nested
            /\ flight[f].key # flight[wait[f]].key
        BY DEF NestInv, NestOK
      <3>3. flight[wait[f]].key \in T /\ flight[wait[f]].key \in Keys BY <2>1
      <3> QED BY <2>1, <3>1, <3>2, <3>3 DEF Inner
    <2>3. T # {} /\ T \subseteq Keys BY <2>1
    <2> HIDE DEF T
    <2>4. \E k \in T : \A y \in T : ~(<<y, k>> \in Inner) BY <2>3, WFMin
    <2> QED BY <2>2, <2>4
  <1> QED BY <1>1, <1>2, <1>3, Invariance, PTL DEF Spec

-----------------------------------------------------------------------------
(* Single flight                                                           *)

\* A load that was neither superseded nor abandoned is the one callers join.
Fresh(f) == flight[f].owned /\ ~flight[f].superseded /\ ~flight[f].abandoned

FreshInv == \A f \in FlightIds : Fresh(f) => active[flight[f].key] = f

\* What a load began with stays as long as it runs.
LEMMA LoadKept ==
    ASSUME AInv, [Next]_vars, NEW f \in Owned, flight'[f].owned
    PROVE  /\ flight'[f].key = flight[f].key /\ flight'[f].ttl = flight[f].ttl
           /\ flight'[f].epoch = flight[f].epoch /\ flight'[f].version = flight[f].version
           /\ Fresh(f)' => Fresh(f)
  <1> DEFINE Kept == /\ flight'[f].key = flight[f].key /\ flight'[f].ttl = flight[f].ttl
                     /\ flight'[f].epoch = flight[f].epoch
                     /\ flight'[f].version = flight[f].version
                     /\ Fresh(f)' => Fresh(f)
  <1>1. WaitsOK /\ JoinsOK /\ flight \in [FlightIds -> FlightType] BY DEF AInv, WaitsOK
  <1>2. f \in FlightIds /\ flight[f].owned /\ flight[f] \in FlightType BY <1>1 DEF Owned
  <1>3. ASSUME NEW K, NEW S, flight' = Marked(K, S) PROVE Kept
    <2> DEFINE r == flight[f]
               a == r.superseded \/ f \in S
               b == r.stale \/ (r.owned /\ r.key \in K)
    <2>1. flight'[f] = [r EXCEPT !.superseded = a, !.stale = b] BY <1>2, <1>3 DEF Marked
    <2>2. r \in FlightType /\ r.owned BY <1>2
    <2>3. r.superseded => a OBVIOUS
    <2> HIDE DEF r, a, b
    <2>4. /\ flight'[f].key = r.key /\ flight'[f].ttl = r.ttl /\ flight'[f].epoch = r.epoch
          /\ flight'[f].version = r.version /\ flight'[f].superseded = a
          /\ flight'[f].abandoned = r.abandoned
      BY <2>1, <2>2 DEF FlightType
    <2> QED BY <1>2, <2>2, <2>3, <2>4 DEF Fresh, r
  <1>4. ASSUME NEW c \in Callers, NEW k \in Keys, NEW tick \in Ticks, Join(c, k, tick)
        PROVE  Kept
    <2>1. active[k] \in FlightIds /\ flight' = [flight EXCEPT ![active[k]].waiters = @ + 1]
      BY <1>1, <1>4 DEF Join, JoinsOK
    <2>2. flight[active[k]] \in FlightType BY <1>1, <2>1
    <2> QED BY <1>1, <1>2, <2>1, <2>2 DEF FlightType, Fresh
  <1>5. ASSUME NEW c \in Callers, NEW k \in Keys, NEW ttl \in TTLs, NEW tick \in Ticks,
               BeginLoad(c, k, ttl, tick)
        PROVE  Kept
    <2>1. PICK g \in Free : \E r : flight' = [flight EXCEPT ![g] = r] BY <1>5 DEF BeginLoad
    <2>2. g # f BY <1>2 DEF Free
    <2>3. flight'[f] = flight[f] BY <1>1, <1>2, <2>1, <2>2
    <2> QED BY <2>3 DEF Fresh
  <1>6. ASSUME NEW c \in Callers, Release(c) PROVE Kept
    <2>1. wait[c] \in FlightIds BY <1>1, <1>6 DEF Release, WaitsOK
    <2>2. flight[wait[c]] \in FlightType BY <1>1, <2>1
    <2>3. CASE flight' = [flight EXCEPT ![wait[c]].waiters = @ - 1]
      BY <1>1, <1>2, <2>1, <2>2, <2>3 DEF FlightType, Fresh
    <2>4. CASE flight' = [flight EXCEPT ![wait[c]].waiters = @ - 1, ![wait[c]].abandoned = TRUE]
      BY <1>1, <1>2, <2>1, <2>2, <2>4 DEF FlightType, Fresh
    <2> QED BY <1>6, <2>3, <2>4 DEF Release
  <1>7. ASSUME NEW g \in FlightIds, Finish(g) PROVE Kept
    <2> DEFINE end == [NoFlight(flight[g].key) EXCEPT !.waiters = flight[g].waiters]
    <2>1. flight' = [flight EXCEPT ![g] = end] BY <1>7 DEF Finish, FinishLoad
    <2>2. ~end.owned BY DEF NoFlight
    <2> HIDE DEF end
    <2>3. flight'[f] = flight[f] BY <1>1, <1>2, <2>1, <2>2
    <2> QED BY <2>3 DEF Fresh
  <1>8. ASSUME UNCHANGED flight PROVE Kept BY <1>8 DEF Fresh
  <1>9. \/ UNCHANGED flight
        \/ \E K, S : flight' = Marked(K, S)
        \/ \E c \in Callers, k \in Keys, tick \in Ticks : Join(c, k, tick)
        \/ \E c \in Callers, k \in Keys, ttl \in TTLs, tick \in Ticks : BeginLoad(c, k, ttl, tick)
        \/ \E c \in Callers : Release(c)
        \/ \E g \in FlightIds : Finish(g)
    BY DEF Next, Read, Write, Load, Get, Sweep, Set, SetFails, Invalidate,
           Clear, Supersede, LoadHit, Reject, BeginFails, Cancel, vars, callVars
  <1> QED BY <1>3, <1>4, <1>5, <1>6, <1>7, <1>8, <1>9

\* A load that stays fresh stays the one callers join: what takes it out of
\* _active_flights marks it in the same step.
LEMMA ActiveKept ==
    ASSUME AInv, [Next]_vars, NEW f \in Owned, active[flight[f].key] = f, Fresh(f)'
    PROVE  active'[flight[f].key] = f
  <1> DEFINE k == flight[f].key
  <1>1. /\ WaitsOK /\ JoinsOK /\ flight \in [FlightIds -> FlightType]
        /\ active \in [Keys -> FlightIds \cup {None}]
    BY DEF AInv, WaitsOK, JoinsOK
  <1>2. f \in FlightIds /\ flight[f].owned /\ k \in Keys /\ f # None
    BY <1>1, LoadAssumption DEF Owned, FlightType
  <1>3. flight'[f].owned /\ ~flight'[f].superseded /\ ~flight'[f].abandoned BY DEF Fresh
  <1> HIDE DEF k
  <1>4. active[k] = f BY DEF k
  <1>5. ASSUME NEW j \in Keys, NEW K, Supersede(j, K) PROVE active'[k] = f
    <2>1. flight'[f].superseded <=> flight[f].superseded \/ f \in {active[j]}
      BY <1>1, <1>2, <1>5, MarkedOK DEF Supersede
    <2>2. j # k BY <1>3, <1>4, <2>1
    <2> QED BY <1>1, <1>2, <1>4, <1>5, <2>2 DEF Supersede
  <1>6. ASSUME NEW tick \in Ticks, Clear(tick) PROVE FALSE
    <2>1. flight'[f].superseded <=> flight[f].superseded \/ f \in {active[j] : j \in Keys}
      BY <1>1, <1>2, <1>6, MarkedOK DEF Clear
    <2> QED BY <1>2, <1>3, <1>4, <2>1
  <1>7. ASSUME NEW c \in Callers, NEW j \in Keys, NEW ttl \in TTLs, NEW tick \in Ticks,
               BeginLoad(c, j, ttl, tick)
        PROVE  active'[k] = f
    <2>1. active[j] = None /\ \E g : active' = [active EXCEPT ![j] = g]
      BY <1>7 DEF BeginLoad, MayBegin
    <2> QED BY <1>1, <1>2, <1>4, <2>1
  <1>8. ASSUME NEW c \in Callers, Release(c) PROVE active'[k] = f
    <2> DEFINE g == wait[c]
    <2>1. g \in FlightIds /\ flight[g] \in FlightType BY <1>1, <1>8 DEF Release, WaitsOK
    <2>2. CASE active' = active BY <1>4, <2>2
    <2>3. CASE /\ flight' = [flight EXCEPT ![g].waiters = @ - 1, ![g].abandoned = TRUE]
               /\ active' = [j \in Keys |-> IF active[j] = g THEN None ELSE active[j]]
      <3>1. flight'[g].abandoned BY <1>1, <2>1, <2>3 DEF FlightType
      <3>2. g # f BY <1>3, <3>1
      <3> QED BY <1>2, <1>4, <2>3, <3>2
    <2> QED BY <1>8, <2>2, <2>3 DEF Release
  <1>9. ASSUME NEW g \in FlightIds, Finish(g) PROVE active'[k] = f
    <2> DEFINE end == [NoFlight(flight[g].key) EXCEPT !.waiters = flight[g].waiters]
    <2>1. /\ flight' = [flight EXCEPT ![g] = end]
          /\ \/ active' = active
             \/ active[flight[g].key] = g /\ active' = [active EXCEPT ![flight[g].key] = None]
      BY <1>9 DEF Finish, FinishLoad
    <2>2. ~end.owned BY DEF NoFlight
    <2> HIDE DEF end
    <2>3. g # f BY <1>1, <1>2, <1>3, <2>1, <2>2
    <2> QED BY <1>1, <1>2, <1>4, <2>1, <2>3
  <1>10. \/ UNCHANGED active
         \/ \E j \in Keys : \E K : Supersede(j, K)
         \/ \E tick \in Ticks : Clear(tick)
         \/ \E c \in Callers, j \in Keys, ttl \in TTLs, tick \in Ticks : BeginLoad(c, j, ttl, tick)
         \/ \E c \in Callers : Release(c)
         \/ \E g \in FlightIds : Finish(g)
    BY DEF Next, Read, Write, Load, Get, Sweep, Set, SetFails, Invalidate,
           LoadHit, Join, Reject, BeginFails, Cancel, vars, callVars
  <1>11. active'[k] = f BY <1>4, <1>5, <1>6, <1>7, <1>8, <1>9, <1>10
  <1> QED BY <1>11 DEF k

\* A load begins as the one callers join and stays it while it is fresh.
LEMMA FreshStep ==
    ASSUME AInv, FreshInv, [Next]_vars
    PROVE  FreshInv'
  <1>1. /\ WaitsOK /\ flight \in [FlightIds -> FlightType]
        /\ active \in [Keys -> FlightIds \cup {None}]
    BY DEF AInv, WaitsOK, JoinsOK
  <1> SUFFICES ASSUME NEW f \in FlightIds, Fresh(f)' PROVE active'[flight'[f].key] = f
    BY DEF FreshInv
  <1>2. CASE flight[f].owned
    <2>1. f \in Owned /\ flight'[f].owned BY <1>2 DEF Owned, Fresh
    <2>2. flight'[f].key = flight[f].key /\ Fresh(f) BY <2>1, LoadKept
    <2>3. active[flight[f].key] = f BY <2>2 DEF FreshInv
    <2> QED BY <2>1, <2>2, <2>3, ActiveKept
  <1>3. CASE ~flight[f].owned
    <2>1. ASSUME \A g \in FlightIds : flight'[g].owned => flight[g].owned PROVE FALSE
      BY <1>3, <2>1 DEF Fresh
    <2>2. ASSUME NEW c \in Callers, NEW k \in Keys, NEW ttl \in TTLs, NEW tick \in Ticks,
                 BeginLoad(c, k, ttl, tick)
          PROVE  active'[flight'[f].key] = f
      <3> DEFINE new == [NoFlight(k) EXCEPT
                            !.owned = TRUE, !.epoch = epoch, !.ttl = ttl,
                            !.version = cache'.versions[k], !.waiters = 1,
                            !.scope = Scope(c) \cup {k}]
      <3>1. PICK g \in Free : /\ flight' = [flight EXCEPT ![g] = new]
                              /\ active' = [active EXCEPT ![k] = g]
        BY <2>2 DEF BeginLoad
      <3>2. new.key = k BY DEF NoFlight
      <3> HIDE DEF new
      <3>3. g = f BY <1>1, <1>3, <3>1 DEF Fresh
      <3> QED BY <1>1, <3>1, <3>2, <3>3
    <2>3. ASSUME Owned' \subseteq Owned PROVE \A g \in FlightIds : flight'[g].owned => flight[g].owned
      BY <2>3 DEF Owned
    <2>4. \/ Owned' \subseteq Owned
          \/ \E c \in Callers, k \in Keys, ttl \in TTLs, tick \in Ticks : BeginLoad(c, k, ttl, tick)
      BY OwnedShrinks
    <2> QED BY <2>1, <2>2, <2>3, <2>4
  <1> QED BY <1>2, <1>3

\* The fresh loads are the ones callers join in every state.
LEMMA FreshKept == Spec => []FreshInv
  <1>1. Init => FreshInv BY DEF Init, FreshInv, Fresh, NoFlight
  <1>2. AInv /\ FreshInv /\ [Next]_vars => FreshInv' BY FreshStep
  <1> QED BY <1>1, <1>2, Invariance, PTL DEF Spec

\* Two loads of one key run at once only if one was superseded or abandoned.
SingleFlight ==
    \A f, g \in FlightIds : Fresh(f) /\ Fresh(g) /\ flight[f].key = flight[g].key => f = g

\* Callers of the asynchronous cache that miss at the same time share one load,
\* also when others of them are cancelled or their load is superseded.
THEOREM SingleFlightCorrect == Spec => []SingleFlight
  <1>1. FreshInv => SingleFlight BY DEF FreshInv, SingleFlight
  <1> QED BY <1>1, FreshKept, PTL

-----------------------------------------------------------------------------
(* What keeps a fresh load from being published                            *)

\* The caller c is the last one to leave an older load of k, which set,
\* invalidate or clear superseded while the loader ran.
LeavesOlderLoad(c, k) ==
    /\ Release(c) /\ Abandons(c, wait[c])
    /\ flight[wait[c]].key = k /\ flight[wait[c]].superseded

\* Whatever bumps the version of a key that is being loaded supersedes the
\* load, except the last waiter that leaves an older one.
LEMMA VersionKept ==
    ASSUME AInv, FreshInv, [Next]_vars, NEW f \in Owned, CanPublish(f), Fresh(f)',
           ~\E c \in Callers : LeavesOlderLoad(c, flight[f].key)
    PROVE  epoch' = epoch /\ cache'.versions[flight[f].key] = cache.versions[flight[f].key]
  <1> DEFINE k == flight[f].key
             Kept == epoch' = epoch /\ cache'.versions[k] = cache.versions[k]
  <1>1. /\ WaitsOK /\ JoinsOK /\ flight \in [FlightIds -> FlightType]
        /\ active \in [Keys -> FlightIds \cup {None}]
        /\ CacheType(cache) /\ HasNodes(cache) /\ lastTick \in Nat
    BY DEF AInv, WaitsOK, JoinsOK, EntriesOK
  <1>2. f \in FlightIds /\ flight[f].owned /\ k \in Keys /\ f # None /\ k \in OwnedKeys
    BY <1>1, LoadAssumption DEF Owned, OwnedKeys, KeysOf, FlightType
  <1>3. flight'[f].owned /\ ~flight'[f].superseded /\ ~flight'[f].abandoned BY DEF Fresh
  <1>4. active[k] = f BY DEF CanPublish
  <1>5. k = flight[f].key /\ ~\E c \in Callers : LeavesOlderLoad(c, k) OBVIOUS
  <1> HIDE DEF k
  <1>6. ASSUME NEW tick \in Ticks
        PROVE  /\ Now(tick) \in Nat
               /\ CacheType(Purge(cache, Now(tick), OwnedKeys))
               /\ Purge(cache, Now(tick), OwnedKeys).versions[k] = cache.versions[k]
    BY <1>1, <1>2, NowOK, PurgeOK, PurgeVersions DEF SameVersions
  <1>7. ASSUME NEW tick \in Ticks, NEW j \in Keys
        PROVE  /\ Touch(Purge(cache, Now(tick), OwnedKeys), j).versions[k] = cache.versions[k]
               /\ Drop(Purge(cache, Now(tick), OwnedKeys), j, OwnedKeys).versions[k]
                    = cache.versions[k]
    <2>1. Touch(Purge(cache, Now(tick), OwnedKeys), j).versions
            = Purge(cache, Now(tick), OwnedKeys).versions
      BY <1>6, TouchOK
    <2>2. Drop(Purge(cache, Now(tick), OwnedKeys), j, OwnedKeys).versions[k]
            = Purge(cache, Now(tick), OwnedKeys).versions[k]
      BY <1>2, <1>6, DropVersions DEF SameVersions
    <2> QED BY <1>6, <2>1, <2>2
  <1>8. ASSUME NEW j \in Keys, NEW K, Supersede(j, K) PROVE j # k
    <2>1. flight'[f].superseded <=> flight[f].superseded \/ f \in {active[j]}
      BY <1>1, <1>2, <1>8, MarkedOK DEF Supersede
    <2> QED BY <1>3, <1>4, <2>1
  <1>9. ASSUME NEW tick \in Ticks, Read(tick) PROVE Kept
    BY <1>6, <1>7, <1>9 DEF Read, Sweep, Get, Hit
  <1>10. ASSUME NEW tick \in Ticks, Write(tick) PROVE Kept
    <2>1. ASSUME NEW j \in Keys, NEW ttl \in TTLs, Set(j, ttl, tick) PROVE Kept
      <3>1. j # k BY <1>8, <2>1 DEF Set
      <3>2. SameVersions(cache, cache', (Keys \cap OwnedKeys) \ {j})
        BY <1>1, <1>6, <2>1, StoreVersions, LoadAssumption DEF Set
      <3> QED BY <1>2, <2>1, <3>1, <3>2 DEF Set, SameVersions
    <2>2. ASSUME NEW j \in Keys, Invalidate(j, tick) PROVE Kept
      <3>1. j # k BY <1>8, <2>2 DEF Invalidate
      <3>2. SameVersions(cache, cache', (Keys \cap OwnedKeys) \ {j})
        BY <1>1, <1>6, <2>2, InvalidatedVersions DEF Invalidate
      <3> QED BY <1>2, <2>2, <3>1, <3>2 DEF Invalidate, SameVersions
    <2>3. ASSUME Clear(tick) PROVE FALSE
      <3>1. flight'[f].superseded <=> flight[f].superseded \/ f \in {active[j] : j \in Keys}
        BY <1>1, <1>2, <2>3, MarkedOK DEF Clear
      <3> QED BY <1>2, <1>3, <1>4, <3>1
    <2> QED BY <1>10, <2>1, <2>2, <2>3 DEF Write
  <1>11. ASSUME NEW c \in Callers, NEW j \in Keys, NEW tick \in Ticks, Load(c, j, tick)
         PROVE  Kept
    BY <1>6, <1>7, <1>11 DEF Load, LoadHit, Join, Reject, BeginLoad, BeginFails
  <1>12. ASSUME NEW g \in FlightIds, NEW returns \in BOOLEAN, NEW clockOk \in BOOLEAN,
                NEW tick \in Ticks, FinishLoad(g, returns, clockOk, tick)
         PROVE  Kept
    <2> DEFINE j == flight[g].key
               others == KeysOf(Owned \ {g})
               s == Store(cache, j, flight[g].ttl, Now(tick), OwnedKeys)
               end == [NoFlight(j) EXCEPT !.waiters = flight[g].waiters]
    <2>1. j \in Keys /\ flight[g].ttl \in Nat \ {0}
      BY <1>1, <1>12, LoadAssumption DEF WaitsOK, FlightType, FinishLoad
    <2>2. /\ epoch' = epoch /\ flight' = [flight EXCEPT ![g] = end]
          /\ \/ cache' = Drop(cache, j, others)
             \/ CanPublish(g) /\ cache' = Drop(s, j, others)
      BY <1>12 DEF FinishLoad
    <2>3. ~end.owned BY DEF NoFlight
    <2> HIDE DEF end
    <2>4. g # f BY <1>1, <1>2, <1>3, <2>2, <2>3
    <2>5. k \in others BY <1>2, <1>5, <2>4 DEF KeysOf, Owned
    <2>6. CanPublish(g) => j # k BY <1>4, <2>4 DEF CanPublish
    <2> HIDE DEF j, others
    <2>7. CacheType(s) /\ SameVersions(cache, s, (Keys \cap OwnedKeys) \ {j})
      BY <1>1, <1>6, <2>1, StoreOK, StoreVersions
    <2> HIDE DEF s
    <2>8. CASE cache' = Drop(cache, j, others)
      BY <1>1, <1>2, <2>1, <2>2, <2>5, <2>8, DropVersions DEF SameVersions
    <2>9. CASE CanPublish(g) /\ cache' = Drop(s, j, others)
      <3>1. Drop(s, j, others).versions[k] = s.versions[k]
        BY <1>2, <2>1, <2>5, <2>7, DropVersions DEF SameVersions
      <3>2. s.versions[k] = cache.versions[k] BY <1>2, <2>6, <2>7, <2>9 DEF SameVersions
      <3> QED BY <2>2, <2>9, <3>1, <3>2
    <2> QED BY <2>2, <2>8, <2>9
  <1>13. ASSUME NEW c \in Callers, Release(c) PROVE Kept
    <2> DEFINE g == wait[c]
    <2>1. g \in FlightIds /\ flight[g] \in FlightType /\ flight[g].key \in Keys
      BY <1>1, <1>13 DEF Release, WaitsOK, FlightType
    <2>2. epoch' = epoch BY <1>13 DEF Release
    <2>3. CASE cache' = cache BY <2>2, <2>3
    <2>4. CASE /\ Abandons(c, g)
               /\ flight' = [flight EXCEPT ![g].waiters = @ - 1, ![g].abandoned = TRUE]
               /\ cache' = Bumped(cache, flight[g].key)
      <3>1. flight'[g].abandoned BY <1>1, <2>1, <2>4 DEF FlightType
      <3>2. g # f BY <1>3, <3>1
      <3>3. flight[g].owned /\ ~flight[g].abandoned
        BY <1>1, <2>1, <2>4 DEF Abandons, WaitsOK
      <3>4. flight[g].key # k
        <4>1. SUFFICES ASSUME flight[g].key = k PROVE FALSE OBVIOUS
        <4>2. ~Fresh(g) BY <1>4, <2>1, <3>2, <4>1 DEF FreshInv
        <4>3. flight[g].superseded BY <3>3, <4>2 DEF Fresh
        <4> QED BY <1>5, <1>13, <2>4, <4>1, <4>3 DEF LeavesOlderLoad
      <3>5. SameVersions(cache, cache', Keys \ {flight[g].key}) BY <1>1, <2>4, BumpedVersions
      <3> QED BY <1>2, <2>2, <3>4, <3>5 DEF SameVersions
    <2> QED BY <1>13, <2>3, <2>4 DEF Release
  <1>14. Kept
    BY <1>9, <1>10, <1>11, <1>12, <1>13 DEF Next, Finish, SetFails, Cancel, vars
  <1> QED BY <1>14, <1>5

\* A load that stays fresh stays publishable, unless the last caller of an
\* older load of its key leaves.
SpoiltByOlderLoadOnly ==
    [][\A f \in Owned : CanPublish(f) /\ Fresh(f)' /\ ~CanPublish(f)' =>
          \E c \in Callers : LeavesOlderLoad(c, flight[f].key)]_vars

\* No hit, expiry, eviction or load of another key costs the cache the result
\* of a fresh load; _release_waiter_locked of a superseded load does, because
\* it bumps the version of a key that it no longer is the load of.
THEOREM FreshLoadsSpoilt == Spec => SpoiltByOlderLoadOnly
  <1>1. ASSUME AInv, FreshInv, [Next]_vars
        PROVE  [\A f \in Owned : CanPublish(f) /\ Fresh(f)' /\ ~CanPublish(f)' =>
                   \E c \in Callers : LeavesOlderLoad(c, flight[f].key)]_vars
    <2> SUFFICES ASSUME NEW f \in Owned, CanPublish(f), Fresh(f)',
                        ~\E c \in Callers : LeavesOlderLoad(c, flight[f].key)
                 PROVE  CanPublish(f)'
      OBVIOUS
    <2>1. epoch' = epoch /\ cache'.versions[flight[f].key] = cache.versions[flight[f].key]
      BY <1>1, VersionKept
    <2>2. flight'[f].owned /\ ~flight'[f].superseded /\ ~flight'[f].abandoned BY DEF Fresh
    <2>3. /\ flight'[f].key = flight[f].key
          /\ flight'[f].epoch = flight[f].epoch /\ flight'[f].version = flight[f].version
      BY <1>1, <2>2, LoadKept
    <2>4. active[flight[f].key] = f BY DEF CanPublish
    <2>5. active'[flight[f].key] = f BY <1>1, <2>4, ActiveKept
    <2> QED BY <2>1, <2>2, <2>3, <2>5 DEF CanPublish
  <1> QED BY <1>1, Invariance, FreshKept, PTL DEF Spec, SpoiltByOlderLoadOnly

=============================================================================
