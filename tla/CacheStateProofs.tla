-------------------------- MODULE CacheStateProofs --------------------------
(* What the operations of _CacheState keep, for every cache and capacity.  *)
EXTENDS FiniteSetTheorems, WellFoundedInduction, CacheState, TLAPS

(* A key is present or its entry is the empty one.                         *)
LEMMA PresentVersion ==
    ASSUME NEW c, NEW k \in Keys
    PROVE  k \in Present(c) <=> c.entry[k].version > 0
  BY DEF Present

(* The empty cache is a cache, and nothing in it is late or left over.     *)
LEMMA EmptyCacheOK ==
    ASSUME NEW now, NEW owned
    PROVE  /\ CacheType(EmptyCache)
           /\ HasNodes(EmptyCache)
           /\ Timely(EmptyCache, now)
           /\ NoSpareVersion(EmptyCache, owned)
  <1>1. Present(EmptyCache) = {}
    BY DEF Present, EmptyCache, NoEntry
  <1>2. CacheType(EmptyCache)
    BY FS_EmptySet DEF CacheType, EmptyCache, NoEntry, Entries, Nodes
  <1>3. NoSpareVersion(EmptyCache, owned)
    BY DEF NoSpareVersion, EmptyCache
  <1> QED BY <1>1, <1>2, <1>3 DEF HasNodes, Timely

(* Entries that leave take nothing of the others with them.                *)
LEMMA WithoutOK ==
    ASSUME NEW c, CacheType(c), NEW K, NEW owned
    PROVE  /\ CacheType(Without(c, K, owned))
           /\ Present(Without(c, K, owned)) = Present(c) \ K
           /\ \A k \in Present(c) \ K : Without(c, K, owned).entry[k] = c.entry[k]
           /\ Without(c, K, owned).heap = c.heap
           /\ NoSpareVersion(c, owned) => NoSpareVersion(Without(c, K, owned), owned)
  <1> DEFINE d == Without(c, K, owned)
  <1>1. CacheType(d)
    BY DEF CacheType, Without, NoEntry, Entries
  <1>2. \A k \in Keys : d.entry[k] = IF k \in K THEN NoEntry ELSE c.entry[k]
    BY DEF Without
  <1>3. Present(d) = Present(c) \ K
    BY <1>2 DEF Present, NoEntry
  <1>4. \A k \in Keys : d.versions[k] = IF k \in K \ owned THEN 0 ELSE c.versions[k]
    BY DEF Without
  <1>5. ASSUME NoSpareVersion(c, owned) PROVE NoSpareVersion(d, owned)
    BY <1>3, <1>4, <1>5 DEF NoSpareVersion
  <1>6. d.heap = c.heap
    BY DEF Without
  <1> HIDE DEF d
  <1> QED BY <1>1, <1>2, <1>3, <1>5, <1>6 DEF d, Present

(* After purge_expired no entry is late: an entry that stays has a node,   *)
(* and that node is not due.                                               *)
LEMMA PurgeOK ==
    ASSUME NEW c, CacheType(c), HasNodes(c), NEW now \in Nat, NEW owned
    PROVE  /\ CacheType(Purge(c, now, owned))
           /\ HasNodes(Purge(c, now, owned))
           /\ Timely(Purge(c, now, owned), now)
           /\ NoSpareVersion(c, owned) => NoSpareVersion(Purge(c, now, owned), owned)
  <1> DEFINE E == Expired(c, now)
             w == Without(c, E, owned)
             p == Purge(c, now, owned)
             H == c.heap \ Due(c, now)
  <1>1. /\ CacheType(w)
        /\ Present(w) = Present(c) \ E
        /\ \A k \in Present(c) \ E : w.entry[k] = c.entry[k]
        /\ w.heap = c.heap
        /\ NoSpareVersion(c, owned) => NoSpareVersion(w, owned)
    BY WithoutOK
  <1> HIDE DEF w, E
  <1>2. /\ DOMAIN p = DOMAIN w
        /\ p.entry = w.entry
        /\ p.older = w.older
        /\ p.versions = w.versions
        /\ p.heap = H
    BY <1>1 DEF Purge, w, E, CacheType
  <1> HIDE DEF p
  <1>3. Present(p) = Present(c) \ E
    BY <1>1, <1>2 DEF Present
  <1>4. CacheType(p)
    <2>1. p.heap \subseteq Nodes /\ IsFiniteSet(p.heap)
      BY <1>2, FS_Subset DEF CacheType
    <2> QED BY <1>1, <1>2, <2>1 DEF CacheType
  <1>5. ASSUME NEW k \in Present(p)
        PROVE  /\ Alike(p.heap, k, p.entry[k].expires, p.entry[k].version) # {}
               /\ p.entry[k].expires > now
    <2>1. k \in Present(c) /\ k \notin E /\ p.entry[k] = c.entry[k] /\ k \in Keys
      BY <1>1, <1>2, <1>3 DEF Present
    <2>2. PICK n : n \in Alike(c.heap, k, c.entry[k].expires, c.entry[k].version)
      BY <2>1 DEF HasNodes
    <2>3. /\ n \in c.heap
          /\ n.key = k /\ n.expires = c.entry[k].expires /\ n.version = c.entry[k].version
      BY <2>2 DEF Alike
    <2>4. Current(c, n)
      BY <2>1, <2>3 DEF Current, Present
    <2>5. n \notin Due(c, now)
      BY <2>1, <2>3, <2>4 DEF E, Expired
    <2>6. c.entry[k].expires \in Nat /\ ~(c.entry[k].expires <= now)
      BY <2>1, <2>3, <2>5 DEF Due, CacheType, Entries
    <2>7. n \in Alike(p.heap, k, p.entry[k].expires, p.entry[k].version)
      BY <1>2, <2>1, <2>3, <2>5 DEF Alike
    <2> QED BY <2>1, <2>6, <2>7
  <1>6. HasNodes(p) /\ Timely(p, now)
    BY <1>5 DEF HasNodes, Timely
  <1>7. ASSUME NoSpareVersion(c, owned) PROVE NoSpareVersion(p, owned)
    BY <1>1, <1>2, <1>3, <1>7 DEF NoSpareVersion
  <1> QED BY <1>4, <1>6, <1>7 DEF p

(* Recency is all that move_to_end changes.                                *)
LEMMA TouchOK ==
    ASSUME NEW c, CacheType(c), NEW k \in Keys
    PROVE  /\ CacheType(Touch(c, k))
           /\ Touch(c, k).entry = c.entry
           /\ Touch(c, k).heap = c.heap
           /\ Touch(c, k).versions = c.versions
  <1> DEFINE d == Touch(c, k)
  <1>1. /\ DOMAIN d = DOMAIN c
        /\ d.entry = c.entry
        /\ d.heap = c.heap
        /\ d.versions = c.versions
        /\ d.older = {p \in c.older : p[1] # k /\ p[2] # k}
                        \cup ((Present(c) \ {k}) \X {k})
    BY DEF Touch, CacheType
  <1>2. d.older \subseteq Keys \X Keys
    BY <1>1 DEF CacheType, Present
  <1> HIDE DEF d
  <1>3. CacheType(d)
    BY <1>1, <1>2 DEF CacheType
  <1> QED BY <1>1, <1>3 DEF d

(* Caches with the same entries, heap and versions agree on what matters.  *)
LEMMA SameCache ==
    ASSUME NEW c, NEW d, NEW now, NEW owned,
           d.entry = c.entry, d.heap = c.heap, d.versions = c.versions
    PROVE  /\ Present(d) = Present(c)
           /\ HasNodes(c) => HasNodes(d)
           /\ Timely(c, now) => Timely(d, now)
           /\ NoSpareVersion(c, owned) => NoSpareVersion(d, owned)
  BY DEF Present, HasNodes, Timely, NoSpareVersion

(* A node that is pushed is in the heap, and so are the others.            *)
LEMMA PushOK ==
    ASSUME NEW h, h \subseteq Nodes, IsFiniteSet(h), NEW k \in Keys, NEW e \in Nat, NEW v \in Nat
    PROVE  /\ Push(h, k, e, v) \subseteq Nodes
           /\ IsFiniteSet(Push(h, k, e, v))
           /\ h \subseteq Push(h, k, e, v)
           /\ Alike(Push(h, k, e, v), k, e, v) # {}
  <1> DEFINE m == Cardinality(Alike(h, k, e, v))
             n == Node(k, e, v, m)
  <1>1. IsFiniteSet(Alike(h, k, e, v))
    BY FS_Subset DEF Alike
  <1>2. m \in Nat
    BY <1>1, FS_CardinalityType
  <1> HIDE DEF m
  <1>3. n \in Nodes /\ n.key = k /\ n.expires = e /\ n.version = v
    BY <1>2 DEF Node, Nodes
  <1>4. Push(h, k, e, v) = h \cup {n}
    BY DEF Push, m
  <1> HIDE DEF n
  <1>5. IsFiniteSet(h \cup {n})
    BY FS_AddElement
  <1>6. n \in Alike(h \cup {n}, k, e, v)
    BY <1>3 DEF Alike
  <1> QED BY <1>3, <1>4, <1>5, <1>6

(* A new entry comes with its node, with a version of its own and with its *)
(* whole life before it.                                                   *)
LEMMA PutOK ==
    ASSUME NEW c, CacheType(c), HasNodes(c), NEW now \in Nat, Timely(c, now),
           NEW k \in Keys, NEW ttl \in Nat \ {0}, NEW owned
    PROVE  /\ CacheType(Put(c, k, ttl, now))
           /\ HasNodes(Put(c, k, ttl, now))
           /\ Timely(Put(c, k, ttl, now), now)
           /\ NoSpareVersion(c, owned) => NoSpareVersion(Put(c, k, ttl, now), owned)
  <1> DEFINE v == c.versions[k] + 1
             e == [expires |-> now + ttl, version |-> v]
             h == Push(c.heap, k, now + ttl, v)
             t == Touch(c, k)
             d == Put(c, k, ttl, now)
  <1>1. v \in Nat \ {0} /\ e \in Entries
    BY DEF CacheType, Entries
  <1>2. /\ CacheType(t)
        /\ t.entry = c.entry /\ t.heap = c.heap /\ t.versions = c.versions
    BY TouchOK
  <1>3. /\ DOMAIN d = DOMAIN t
        /\ d.entry = [c.entry EXCEPT ![k] = e]
        /\ d.heap = h
        /\ d.versions = [c.versions EXCEPT ![k] = v]
        /\ d.older = t.older
    <2> HIDE DEF t
    <2>1. d = [t EXCEPT !.entry = [@ EXCEPT ![k] = e], !.heap = Push(@, k, now + ttl, v),
                        !.versions = [@ EXCEPT ![k] = v]]
      BY DEF Put, t
    <2> HIDE DEF d, e, v
    <2> QED BY <1>2, <2>1 DEF CacheType
  <1> HIDE DEF d, t, h
  <1>4. /\ h \subseteq Nodes /\ IsFiniteSet(h) /\ c.heap \subseteq h
        /\ Alike(h, k, now + ttl, v) # {}
    BY <1>1, PushOK DEF CacheType, h
  <1>5. CacheType(d)
    BY <1>1, <1>2, <1>3, <1>4 DEF CacheType
  <1>6. \A j \in Keys : d.entry[j] = IF j = k THEN e ELSE c.entry[j]
    BY <1>3 DEF CacheType
  <1>7. Present(d) = Present(c) \cup {k}
    BY <1>1, <1>6 DEF Present
  <1>8. Timely(d, now)
    BY <1>6, <1>7 DEF Timely, Present
  <1>9. HasNodes(d)
    <2> SUFFICES ASSUME NEW j \in Present(d)
                 PROVE  Alike(d.heap, j, d.entry[j].expires, d.entry[j].version) # {}
      BY DEF HasNodes
    <2>1. CASE j = k
      <3>1. d.entry[j].expires = now + ttl /\ d.entry[j].version = v /\ d.heap = h
        BY <1>3, <1>6, <2>1
      <3> QED BY <1>4, <2>1, <3>1
    <2>2. CASE j # k
      <3>1. j \in Present(c) /\ d.entry[j] = c.entry[j]
        BY <1>6, <1>7, <2>2 DEF Present
      <3>2. Alike(c.heap, j, d.entry[j].expires, d.entry[j].version) # {}
        BY <3>1 DEF HasNodes
      <3> QED BY <1>3, <1>4, <3>2 DEF Alike
    <2> QED BY <2>1, <2>2
  <1>10. ASSUME NoSpareVersion(c, owned) PROVE NoSpareVersion(d, owned)
    <2>1. \A j \in Keys : j # k => d.versions[j] = c.versions[j]
      BY <1>3 DEF CacheType
    <2> QED BY <1>7, <1>10, <2>1 DEF NoSpareVersion
  <1> QED BY <1>5, <1>8, <1>9, <1>10 DEF d

(* Evicting an entry leaves the others as they are.                        *)
LEMMA EvictOK ==
    ASSUME NEW c, CacheType(c), HasNodes(c), NEW now, Timely(c, now), NEW owned
    PROVE  /\ CacheType(Evict(c, owned))
           /\ HasNodes(Evict(c, owned))
           /\ Timely(Evict(c, owned), now)
           /\ NoSpareVersion(c, owned) => NoSpareVersion(Evict(c, owned), owned)
  <1> DEFINE w == Without(c, {Lru(c)}, owned)
  <1>1. /\ CacheType(w)
        /\ Present(w) = Present(c) \ {Lru(c)}
        /\ \A k \in Present(c) \ {Lru(c)} : w.entry[k] = c.entry[k]
        /\ w.heap = c.heap
        /\ NoSpareVersion(c, owned) => NoSpareVersion(w, owned)
    BY WithoutOK
  <1> HIDE DEF w
  <1>2. HasNodes(w) /\ Timely(w, now)
    BY <1>1 DEF HasNodes, Timely
  <1> QED BY <1>1, <1>2 DEF Evict, w

(* The rebuilt heap has exactly the nodes of the entries.                  *)
LEMMA RebuildOK ==
    ASSUME NEW c, CacheType(c), HasNodes(c), NEW now, Timely(c, now), NEW owned
    PROVE  /\ CacheType(Rebuild(c))
           /\ HasNodes(Rebuild(c))
           /\ Timely(Rebuild(c), now)
           /\ NoSpareVersion(c, owned) => NoSpareVersion(Rebuild(c), owned)
  <1> DEFINE d == [c EXCEPT !.heap = Live(c)]
  <1>1. /\ DOMAIN d = DOMAIN c
        /\ d.entry = c.entry /\ d.versions = c.versions /\ d.older = c.older
        /\ d.heap = Live(c)
    BY DEF CacheType
  <1> HIDE DEF d
  <1>2. Live(c) \subseteq Nodes
    BY DEF Live, Present, Node, Nodes, CacheType, Entries
  <1>3. IsFiniteSet(Live(c))
    <2> DEFINE g == [n \in c.heap |-> Node(n.key, n.expires, n.version, 0)]
               S == {n \in c.heap : g[n] \in Live(c)}
    <2>1. IsFiniteSet(S)
      BY FS_Subset DEF CacheType
    <2>2. ASSUME NEW m \in Live(c) PROVE \E n \in S : g[n] = m
      <3>1. PICK k \in Present(c) : m = Node(k, c.entry[k].expires, c.entry[k].version, 0)
        BY DEF Live
      <3>2. PICK n : n \in Alike(c.heap, k, c.entry[k].expires, c.entry[k].version)
        BY DEF HasNodes
      <3> QED BY <3>1, <3>2 DEF Alike
    <2>3. [n \in S |-> g[n]] \in Surjection(S, Live(c))
      <3> HIDE DEF g
      <3> QED BY <2>2 DEF Surjection
    <2> HIDE DEF g, S
    <2> QED BY <2>1, <2>3, FS_Surjection
  <1>4. CacheType(d)
    BY <1>1, <1>2, <1>3 DEF CacheType
  <1>5. Present(d) = Present(c)
    BY <1>1 DEF Present
  <1>6. ASSUME NEW k \in Present(d)
        PROVE  Alike(d.heap, k, d.entry[k].expires, d.entry[k].version) # {}
    <2> DEFINE n == Node(k, c.entry[k].expires, c.entry[k].version, 0)
    <2>1. n \in Live(c)
      BY <1>5 DEF Live
    <2>2. n.key = k /\ n.expires = c.entry[k].expires /\ n.version = c.entry[k].version
      BY DEF Node
    <2> HIDE DEF n
    <2> QED BY <1>1, <2>1, <2>2 DEF Alike
  <1>7. HasNodes(d) /\ Timely(d, now)
    BY <1>1, <1>5, <1>6 DEF HasNodes, Timely
  <1>8. NoSpareVersion(c, owned) => NoSpareVersion(d, owned)
    BY <1>1, <1>5 DEF NoSpareVersion
  <1> QED BY <1>4, <1>7, <1>8 DEF Rebuild, d

(* After store() no entry is late and every entry can still be expired.    *)
LEMMA StoreOK ==
    ASSUME NEW c, CacheType(c), HasNodes(c), NEW now \in Nat, NEW k \in Keys,
           NEW ttl \in Nat \ {0}, NEW owned
    PROVE  /\ CacheType(Store(c, k, ttl, now, owned))
           /\ HasNodes(Store(c, k, ttl, now, owned))
           /\ Timely(Store(c, k, ttl, now, owned), now)
           /\ NoSpareVersion(c, owned)
                => NoSpareVersion(Store(c, k, ttl, now, owned), owned)
  <1> DEFINE p == Purge(c, now, owned)
             q == Put(p, k, ttl, now)
             r == Evict(q, owned)
  <1>1. /\ CacheType(p) /\ HasNodes(p) /\ Timely(p, now)
        /\ NoSpareVersion(c, owned) => NoSpareVersion(p, owned)
    BY PurgeOK
  <1> HIDE DEF p
  <1>2. /\ CacheType(q) /\ HasNodes(q) /\ Timely(q, now)
        /\ NoSpareVersion(p, owned) => NoSpareVersion(q, owned)
    BY <1>1, PutOK
  <1> HIDE DEF q
  <1>3. /\ CacheType(r) /\ HasNodes(r) /\ Timely(r, now)
        /\ NoSpareVersion(q, owned) => NoSpareVersion(r, owned)
    BY <1>2, EvictOK
  <1> HIDE DEF r
  <1>4. Store(c, k, ttl, now, owned) = Rebuild(r)
    BY DEF Store, p, q, r
  <1> QED BY <1>1, <1>2, <1>3, <1>4, RebuildOK

(* After invalidate() the version of the key is kept for a running load    *)
(* and dropped otherwise.                                                  *)
LEMMA InvalidatedOK ==
    ASSUME NEW c, CacheType(c), HasNodes(c), NEW now \in Nat, NEW k \in Keys, NEW owned
    PROVE  /\ CacheType(Invalidated(c, k, now, owned))
           /\ HasNodes(Invalidated(c, k, now, owned))
           /\ Timely(Invalidated(c, k, now, owned), now)
           /\ NoSpareVersion(c, owned)
                => NoSpareVersion(Invalidated(c, k, now, owned), owned)
  <1> DEFINE p == Purge(c, now, owned)
             w == Without(p, {k}, owned)
             v == IF k \in owned THEN p.versions[k] + 1 ELSE 0
             d == [w EXCEPT !.versions = [@ EXCEPT ![k] = v]]
  <1>1. /\ CacheType(p) /\ HasNodes(p) /\ Timely(p, now)
        /\ NoSpareVersion(c, owned) => NoSpareVersion(p, owned)
    BY PurgeOK
  <1>2. Invalidated(c, k, now, owned) = d
    BY DEF Invalidated
  <1> HIDE DEF p
  <1>3. /\ CacheType(w)
        /\ Present(w) = Present(p) \ {k}
        /\ \A j \in Present(p) \ {k} : w.entry[j] = p.entry[j]
        /\ w.heap = p.heap
        /\ NoSpareVersion(p, owned) => NoSpareVersion(w, owned)
    BY <1>1, WithoutOK
  <1> HIDE DEF w
  <1>4. v \in Nat /\ (v > 0 => k \in owned)
    BY <1>1 DEF CacheType
  <1> HIDE DEF v
  <1>5. /\ DOMAIN d = DOMAIN w
        /\ d.entry = w.entry /\ d.heap = w.heap /\ d.older = w.older
        /\ d.versions = [w.versions EXCEPT ![k] = v]
    BY <1>3 DEF CacheType
  <1> HIDE DEF d
  <1>6. CacheType(d)
    BY <1>3, <1>4, <1>5 DEF CacheType
  <1>7. Present(d) = Present(w)
    BY <1>5 DEF Present
  <1>8. HasNodes(d) /\ Timely(d, now)
    BY <1>1, <1>3, <1>5, <1>7 DEF HasNodes, Timely
  <1>9. NoSpareVersion(w, owned) => NoSpareVersion(d, owned)
    BY <1>3, <1>4, <1>5, <1>7 DEF NoSpareVersion, CacheType
  <1> QED BY <1>1, <1>2, <1>3, <1>6, <1>8, <1>9

(* After clear() only the versions that running loads compare are left.    *)
LEMMA ClearedOK ==
    ASSUME NEW c, CacheType(c), NEW now, NEW owned
    PROVE  /\ CacheType(Cleared(c, owned))
           /\ HasNodes(Cleared(c, owned))
           /\ Timely(Cleared(c, owned), now)
           /\ NoSpareVersion(Cleared(c, owned), owned)
  <1> DEFINE V == [k \in Keys |-> IF k \in owned THEN c.versions[k] ELSE 0]
             d == [EmptyCache EXCEPT !.versions = V]
  <1>1. V \in [Keys -> Nat]
    BY DEF CacheType
  <1>2. Cleared(c, owned) = d
    BY DEF Cleared
  <1>3. NoSpareVersion(d, owned)
    BY DEF NoSpareVersion, EmptyCache
  <1> HIDE DEF V
  <1>4. /\ d.entry = EmptyCache.entry /\ d.heap = EmptyCache.heap
        /\ d.older = EmptyCache.older /\ d.versions = V
        /\ DOMAIN d = DOMAIN EmptyCache
    BY DEF EmptyCache
  <1> HIDE DEF d
  <1>5. CacheType(d)
    BY <1>1, <1>4, EmptyCacheOK DEF CacheType
  <1>6. Present(d) = {}
    BY <1>4 DEF Present, EmptyCache, NoEntry
  <1> QED BY <1>2, <1>3, <1>5, <1>6 DEF HasNodes, Timely

(* drop_unused_version forgets the version of a key whose last load ended. *)
LEMMA DropOK ==
    ASSUME NEW c, CacheType(c), NEW k \in Keys, NEW owned, NEW now
    PROVE  /\ CacheType(Drop(c, k, owned))
           /\ Drop(c, k, owned).entry = c.entry
           /\ Drop(c, k, owned).heap = c.heap
           /\ HasNodes(c) => HasNodes(Drop(c, k, owned))
           /\ Timely(c, now) => Timely(Drop(c, k, owned), now)
           /\ NoSpareVersion(c, owned \cup {k}) => NoSpareVersion(Drop(c, k, owned), owned)
  <1> DEFINE d == [c EXCEPT !.versions = [@ EXCEPT ![k] = 0]]
  <1>1. /\ DOMAIN d = DOMAIN c
        /\ d.entry = c.entry /\ d.heap = c.heap /\ d.older = c.older
        /\ d.versions = [c.versions EXCEPT ![k] = 0]
    BY DEF CacheType
  <1> HIDE DEF d
  <1>2. CacheType(d)
    BY <1>1 DEF CacheType
  <1>3. Present(d) = Present(c)
    BY <1>1 DEF Present
  <1>4. HasNodes(c) => HasNodes(d)
    BY <1>1, <1>3 DEF HasNodes
  <1>5. Timely(c, now) => Timely(d, now)
    BY <1>1, <1>3 DEF Timely
  <1>6. NoSpareVersion(c, owned \cup {k}) => NoSpareVersion(d, owned)
    BY <1>1, <1>3 DEF NoSpareVersion, CacheType
  <1>7. CASE k \in Present(c) \cup owned
    <2>1. Drop(c, k, owned) = c
      BY <1>7 DEF Drop
    <2> QED BY <1>7, <2>1 DEF NoSpareVersion
  <1>8. CASE k \notin Present(c) \cup owned
    <2>1. Drop(c, k, owned) = d
      BY <1>8 DEF Drop, d
    <2> QED BY <1>1, <1>2, <1>4, <1>5, <1>6, <2>1
  <1> QED BY <1>7, <1>8

-----------------------------------------------------------------------------
(* A cache that is in order: typed, every entry with its node and in time, *)
(* and no version to spare.                                                *)
EntriesOK(c, now, owned) ==
    /\ CacheType(c)
    /\ HasNodes(c)
    /\ Timely(c, now)
    /\ NoSpareVersion(c, owned)

(* Purging keeps the entries in order.                                     *)
LEMMA PurgeKeeps ==
    ASSUME NEW c, NEW last, NEW owned, EntriesOK(c, last, owned), NEW now \in Nat
    PROVE  EntriesOK(Purge(c, now, owned), now, owned)
  BY PurgeOK DEF EntriesOK

(* So does a hit.                                                          *)
LEMMA TouchKeeps ==
    ASSUME NEW c, NEW now, NEW owned, EntriesOK(c, now, owned), NEW k \in Keys
    PROVE  EntriesOK(Touch(c, k), now, owned)
  BY TouchOK, SameCache DEF EntriesOK

(* bump_version of a key that is being loaded.                             *)
LEMMA BumpedOK ==
    ASSUME NEW c, NEW now, NEW owned, EntriesOK(c, now, owned), NEW k \in Keys, k \in owned
    PROVE  EntriesOK(Bumped(c, k), now, owned)
  <1> DEFINE V == [c.versions EXCEPT ![k] = @ + 1]
             d == [c EXCEPT !.versions = V]
  <1>1. CacheType(c) BY DEF EntriesOK
  <1>2. V \in [Keys -> Nat] /\ \A j \in Keys : j # k => V[j] = c.versions[j]
    BY <1>1 DEF CacheType
  <1> HIDE DEF V
  <1>3. /\ DOMAIN d = DOMAIN c /\ d.entry = c.entry /\ d.older = c.older
        /\ d.heap = c.heap /\ d.versions = V
    BY <1>1 DEF CacheType
  <1>4. d = Bumped(c, k) BY DEF V, Bumped
  <1> HIDE DEF d
  <1>5. CacheType(d) BY <1>1, <1>2, <1>3 DEF CacheType
  <1>6. HasNodes(d) /\ Timely(d, now)
    BY <1>3 DEF EntriesOK, HasNodes, Timely, Present
  <1>7. NoSpareVersion(d, owned)
    BY <1>2, <1>3 DEF EntriesOK, NoSpareVersion, Present
  <1> QED BY <1>4, <1>5, <1>6, <1>7 DEF EntriesOK

-----------------------------------------------------------------------------
(* The capacity                                                            *)

\* Of m alike nodes none has a number beyond m - 1, so the next number is free.
Numbered(heap) ==
    \A n \in heap : n.seq < Cardinality(Alike(heap, n.key, n.expires, n.version))

\* Entries and heap are within their limits, and the order of use has a first
\* key wherever one looks: nothing was used before itself, however indirectly.
Within(c) ==
    /\ IsFiniteSet(Present(c))
    /\ Cardinality(Present(c)) <= MaxSize
    /\ IsWellFoundedOn(c.older, Keys)
    /\ Numbered(c.heap)
    /\ Cardinality(c.heap) <= 2 * MaxSize

(* A set of nodes has a size, and so has what is alike in it.              *)
LEMMA HeapSize ==
    ASSUME NEW h, IsFiniteSet(h), NEW k, NEW e, NEW v
    PROVE  /\ Cardinality(h) \in Nat
           /\ IsFiniteSet(Alike(h, k, e, v))
           /\ Cardinality(Alike(h, k, e, v)) \in Nat
  <1>1. Alike(h, k, e, v) \subseteq h
    BY DEF Alike
  <1>2. IsFiniteSet(Alike(h, k, e, v))
    BY <1>1, FS_Subset
  <1> QED BY <1>2, FS_CardinalityType

(* heappush makes the heap longer by one: the node is not there yet.  This *)
(* is what the numbers are for; the size of the set is that of the code's  *)
(* list.                                                                   *)
LEMMA PushCounts ==
    ASSUME NEW h, h \subseteq Nodes, IsFiniteSet(h), Numbered(h),
           NEW k \in Keys, NEW e \in Nat, NEW v \in Nat
    PROVE  /\ Cardinality(Push(h, k, e, v)) = Cardinality(h) + 1
           /\ Numbered(Push(h, k, e, v))
  <1> DEFINE A == Alike(h, k, e, v)
             m == Cardinality(A)
             n == Node(k, e, v, m)
             g == h \cup {n}
  <1>1. IsFiniteSet(A) /\ m \in Nat /\ Cardinality(h) \in Nat
    BY HeapSize
  <1>2. n.key = k /\ n.expires = e /\ n.version = v /\ n.seq = m
    BY DEF Node
  <1>3. n \notin h
    <2> SUFFICES ASSUME n \in h PROVE FALSE
      OBVIOUS
    <2>1. n.seq < Cardinality(Alike(h, n.key, n.expires, n.version))
      BY DEF Numbered
    <2>2. m < m
      BY <1>2, <2>1
    <2> HIDE DEF m
    <2> QED BY <1>1, <2>2
  <1>4. Push(h, k, e, v) = g
    BY DEF Push
  <1> HIDE DEF n
  <1>5. Cardinality(g) = Cardinality(h) + 1 /\ IsFiniteSet(g)
    BY <1>3, FS_AddElement
  <1>6. ASSUME NEW x \in g
        PROVE  x.seq < Cardinality(Alike(g, x.key, x.expires, x.version))
    <2>1. CASE x \in h
      <3> DEFINE B == Alike(h, x.key, x.expires, x.version)
                 C == Alike(g, x.key, x.expires, x.version)
      <3>1. x.seq < Cardinality(B) /\ x.seq \in Nat
        BY <2>1 DEF Numbered, Nodes
      <3>2. B \subseteq C
        BY DEF Alike
      <3>3. IsFiniteSet(C) /\ Cardinality(C) \in Nat /\ Cardinality(B) \in Nat
        BY <1>5, HeapSize
      <3> HIDE DEF B, C
      <3>4. Cardinality(B) <= Cardinality(C)
        BY <3>2, <3>3, FS_Subset
      <3>5. x.seq < Cardinality(C)
        BY <3>1, <3>3, <3>4
      <3> QED BY <3>5 DEF C
    <2>2. CASE x = n
      <3>1. Alike(g, k, e, v) = A \cup {n}
        BY <1>2 DEF Alike
      <3>2. n \notin A
        BY <1>3 DEF Alike
      <3> HIDE DEF A, g
      <3>3. Cardinality(A \cup {n}) = m + 1
        BY <1>1, <3>2, FS_AddElement
      <3>4. m < m + 1
        BY <1>1
      <3> HIDE DEF m
      <3> QED BY <1>2, <2>2, <3>1, <3>3, <3>4
    <2> QED BY <2>1, <2>2
  <1>7. Numbered(g)
    BY <1>6 DEF Numbered
  <1> HIDE DEF g
  <1> QED BY <1>4, <1>5, <1>7

(* Nodes that expire together leave together, so the numbers stay in use.  *)
LEMMA PurgeNumbered ==
    ASSUME NEW c, NEW now, Numbered(c.heap)
    PROVE  Numbered(c.heap \ Due(c, now))
  <1> SUFFICES ASSUME NEW n \in c.heap \ Due(c, now)
               PROVE  n.seq < Cardinality(Alike(c.heap \ Due(c, now),
                                                n.key, n.expires, n.version))
    BY DEF Numbered
  <1>1. ~(n.expires <= now)
    BY DEF Due
  <1>2. Alike(c.heap \ Due(c, now), n.key, n.expires, n.version)
          = Alike(c.heap, n.key, n.expires, n.version)
    BY <1>1 DEF Alike, Due
  <1> QED BY <1>2 DEF Numbered

(* A rebuilt heap has one node for each entry, so it is within the limit.  *)
LEMMA LiveBounded ==
    ASSUME NEW c, IsFiniteSet(Present(c))
    PROVE  /\ Numbered(Live(c))
           /\ IsFiniteSet(Live(c))
           /\ Cardinality(Live(c)) <= Cardinality(Present(c))
  <1> DEFINE g == [k \in Present(c) |-> Node(k, c.entry[k].expires, c.entry[k].version, 0)]
  <1>1. g \in Surjection(Present(c), Live(c))
    BY DEF Surjection, Live
  <1> HIDE DEF g
  <1>2. IsFiniteSet(Live(c)) /\ Cardinality(Live(c)) <= Cardinality(Present(c))
    BY <1>1, FS_Surjection
  <1>3. ASSUME NEW n \in Live(c)
        PROVE  n.seq < Cardinality(Alike(Live(c), n.key, n.expires, n.version))
    <2> DEFINE A == Alike(Live(c), n.key, n.expires, n.version)
    <2>1. n.seq = 0
      BY DEF Live, Node
    <2>2. n \in A
      BY DEF Alike
    <2>3. IsFiniteSet(A) /\ Cardinality(A) \in Nat
      BY <1>2, HeapSize
    <2> HIDE DEF A
    <2>4. Cardinality(A) # 0
      BY <2>2, <2>3, FS_EmptySet
    <2>5. n.seq < Cardinality(A)
      BY <2>1, <2>3, <2>4
    <2> QED BY <2>5 DEF A
  <1> QED BY <1>2, <1>3 DEF Numbered

(* Fewer entries in the same order, with no more nodes, are within the     *)
(* limits too.                                                             *)
LEMMA FewerWithin ==
    ASSUME NEW c, NEW d, CacheType(c), Within(c), Present(d) \subseteq Present(c),
           d.older \subseteq c.older, d.heap \subseteq c.heap, Numbered(d.heap)
    PROVE  Within(d)
  <1>1. IsFiniteSet(Present(d)) /\ Cardinality(Present(d)) <= Cardinality(Present(c))
    BY FS_Subset DEF Within
  <1>2. Cardinality(Present(c)) \in Nat /\ Cardinality(Present(d)) \in Nat
    BY <1>1, FS_CardinalityType DEF Within
  <1>3. IsWellFoundedOn(d.older, Keys)
    BY IsWellFoundedOnSubrelation DEF Within
  <1>4. IsFiniteSet(c.heap)
    BY DEF CacheType
  <1>5. IsFiniteSet(d.heap) /\ Cardinality(d.heap) <= Cardinality(c.heap)
    BY <1>4, FS_Subset
  <1>6. Cardinality(c.heap) \in Nat /\ Cardinality(d.heap) \in Nat
    BY <1>4, <1>5, FS_CardinalityType
  <1>7. Cardinality(d.heap) <= 2 * MaxSize
    BY <1>5, <1>6, SizeAssumption DEF Within
  <1> QED BY <1>1, <1>2, <1>3, <1>7, SizeAssumption DEF Within

(* move_to_end adds no cycle: nothing comes after the key that moves.      *)
LEMMA TouchOrder ==
    ASSUME NEW c, CacheType(c), NEW k \in Keys, IsWellFoundedOn(c.older, Keys)
    PROVE  IsWellFoundedOn(Touch(c, k).older, Keys)
  <1> DEFINE R == Touch(c, k).older
  <1>1. R = {p \in c.older : p[1] # k /\ p[2] # k} \cup ((Present(c) \ {k}) \X {k})
    BY DEF Touch, CacheType
  <1> HIDE DEF R
  <1>2. \A i, j : <<i, j>> \in R => i # k /\ (j # k => <<i, j>> \in c.older)
    BY <1>1
  <1> SUFFICES ASSUME NEW f \in [Nat -> Keys], \A n \in Nat : <<f[n + 1], f[n]>> \in R
               PROVE  FALSE
    BY DEF IsWellFoundedOn, R
  <1> DEFINE g == [n \in Nat |-> f[n + 1]]
  <1>3. \A n \in Nat : f[n + 1] # k
    BY <1>2
  <1>4. ASSUME NEW n \in Nat PROVE <<f[(n + 1) + 1], f[n + 1]>> \in c.older
    <2>1. n + 1 \in Nat
      OBVIOUS
    <2>2. <<f[(n + 1) + 1], f[n + 1]>> \in R
      BY <2>1
    <2> QED BY <1>2, <1>3, <2>2
  <1>5. g \in [Nat -> Keys] /\ \A n \in Nat : g[n + 1] = f[(n + 1) + 1] /\ g[n] = f[n + 1]
    OBVIOUS
  <1> HIDE DEF g
  <1> QED BY <1>4, <1>5 DEF IsWellFoundedOn

(* popitem(last=False) finds an entry: the order of use has a first key.   *)
LEMMA LruPresent ==
    ASSUME NEW c, IsWellFoundedOn(c.older, Keys), Present(c) # {}
    PROVE  Lru(c) \in Present(c)
  <1>1. Present(c) \subseteq Keys
    BY DEF Present
  <1>2. \E k \in Present(c) : \A j \in Present(c) : ~(<<j, k>> \in c.older)
    BY <1>1, WFMin
  <1> QED BY <1>2 DEF Lru

(* Entries that leave do not disturb the order of the others.              *)
LEMMA WithoutOrder ==
    ASSUME NEW c, NEW K, NEW owned
    PROVE  Without(c, K, owned).older \subseteq c.older
  BY DEF Without

(* The empty cache is within its capacity.                                 *)
LEMMA EmptyWithin == Within(EmptyCache)
  <1>1. Present(EmptyCache) = {} /\ EmptyCache.older = {} /\ EmptyCache.heap = {}
    BY DEF Present, EmptyCache, NoEntry
  <1>2. Cardinality({}) <= 2 * MaxSize /\ Cardinality({}) <= MaxSize
    BY FS_EmptySet, SizeAssumption
  <1> QED BY <1>1, <1>2, FS_EmptySet, EmptyIsWellFounded DEF Within, Numbered

(* So is one that was purged.                                              *)
LEMMA PurgeWithin ==
    ASSUME NEW c, CacheType(c), NEW now, NEW owned, Within(c)
    PROVE  Within(Purge(c, now, owned))
  <1> DEFINE w == Without(c, Expired(c, now), owned)
  <1>1. /\ CacheType(w) /\ Present(w) \subseteq Present(c)
        /\ w.older \subseteq c.older /\ w.heap = c.heap
    BY WithoutOK, WithoutOrder
  <1> HIDE DEF w
  <1>2. /\ Purge(c, now, owned).entry = w.entry /\ Purge(c, now, owned).older = w.older
        /\ Purge(c, now, owned).heap = c.heap \ Due(c, now)
    BY <1>1 DEF Purge, w, CacheType
  <1>3. Present(Purge(c, now, owned)) = Present(w)
    BY <1>2 DEF Present
  <1>4. Numbered(c.heap \ Due(c, now))
    BY PurgeNumbered DEF Within
  <1> QED BY <1>1, <1>2, <1>3, <1>4, FewerWithin

(* A hit changes the order of use only.                                    *)
LEMMA TouchWithin ==
    ASSUME NEW c, CacheType(c), NEW k \in Keys, Within(c)
    PROVE  Within(Touch(c, k))
  <1>1. Present(Touch(c, k)) = Present(c) /\ Touch(c, k).heap = c.heap
    BY TouchOK DEF Present
  <1> QED BY <1>1, TouchOrder DEF Within

(* Put adds its key, as the one used last.                                 *)
LEMMA PutPresent ==
    ASSUME NEW c, CacheType(c), NEW k \in Keys, NEW ttl \in Nat, NEW now \in Nat
    PROVE  /\ Present(Put(c, k, ttl, now)) = Present(c) \cup {k}
           /\ Put(c, k, ttl, now).older = Touch(c, k).older
           /\ Put(c, k, ttl, now).heap = Push(c.heap, k, now + ttl, c.versions[k] + 1)
           /\ Put(c, k, ttl, now).entry[k].expires = now + ttl
  <1> DEFINE v == c.versions[k] + 1
             e == [expires |-> now + ttl, version |-> v]
             t == Touch(c, k)
             h == Push(t.heap, k, now + ttl, v)
             V == [t.versions EXCEPT ![k] = v]
             d == Put(c, k, ttl, now)
  <1>1. CacheType(t) /\ t.entry = c.entry /\ t.heap = c.heap
    BY TouchOK
  <1>2. v \in Nat /\ v > 0 /\ e.version = v
    BY DEF CacheType
  <1>3. d = [t EXCEPT !.entry = [t.entry EXCEPT ![k] = e], !.heap = h, !.versions = V]
    BY DEF Put
  <1> HIDE DEF d, t, h, V, e, v
  <1>4. d.entry = [c.entry EXCEPT ![k] = e] /\ d.older = t.older /\ d.heap = h
    BY <1>1, <1>3 DEF CacheType
  <1>5. \A j \in Keys : d.entry[j] = IF j = k THEN e ELSE c.entry[j]
    BY <1>4 DEF CacheType
  <1>6. Present(d) = Present(c) \cup {k}
    BY <1>2, <1>5 DEF Present
  <1>7. d.entry[k].expires = now + ttl
    BY <1>5 DEF e
  <1> QED BY <1>1, <1>4, <1>6, <1>7 DEF d, t, h, v

(* Storing a key adds one entry and evicts one when there are too many.    *)
LEMMA StoreWithin ==
    ASSUME NEW c, CacheType(c), HasNodes(c), NEW now \in Nat, NEW k \in Keys,
           NEW ttl \in Nat \ {0}, NEW owned, Within(c)
    PROVE  Within(Store(c, k, ttl, now, owned))
  <1> DEFINE p == Purge(c, now, owned)
             q == Put(p, k, ttl, now)
             r == Evict(q, owned)
  <1>1. CacheType(p) /\ HasNodes(p) /\ Timely(p, now) /\ Within(p)
    BY PurgeOK, PurgeWithin
  <1> HIDE DEF p
  <1>2. /\ CacheType(q)
        /\ Present(q) = Present(p) \cup {k}
        /\ IsWellFoundedOn(q.older, Keys)
        /\ q.heap = Push(p.heap, k, now + ttl, p.versions[k] + 1)
    <2>1. IsWellFoundedOn(Touch(p, k).older, Keys)
      BY <1>1, TouchOrder DEF Within
    <2>2. /\ Present(q) = Present(p) \cup {k} /\ q.older = Touch(p, k).older
          /\ q.heap = Push(p.heap, k, now + ttl, p.versions[k] + 1)
      <3>1. \A t \in Nat : /\ Present(Put(p, k, t, now)) = Present(p) \cup {k}
                           /\ Put(p, k, t, now).older = Touch(p, k).older
                           /\ Put(p, k, t, now).heap
                                = Push(p.heap, k, now + t, p.versions[k] + 1)
        BY <1>1, PutPresent
      <3> QED BY <3>1
    <2>3. CacheType(q)
      BY <1>1, PutOK
    <2> QED BY <2>1, <2>2, <2>3
  <1> HIDE DEF q
  <1>3. /\ IsFiniteSet(Present(q)) /\ Cardinality(Present(q)) \in Nat
        /\ Cardinality(Present(q)) <= MaxSize + 1
    <2>1. IsFiniteSet(Present(p)) /\ Cardinality(Present(p)) \in Nat
          /\ Cardinality(Present(p)) <= MaxSize
      BY <1>1, FS_CardinalityType DEF Within
    <2>2. /\ IsFiniteSet(Present(p) \cup {k})
          /\ \/ Cardinality(Present(p) \cup {k}) = Cardinality(Present(p))
             \/ Cardinality(Present(p) \cup {k}) = Cardinality(Present(p)) + 1
      BY <2>1, FS_AddElement
    <2> QED BY <1>2, <2>1, <2>2, SizeAssumption
  <1>4. Numbered(q.heap)
    <2>1. p.heap \subseteq Nodes /\ IsFiniteSet(p.heap) /\ p.versions[k] + 1 \in Nat
      BY <1>1 DEF CacheType
    <2> QED BY <1>1, <1>2, <2>1, PushCounts DEF Within
  <1>5. /\ CacheType(r) /\ IsFiniteSet(Present(r)) /\ Cardinality(Present(r)) <= MaxSize
        /\ IsWellFoundedOn(r.older, Keys) /\ r.heap = q.heap
    <2>1. CASE Cardinality(Present(q)) <= MaxSize
      <3>1. r = q
        BY <1>3, <2>1, SizeAssumption DEF Evict
      <3> QED BY <1>2, <1>3, <2>1, <3>1
    <2>2. CASE ~(Cardinality(Present(q)) <= MaxSize)
      <3>1. r = Without(q, {Lru(q)}, owned)
        BY <1>3, <2>2, SizeAssumption DEF Evict
      <3>2. Cardinality(Present(q)) = MaxSize + 1
        BY <1>3, <2>2, SizeAssumption
      <3>3. Lru(q) \in Present(q)
        BY <1>2, LruPresent
      <3>4. /\ CacheType(r) /\ Present(r) = Present(q) \ {Lru(q)}
            /\ r.older \subseteq q.older /\ r.heap = q.heap
        BY <1>2, <3>1, WithoutOK, WithoutOrder
      <3>5. IsFiniteSet(Present(r)) /\ Cardinality(Present(r)) = Cardinality(Present(q)) - 1
        BY <1>3, <3>3, <3>4, FS_RemoveElement
      <3>6. IsWellFoundedOn(r.older, Keys)
        BY <1>2, <3>4, IsWellFoundedOnSubrelation
      <3> QED BY <3>2, <3>4, <3>5, <3>6, SizeAssumption
    <2> QED BY <2>1, <2>2
  <1> HIDE DEF r
  <1>6. /\ Present(Rebuild(r)) = Present(r) /\ Rebuild(r).older = r.older
        /\ Rebuild(r).heap = IF Cardinality(r.heap) > 2 * MaxSize THEN Live(r) ELSE r.heap
    BY <1>5 DEF Rebuild, Present, CacheType
  <1>7. Numbered(Rebuild(r).heap) /\ Cardinality(Rebuild(r).heap) <= 2 * MaxSize
    <2>1. IsFiniteSet(r.heap) /\ Cardinality(r.heap) \in Nat
      BY <1>5, FS_CardinalityType DEF CacheType
    <2>2. /\ Numbered(Live(r)) /\ Cardinality(Live(r)) <= Cardinality(Present(r))
          /\ Cardinality(Live(r)) \in Nat /\ Cardinality(Present(r)) \in Nat
      BY <1>5, LiveBounded, FS_CardinalityType
    <2>3. Cardinality(Live(r)) <= 2 * MaxSize
      BY <1>5, <2>2, SizeAssumption
    <2>4. CASE Cardinality(r.heap) > 2 * MaxSize
      BY <1>6, <2>2, <2>3, <2>4
    <2>5. CASE ~(Cardinality(r.heap) > 2 * MaxSize)
      <3>1. Cardinality(r.heap) <= 2 * MaxSize
        BY <2>1, <2>5, SizeAssumption
      <3> QED BY <1>4, <1>5, <1>6, <2>5, <3>1
    <2> QED BY <2>4, <2>5
  <1>8. Store(c, k, ttl, now, owned) = Rebuild(r)
    BY DEF Store, p, q, r
  <1> QED BY <1>5, <1>6, <1>7, <1>8 DEF Within

(* invalidate() takes an entry out and leaves the order as it is.          *)
LEMMA InvalidatedWithin ==
    ASSUME NEW c, CacheType(c), HasNodes(c), NEW now \in Nat, NEW k \in Keys, NEW owned,
           Within(c)
    PROVE  Within(Invalidated(c, k, now, owned))
  <1> DEFINE p == Purge(c, now, owned)
             w == Without(p, {k}, owned)
             V == [w.versions EXCEPT ![k] = IF k \in owned THEN p.versions[k] + 1 ELSE 0]
  <1>1. CacheType(p) /\ Within(p)
    BY PurgeOK, PurgeWithin
  <1>2. Invalidated(c, k, now, owned) = [w EXCEPT !.versions = V]
    BY DEF Invalidated
  <1> HIDE DEF p, V
  <1>3. /\ Present(w) \subseteq Present(p) /\ w.older \subseteq p.older /\ CacheType(w)
        /\ w.heap = p.heap
    BY <1>1, WithoutOK, WithoutOrder
  <1> HIDE DEF w
  <1>4. /\ Invalidated(c, k, now, owned).entry = w.entry
        /\ Invalidated(c, k, now, owned).older = w.older
        /\ Invalidated(c, k, now, owned).heap = w.heap
    BY <1>2, <1>3 DEF CacheType
  <1>5. Present(Invalidated(c, k, now, owned)) = Present(w)
    BY <1>4 DEF Present
  <1>6. Numbered(p.heap)
    BY <1>1 DEF Within
  <1> QED BY <1>1, <1>3, <1>4, <1>5, <1>6, FewerWithin

(* clear() leaves nothing.                                                 *)
LEMMA ClearedWithin ==
    ASSUME NEW c, NEW owned
    PROVE  Within(Cleared(c, owned))
  <1>1. /\ Cleared(c, owned).entry = EmptyCache.entry
        /\ Cleared(c, owned).older = EmptyCache.older
        /\ Cleared(c, owned).heap = EmptyCache.heap
    BY DEF Cleared, EmptyCache
  <1>2. Present(Cleared(c, owned)) = Present(EmptyCache)
    BY <1>1 DEF Present
  <1> QED BY <1>1, <1>2, EmptyWithin DEF Within

(* drop_unused_version is about versions only.                             *)
LEMMA DropWithin ==
    ASSUME NEW c, CacheType(c), NEW k, NEW owned, Within(c)
    PROVE  Within(Drop(c, k, owned))
  <1>1. /\ Drop(c, k, owned).entry = c.entry /\ Drop(c, k, owned).older = c.older
        /\ Drop(c, k, owned).heap = c.heap
    BY DEF Drop, CacheType
  <1>2. Present(Drop(c, k, owned)) = Present(c)
    BY <1>1 DEF Present
  <1> QED BY <1>1, <1>2 DEF Within

(* So is bump_version.                                                     *)
LEMMA BumpedWithin ==
    ASSUME NEW c, CacheType(c), NEW k, Within(c)
    PROVE  Within(Bumped(c, k))
  <1>1. /\ Bumped(c, k).entry = c.entry /\ Bumped(c, k).older = c.older
        /\ Bumped(c, k).heap = c.heap
    BY DEF Bumped, CacheType
  <1>2. Present(Bumped(c, k)) = Present(c)
    BY <1>1 DEF Present
  <1> QED BY <1>1, <1>2 DEF Within

-----------------------------------------------------------------------------
(* The order of use                                                        *)

\* Of two entries one was used before the other.
Ordered(c) ==
    \A j, k \in Present(c) : j # k => <<j, k>> \in c.older \/ <<k, j>> \in c.older

(* Then the key that is evicted is determined: every other key was used    *)
(* after it.                                                               *)
LEMMA LruFirst ==
    ASSUME NEW c, IsWellFoundedOn(c.older, Keys), Ordered(c), Present(c) # {}
    PROVE  /\ Lru(c) \in Present(c)
           /\ \A j \in Present(c) \ {Lru(c)} : <<Lru(c), j>> \in c.older
  <1>1. Present(c) \subseteq Keys
    BY DEF Present
  <1>2. \E k \in Present(c) : \A j \in Present(c) : <<j, k>> \notin c.older
    BY <1>1, WFMin
  <1>3. Lru(c) \in Present(c) /\ \A j \in Present(c) : <<j, Lru(c)>> \notin c.older
    BY <1>2 DEF Lru
  <1> QED BY <1>3 DEF Ordered

(* The entries that stay keep their order.                                 *)
LEMMA WithoutOrdered ==
    ASSUME NEW c, CacheType(c), NEW K, NEW owned, Ordered(c)
    PROVE  Ordered(Without(c, K, owned))
  <1>1. Present(Without(c, K, owned)) = Present(c) \ K
    BY WithoutOK
  <1>2. Without(c, K, owned).older = {p \in c.older : p[1] \notin K /\ p[2] \notin K}
    BY DEF Without
  <1> QED BY <1>1, <1>2 DEF Ordered

(* Purging takes entries out.                                              *)
LEMMA PurgeOrdered ==
    ASSUME NEW c, CacheType(c), NEW now, NEW owned, Ordered(c)
    PROVE  Ordered(Purge(c, now, owned))
  <1> DEFINE w == Without(c, Expired(c, now), owned)
  <1>1. CacheType(w) /\ Ordered(w)
    BY WithoutOK, WithoutOrdered
  <1> HIDE DEF w
  <1>2. Purge(c, now, owned).entry = w.entry /\ Purge(c, now, owned).older = w.older
    BY <1>1 DEF Purge, w, CacheType
  <1> QED BY <1>1, <1>2 DEF Ordered, Present

(* move_to_end puts one key behind all others and leaves those in order,   *)
(* whether the key has an entry already or gets one with the same step.    *)
LEMMA TouchOrders ==
    ASSUME NEW c, CacheType(c), NEW k \in Keys, Ordered(c)
    PROVE  /\ \A i, j \in Present(c) \cup {k} : i # j =>
                 <<i, j>> \in Touch(c, k).older \/ <<j, i>> \in Touch(c, k).older
           /\ \A j \in Present(c) \ {k} : <<j, k>> \in Touch(c, k).older
  <1>1. Touch(c, k).older = {p \in c.older : p[1] # k /\ p[2] # k}
                              \cup ((Present(c) \ {k}) \X {k})
    BY DEF Touch, CacheType
  <1>2. \A j \in Present(c) \ {k} : <<j, k>> \in Touch(c, k).older
    BY <1>1
  <1>3. \A i, j : <<i, j>> \in c.older /\ i # k /\ j # k => <<i, j>> \in Touch(c, k).older
    BY <1>1
  <1> QED BY <1>2, <1>3 DEF Ordered

(* A hit keeps the entries in an order.                                    *)
LEMMA TouchOrdered ==
    ASSUME NEW c, CacheType(c), NEW k \in Keys, Ordered(c)
    PROVE  Ordered(Touch(c, k))
  <1>1. Present(Touch(c, k)) = Present(c)
    BY TouchOK DEF Present
  <1> QED BY <1>1, TouchOrders DEF Ordered

(* store() evicts another key than the one it stores, however small the    *)
(* cache: the new entry is the one used last, and a cache that is too      *)
(* large holds an older one.                                               *)
LEMMA StoreKeeps ==
    ASSUME NEW c, CacheType(c), HasNodes(c), NEW now \in Nat, NEW k \in Keys,
           NEW ttl \in Nat \ {0}, NEW owned, Within(c), Ordered(c)
    PROVE  /\ k \in Present(Store(c, k, ttl, now, owned))
           /\ Store(c, k, ttl, now, owned).entry[k].expires = now + ttl
           /\ Ordered(Store(c, k, ttl, now, owned))
  <1> DEFINE p == Purge(c, now, owned)
             q == Put(p, k, ttl, now)
             r == Evict(q, owned)
  <1>1. CacheType(p) /\ HasNodes(p) /\ Timely(p, now) /\ Within(p) /\ Ordered(p)
    BY PurgeOK, PurgeWithin, PurgeOrdered
  <1> HIDE DEF p
  <1>2. /\ Present(q) = Present(p) \cup {k} /\ q.older = Touch(p, k).older
        /\ q.entry[k].expires = now + ttl
    BY <1>1, PutPresent
  <1>3. CacheType(q)
    BY <1>1, PutOK
  <1>4. IsWellFoundedOn(q.older, Keys)
    BY <1>1, <1>2, TouchOrder DEF Within
  <1>5. Ordered(q) /\ \A j \in Present(q) \ {k} : <<j, k>> \in q.older
    BY <1>1, <1>2, TouchOrders DEF Ordered
  <1> HIDE DEF q
  <1>6. /\ CacheType(r) /\ Ordered(r) /\ k \in Present(r)
        /\ r.entry[k].expires = now + ttl
    <2>1. CASE ~(Cardinality(Present(q)) > MaxSize)
      <3>1. r = q
        BY <2>1 DEF Evict
      <3> QED BY <1>2, <1>3, <1>5, <3>1
    <2>2. CASE Cardinality(Present(q)) > MaxSize
      <3>1. r = Without(q, {Lru(q)}, owned)
        BY <2>2 DEF Evict
      <3>2. Present(q) # {k}
        <4>1. Cardinality({k}) = 1
          BY FS_Singleton
        <4> QED BY <2>2, <4>1, SizeAssumption
      <3>3. PICK j \in Present(q) : j # k
        BY <1>2, <3>2
      <3>4. \E x \in Present(q) : \A y \in Present(q) : <<y, x>> \notin q.older
        <4>1. Present(q) \subseteq Keys /\ Present(q) # {}
          BY <1>2 DEF Present
        <4> QED BY <1>4, <4>1, WFMin
      <3>5. \A y \in Present(q) : <<y, Lru(q)>> \notin q.older
        BY <3>4 DEF Lru
      <3>6. Lru(q) # k
        BY <1>5, <3>3, <3>5
      <3>7. /\ CacheType(r) /\ Ordered(r) /\ Present(r) = Present(q) \ {Lru(q)}
            /\ \A i \in Present(q) \ {Lru(q)} : r.entry[i] = q.entry[i]
        BY <1>3, <1>5, <3>1, WithoutOK, WithoutOrdered
      <3> QED BY <1>2, <3>6, <3>7
    <2> QED BY <2>1, <2>2
  <1> HIDE DEF r
  <1>7. Rebuild(r).entry = r.entry /\ Rebuild(r).older = r.older
    BY <1>6 DEF Rebuild, CacheType
  <1>8. Store(c, k, ttl, now, owned) = Rebuild(r)
    BY DEF Store, p, q, r
  <1> QED BY <1>6, <1>7, <1>8 DEF Ordered, Present

(* invalidate() takes an entry out.                                        *)
LEMMA InvalidatedOrdered ==
    ASSUME NEW c, CacheType(c), HasNodes(c), NEW now \in Nat, NEW k \in Keys, NEW owned,
           Ordered(c)
    PROVE  Ordered(Invalidated(c, k, now, owned))
  <1> DEFINE p == Purge(c, now, owned)
             w == Without(p, {k}, owned)
             V == [w.versions EXCEPT ![k] = IF k \in owned THEN p.versions[k] + 1 ELSE 0]
  <1>1. CacheType(p) /\ Ordered(p)
    BY PurgeOK, PurgeOrdered
  <1>2. Invalidated(c, k, now, owned) = [w EXCEPT !.versions = V]
    BY DEF Invalidated
  <1> HIDE DEF p, V
  <1>3. CacheType(w) /\ Ordered(w)
    BY <1>1, WithoutOK, WithoutOrdered
  <1> HIDE DEF w
  <1>4. /\ Invalidated(c, k, now, owned).entry = w.entry
        /\ Invalidated(c, k, now, owned).older = w.older
    BY <1>2, <1>3 DEF CacheType
  <1> QED BY <1>3, <1>4 DEF Ordered, Present

(* The order of the entries is that of entry and older only.               *)
LEMMA SameOrdered ==
    ASSUME NEW c, NEW d, Ordered(c), d.entry = c.entry, d.older = c.older
    PROVE  Ordered(d)
  BY DEF Ordered, Present

(* An empty cache is in order, and so is one that was cleared.             *)
LEMMA ClearedOrdered ==
    ASSUME NEW c, NEW owned
    PROVE  Ordered(EmptyCache) /\ Ordered(Cleared(c, owned))
  <1>1. Cleared(c, owned).entry = EmptyCache.entry
    BY DEF Cleared, EmptyCache
  <1>2. Present(EmptyCache) = {}
    BY DEF Present, EmptyCache, NoEntry
  <1>3. Present(Cleared(c, owned)) = {}
    BY <1>1, <1>2 DEF Present
  <1> QED BY <1>2, <1>3 DEF Ordered

(* drop_unused_version is about versions only.                             *)
LEMMA DropOrdered ==
    ASSUME NEW c, CacheType(c), NEW k, NEW owned, Ordered(c)
    PROVE  Ordered(Drop(c, k, owned))
  <1>1. Drop(c, k, owned).entry = c.entry /\ Drop(c, k, owned).older = c.older
    BY DEF Drop, CacheType
  <1> QED BY <1>1, SameOrdered

-----------------------------------------------------------------------------
(* The versions of keys that are being loaded                              *)

\* The keys of K have the version they had in c.
SameVersions(c, d, K) == \A j \in K : d.versions[j] = c.versions[j]

(* Entries may leave, the versions their loads began with stay.            *)
LEMMA PurgeVersions ==
    ASSUME NEW c, CacheType(c), NEW now, NEW owned
    PROVE  SameVersions(c, Purge(c, now, owned), Keys \cap owned)
  <1> DEFINE w == Without(c, Expired(c, now), owned)
  <1>1. CacheType(w)
    BY WithoutOK
  <1>2. \A j \in Keys \cap owned : w.versions[j] = c.versions[j]
    BY DEF Without
  <1> HIDE DEF w
  <1>3. Purge(c, now, owned).versions = w.versions
    BY <1>1 DEF Purge, w, CacheType
  <1> QED BY <1>2, <1>3 DEF SameVersions

(* Put counts up the version of its own key only.                          *)
LEMMA PutVersions ==
    ASSUME NEW c, CacheType(c), NEW k \in Keys, NEW ttl, NEW now
    PROVE  SameVersions(c, Put(c, k, ttl, now), Keys \ {k})
  <1> DEFINE v == c.versions[k] + 1
             t == Touch(c, k)
             E == [t.entry EXCEPT ![k] = [expires |-> now + ttl, version |-> v]]
             H == Push(t.heap, k, now + ttl, v)
             V == [t.versions EXCEPT ![k] = v]
  <1>1. CacheType(t) /\ t.versions = c.versions
    BY TouchOK
  <1>2. Put(c, k, ttl, now) = [t EXCEPT !.entry = E, !.heap = H, !.versions = V]
    BY DEF Put
  <1> HIDE DEF t, E, H, v
  <1>3. Put(c, k, ttl, now).versions = V
    BY <1>1, <1>2 DEF CacheType
  <1>4. \A j \in Keys \ {k} : V[j] = c.versions[j]
    BY <1>1 DEF CacheType
  <1> QED BY <1>3, <1>4 DEF SameVersions

(* store() leaves the version of every other key that is being loaded.     *)
LEMMA StoreVersions ==
    ASSUME NEW c, CacheType(c), HasNodes(c), NEW now \in Nat, NEW k \in Keys,
           NEW ttl \in Nat \ {0}, NEW owned
    PROVE  SameVersions(c, Store(c, k, ttl, now, owned), (Keys \cap owned) \ {k})
  <1> DEFINE p == Purge(c, now, owned)
             q == Put(p, k, ttl, now)
             r == Evict(q, owned)
  <1>1. CacheType(p) /\ HasNodes(p) /\ Timely(p, now)
        /\ SameVersions(c, p, Keys \cap owned)
    BY PurgeOK, PurgeVersions
  <1> HIDE DEF p
  <1>2. CacheType(q)
    BY <1>1, PutOK
  <1>3. SameVersions(p, q, Keys \ {k})
    BY <1>1, PutVersions
  <1> HIDE DEF q
  <1>4. CacheType(r)
    <2>1. CacheType(Without(q, {Lru(q)}, owned))
      BY <1>2, WithoutOK
    <2> QED BY <1>2, <2>1 DEF Evict
  <1>5. SameVersions(q, r, Keys \cap owned)
    BY DEF Evict, Without, SameVersions
  <1> HIDE DEF r
  <1>6. Rebuild(r).versions = r.versions
    BY <1>4 DEF Rebuild, CacheType
  <1>7. Store(c, k, ttl, now, owned) = Rebuild(r)
    BY DEF Store, p, q, r
  <1> QED BY <1>1, <1>3, <1>5, <1>6, <1>7 DEF SameVersions

(* invalidate() leaves the version of every other key that is being loaded. *)
LEMMA InvalidatedVersions ==
    ASSUME NEW c, CacheType(c), HasNodes(c), NEW now \in Nat, NEW k \in Keys, NEW owned
    PROVE  SameVersions(c, Invalidated(c, k, now, owned), (Keys \cap owned) \ {k})
  <1> DEFINE p == Purge(c, now, owned)
             w == Without(p, {k}, owned)
             V == [w.versions EXCEPT ![k] = IF k \in owned THEN p.versions[k] + 1 ELSE 0]
  <1>1. CacheType(p) /\ SameVersions(c, p, Keys \cap owned)
    BY PurgeOK, PurgeVersions
  <1>2. Invalidated(c, k, now, owned) = [w EXCEPT !.versions = V]
    BY DEF Invalidated
  <1> HIDE DEF p
  <1>3. CacheType(w)
    BY <1>1, WithoutOK
  <1>4. SameVersions(p, w, Keys \cap owned)
    BY DEF Without, SameVersions
  <1> HIDE DEF w
  <1>5. \A j \in Keys \ {k} : V[j] = w.versions[j]
    BY <1>3 DEF CacheType
  <1> HIDE DEF V
  <1>6. Invalidated(c, k, now, owned).versions = V
    BY <1>2, <1>3 DEF CacheType
  <1> QED BY <1>1, <1>4, <1>5, <1>6 DEF SameVersions

(* drop_unused_version looks at the loads that are left.                   *)
LEMMA DropVersions ==
    ASSUME NEW c, CacheType(c), NEW k \in Keys, NEW owned
    PROVE  SameVersions(c, Drop(c, k, owned), Keys \cap owned)
  <1> DEFINE V == [c.versions EXCEPT ![k] = 0]
  <1>1. \A j \in Keys \ {k} : V[j] = c.versions[j]
    BY DEF CacheType
  <1>2. CASE k \in Present(c) \cup owned
    BY <1>2 DEF Drop, SameVersions
  <1>3. CASE ~(k \in Present(c) \cup owned)
    <2>1. Drop(c, k, owned) = [c EXCEPT !.versions = V]
      BY <1>3 DEF Drop
    <2> HIDE DEF V
    <2>2. Drop(c, k, owned).versions = V
      BY <2>1 DEF CacheType
    <2> QED BY <1>1, <1>3, <2>2 DEF SameVersions
  <1> QED BY <1>2, <1>3

(* bump_version changes the version of one key.                            *)
LEMMA BumpedVersions ==
    ASSUME NEW c, CacheType(c), NEW k
    PROVE  SameVersions(c, Bumped(c, k), Keys \ {k})
  <1> DEFINE V == [c.versions EXCEPT ![k] = @ + 1]
  <1>1. Bumped(c, k) = [c EXCEPT !.versions = V]
    BY DEF Bumped
  <1>2. \A j \in Keys \ {k} : V[j] = c.versions[j]
    BY DEF CacheType
  <1> HIDE DEF V
  <1>3. Bumped(c, k).versions = V
    BY <1>1 DEF CacheType
  <1> QED BY <1>2, <1>3 DEF SameVersions

(* bump_version leaves the entries in their order.                         *)
LEMMA BumpedOrdered ==
    ASSUME NEW c, CacheType(c), NEW k, Ordered(c)
    PROVE  Ordered(Bumped(c, k))
  <1>1. Bumped(c, k).entry = c.entry /\ Bumped(c, k).older = c.older
    BY DEF Bumped, CacheType
  <1> QED BY <1>1, SameOrdered

=============================================================================
