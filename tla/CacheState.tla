----------------------------- MODULE CacheState -----------------------------
(***************************************************************************)
(* The pure state of the caches of bluetape-cache (_CacheState): entries,  *)
(* their order of use, the expiry heap and the key versions.  Every        *)
(* operation is an operator from a cache to a cache; the caches that share *)
(* it call it under their lock.                                            *)
(*                                                                         *)
(* Values are left out: an entry is told from another of the same key by   *)
(* its expiry and its version.  So are the counters of stats(), which      *)
(* nothing reads back.  The heap is a set of nodes: their order is that of *)
(* their expiry, and of the sequence numbers only what tells two nodes     *)
(* apart that are alike otherwise is kept.                                 *)
(***************************************************************************)
EXTENDS Naturals, FiniteSets

CONSTANTS
    Keys,     \* the keys callers use
    MaxSize   \* max_size

ASSUME SizeAssumption == MaxSize \in Nat \ {0}

\* No entry; the versions of stored entries start at 1.
NoEntry == [expires |-> 0, version |-> 0]

\* older holds <<j, k>> when the OrderedDict has j before k.
EmptyCache ==
    [entry    |-> [k \in Keys |-> NoEntry],
     older    |-> {},
     heap     |-> {},
     versions |-> [k \in Keys |-> 0]]

Present(c) == {k \in Keys : c.entry[k].version > 0}

Node(k, expires, version, seq) ==
    [key |-> k, expires |-> expires, version |-> version, seq |-> seq]

\* The nodes for one expiry of one version of a key: more than one when the
\* version was dropped and counted up again, while the first node waits.
Alike(heap, k, expires, version) ==
    {n \in heap : n.key = k /\ n.expires = expires /\ n.version = version}

\* Is this the node of the entry that is stored now?
Current(c, n) ==
    c.entry[n.key].version > 0 /\ c.entry[n.key].version = n.version

\* The entries of K leave.  The version of a key is dropped with its entry
\* (drop_unused_version), unless a load of the key is under way.
Without(c, K, owned) ==
    [entry    |-> [k \in Keys |-> IF k \in K THEN NoEntry ELSE c.entry[k]],
     older    |-> {p \in c.older : p[1] \notin K /\ p[2] \notin K},
     heap     |-> c.heap,
     versions |-> [k \in Keys |-> IF k \in K \ owned THEN 0 ELSE c.versions[k]]]

Due(c, now) == {n \in c.heap : n.expires <= now}

Expired(c, now) == {k \in Keys : \E n \in Due(c, now) : n.key = k /\ Current(c, n)}

\* purge_expired pops every node that is due; the entry of a current one leaves.
Purge(c, now, owned) ==
    [Without(c, Expired(c, now), owned) EXCEPT
        !.heap = @ \ Due(c, now)]

\* move_to_end
Touch(c, k) ==
    [c EXCEPT !.older = {p \in @ : p[1] # k /\ p[2] # k}
                          \cup ((Present(c) \ {k}) \X {k})]

\* heappush, with a sequence number that no alike node has
Push(heap, k, expires, version) ==
    heap \cup {Node(k, expires, version, Cardinality(Alike(heap, k, expires, version)))}

Put(c, k, ttl, now) ==
    LET v == c.versions[k] + 1
    IN  [Touch(c, k) EXCEPT
            !.entry    = [@ EXCEPT ![k] = [expires |-> now + ttl, version |-> v]],
            !.heap     = Push(@, k, now + ttl, v),
            !.versions = [@ EXCEPT ![k] = v]]

\* The first key of the OrderedDict.
Lru(c) == CHOOSE k \in Present(c) : \A j \in Present(c) : <<j, k>> \notin c.older

\* Storing one key makes the cache too large by one entry at most.
Evict(c, owned) ==
    IF Cardinality(Present(c)) > MaxSize THEN Without(c, {Lru(c)}, owned) ELSE c

Live(c) == {Node(k, c.entry[k].expires, c.entry[k].version, 0) : k \in Present(c)}

\* Faulty variant of Rebuild: live nodes go as well.
RebuildEmpty(c) ==
    IF Cardinality(c.heap) > 2 * MaxSize THEN [c EXCEPT !.heap = {}] ELSE c

\* rebuild_expiry_heap keeps the number of nodes that are not current bounded.
Rebuild(c) ==
    IF Cardinality(c.heap) > 2 * MaxSize THEN [c EXCEPT !.heap = Live(c)] ELSE c

Store(c, k, ttl, now, owned) ==
    Rebuild(Evict(Put(Purge(c, now, owned), k, ttl, now), owned))

\* The version is bumped even if there is no entry, and kept for the loads.
Invalidated(c, k, now, owned) ==
    LET p == Purge(c, now, owned)
    IN  [Without(p, {k}, owned) EXCEPT
            !.versions = [@ EXCEPT ![k] = IF k \in owned THEN p.versions[k] + 1 ELSE 0]]

Cleared(c, owned) ==
    [EmptyCache EXCEPT
        !.versions = [k \in Keys |-> IF k \in owned THEN c.versions[k] ELSE 0]]

\* bump_version
Bumped(c, k) == [c EXCEPT !.versions[k] = @ + 1]

\* Faulty variant of Drop: the version of a load that failed stays.
DropNever(c, k, owned) == c

\* drop_unused_version
Drop(c, k, owned) ==
    IF k \in Present(c) \cup owned THEN c
    ELSE [c EXCEPT !.versions = [@ EXCEPT ![k] = 0]]

-----------------------------------------------------------------------------
(* What an operation relies on and what it keeps                           *)

Entries == [expires : Nat, version : Nat]
Nodes   == [key : Keys, expires : Nat, version : Nat, seq : Nat]

CacheType(c) ==
    /\ DOMAIN c = {"entry", "older", "heap", "versions"}
    /\ c.entry \in [Keys -> Entries]
    /\ c.older \subseteq Keys \X Keys
    /\ c.heap \subseteq Nodes
    /\ IsFiniteSet(c.heap)
    /\ c.versions \in [Keys -> Nat]

\* Every entry has the node that will expire it.
HasNodes(c) ==
    \A k \in Present(c) : Alike(c.heap, k, c.entry[k].expires, c.entry[k].version) # {}

\* No entry is past its time.
Timely(c, now) == \A k \in Present(c) : c.entry[k].expires > now

\* Versions are kept for entries and for running loads only.
NoSpareVersion(c, owned) ==
    \A k \in Keys : c.versions[k] > 0 => k \in Present(c) \cup owned

=============================================================================
