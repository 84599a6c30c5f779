----------------------------- MODULE JwtProvider -----------------------------
(***************************************************************************)
(* bluetape-jwt: a repository of keys that is rotated and revoked while    *)
(* threads issue and verify tokens with one provider, and the provider's   *)
(* cache of verified tokens.                                               *)
(*                                                                         *)
(* A mutation of the repository publishes an immutable snapshot under a    *)
(* lock, with the next epoch.  A verification takes one snapshot and one   *)
(* reading of the clock and decides on these; it looks into the cache,     *)
(* reads the epoch of the repository once more and stores what it          *)
(* verified, and the repository and the cache may change between any two   *)
(* of these steps.                                                         *)
(*                                                                         *)
(* Issuance goes through the policy decorator.  Instants count fractions   *)
(* of a second, because the payload of a token holds whole seconds.  The   *)
(* clocks are the caller's: a reading may be any instant.                  *)
(***************************************************************************)
EXTENDS Integers, FiniteSets

CONSTANTS
    Keys,         \* key material
    Kids,         \* key identifiers
    KidOf,        \* kid of each key
    AlgorithmOf,  \* algorithm of each key
    CanSign,      \* whether a key has signing material
    NoKey,        \* no material
    None,         \* None
    Algorithm,    \* algorithm of the provider
    ClockSkew,    \* ValidationProfile.clock_skew
    MaxTokenAge,  \* ValidationProfile.max_token_age or None
    DefaultTtl,   \* IssuanceProfile.default_ttl or None
    MaxTtl,       \* IssuanceProfile.max_ttl or None
    AddIssuedAt,  \* IssuanceProfile.add_issued_at
    Second,       \* instants in a second
    Instants,     \* bound: what a clock may show
    Requests,     \* bound: the claims callers ask for
    Foreign,      \* bound: tokens that somebody else made
    MaxTokens,    \* bound: tokens issued
    Verifiers     \* threads that verify tokens

\* IssuanceProfile: the default lifetime is one the profile allows.
IssuanceProfile == DefaultTtl # None /\ MaxTtl # None => DefaultTtl <= MaxTtl

ASSUME KeyAssumption ==
    /\ KidOf \in [Keys -> Kids]
    /\ CanSign \in [Keys -> BOOLEAN]
    /\ NoKey \notin Keys
    /\ Second \in Nat \ {0}
    /\ ClockSkew \in Nat
    /\ Instants \subseteq Nat
    /\ None \notin Nat
    /\ {MaxTokenAge, DefaultTtl, MaxTtl} \subseteq (Nat \ {0}) \cup {None}
    /\ IssuanceProfile

VARIABLES
    repo,    \* _snapshot and _algorithm of the repository
    cache,   \* the cache of verified tokens
    issued,  \* tokens the provider issued
    job,     \* the verification each thread runs, or ran last
    banned   \* auxiliary: the identifiers that were ever revoked

vars == <<repo, cache, issued, job, banned>>

-----------------------------------------------------------------------------
(* The repository                                                          *)

Absent  == [status |-> "absent", key |-> NoKey]
Revoked == [status |-> "revoked", key |-> NoKey]

\* An active key verifies what it signed after it is retired.
Retired(entry) ==
    IF entry.status = "active" THEN [entry EXCEPT !.status = "retired"] ELSE entry

Usable(entry) == entry.status \in {"active", "retired"}

\* KeySnapshot
Snapshot == [entries |-> repo.entries, epoch |-> repo.epoch]

\* __init__: an active key, or none, and keys that only verify.  They have one
\* algorithm and different identifiers.
Acceptable(active, others) ==
    /\ Cardinality(active) <= 1
    /\ \A k \in active : CanSign[k] /\ k \notin others
    /\ \A j, k \in active \cup others :
          AlgorithmOf[j] = AlgorithmOf[k] /\ (j # k => KidOf[j] # KidOf[k])

InitialEntry(active, others, kid) ==
    IF \E k \in active \cup others : KidOf[k] = kid
    THEN LET key == CHOOSE k \in active \cup others : KidOf[k] = kid
         IN  [status |-> IF key \in active THEN "active" ELSE "retired", key |-> key]
    ELSE Absent

InitialRepository(active, others) ==
    [entries |-> [kid \in Kids |-> InitialEntry(active, others, kid)],
     epoch |-> 0,
     algorithm |-> IF active \cup others = {} THEN None
                   ELSE AlgorithmOf[CHOOSE k \in active \cup others : TRUE]]

Published(entries) ==
    [repo EXCEPT !.entries = entries, !.epoch = @ + 1]

\* Faulty variant of MutateKey: a revoked identifier is taken for a free one.
MutateKeyRevoked(k, active) ==
    LET kid == KidOf[k]
    IN  /\ active => CanSign[k]
        /\ ~Usable(repo.entries[kid])
        /\ repo.algorithm \in {None, AlgorithmOf[k]}
        /\ repo' = [Published(
                      [i \in Kids |->
                         IF i = kid
                         THEN [status |-> IF active THEN "active" ELSE "retired",
                               key |-> k]
                         ELSE IF active THEN Retired(repo.entries[i])
                              ELSE repo.entries[i]])
                    EXCEPT !.algorithm = AlgorithmOf[k]]

\* _mutate_key: a new key under an identifier that was never used; it
\* becomes the active one or verifies only.
MutateKey(k, active) ==
    LET kid == KidOf[k]
    IN  /\ active => CanSign[k]
        /\ repo.entries[kid] = Absent
        /\ repo.algorithm \in {None, AlgorithmOf[k]}
        /\ repo' = [Published(
                      [i \in Kids |->
                         IF i = kid
                         THEN [status |-> IF active THEN "active" ELSE "retired",
                               key |-> k]
                         ELSE IF active THEN Retired(repo.entries[i])
                              ELSE repo.entries[i]])
                    EXCEPT !.algorithm = AlgorithmOf[k]]

\* Faulty variant of MutateIdentifier: the epoch stays.
MutateIdentifierQuiet(kid, entry) ==
    repo' = [repo EXCEPT !.entries[kid] = entry]

\* _mutate_identifier: the entry of a known key is replaced.
MutateIdentifier(kid, entry) ==
    repo' = Published([repo.entries EXCEPT ![kid] = entry])

AddVerificationKey(k) ==
    MutateKey(k, FALSE) /\ UNCHANGED <<cache, issued, job, banned>>

Rotate(k) ==
    MutateKey(k, TRUE) /\ UNCHANGED <<cache, issued, job, banned>>

Retire(kid) ==
    /\ repo.entries[kid].status = "active"
    /\ MutateIdentifier(kid, Retired(repo.entries[kid]))
    /\ UNCHANGED <<cache, issued, job, banned>>

Revoke(kid) ==
    /\ Usable(repo.entries[kid])
    /\ MutateIdentifier(kid, Revoked)
    /\ banned' = banned \cup {kid}
    /\ UNCHANGED <<cache, issued, job>>

-----------------------------------------------------------------------------
(* Claims                                                                  *)

\* _apply_issuance_profile: the instant a token counts from ...
EffectiveTime(c, now) == IF c.iat = None THEN now ELSE c.iat

\* ... the claims with the defaults of the profile ...
WithDefaults(c, now) ==
    [c EXCEPT
       !.iat = IF @ = None /\ AddIssuedAt THEN now ELSE @,
       !.exp = IF @ = None /\ DefaultTtl # None
               THEN EffectiveTime(c, now) + DefaultTtl ELSE @]

\* ... and whether the profile allows them.
Allowed(c, effective) ==
    c.exp # None =>
        /\ c.exp > effective
        /\ c.nbf # None => c.exp > c.nbf
        /\ MaxTtl # None => c.exp - effective <= MaxTtl

\* _datetime_to_numeric_date: whole seconds, rounded down.
NumericDate(t) == IF t = None THEN None ELSE t - (t % Second)

\* _claims_to_payload
Payload(c) ==
    [c EXCEPT !.exp = NumericDate(@), !.nbf = NumericDate(@), !.iat = NumericDate(@)]

\* _validate_temporal_claims
InTime(c, now) ==
    /\ c.exp # None => now - c.exp < ClockSkew
    /\ c.nbf # None => c.nbf - now <= ClockSkew
    /\ c.iat # None => c.iat - now <= ClockSkew
    /\ c.exp # None /\ c.nbf # None => c.exp > c.nbf
    /\ MaxTokenAge # None =>
          c.iat # None /\ now - c.iat <= MaxTokenAge + ClockSkew

\* ValidationProfile: a limit of the age makes iat a required claim.
Required(c) == c.fits /\ (MaxTokenAge # None => c.iat # None)

\* _validate_claims: the issuer, the audience and the claims the profile
\* requires, then the instants.
Valid(c, now) == Required(c) /\ InTime(c, now)

-----------------------------------------------------------------------------
(* The provider                                                            *)

\* issue of the provider: the active key signs.
Sign(claims) ==
    \E kid \in Kids :
        /\ repo.entries[kid].status = "active"
        /\ AlgorithmOf[repo.entries[kid].key] = Algorithm
        /\ issued' = issued \cup
             {[form |-> "sound", kid |-> kid, key |-> repo.entries[kid].key,
               claims |-> Payload(claims)]}

\* issue of the decorator, with one reading of the clock.
Issue(c, now) ==
    /\ Cardinality(issued) < MaxTokens
    /\ Allowed(WithDefaults(c, now), EffectiveTime(c, now))
    /\ Sign(WithDefaults(c, now))
    /\ UNCHANGED <<repo, cache, job, banned>>

\* _read_header: alg, typ and the protected headers are those of the policy.
ReadHeader(t) == t.form \in {"sound", "garbled"}

\* _claims_from_payload: the signed payload has the names and types of claims.
ClaimsFromPayload(t) == t.form = "sound"

\* What verify decides without a cache: the header names a key that is usable
\* and of the provider's algorithm, the signature is that key's, and the
\* claims are valid.
Decides(snap, t, now) ==
    /\ ReadHeader(t)
    /\ Usable(snap.entries[t.kid])
    /\ AlgorithmOf[snap.entries[t.kid].key] = Algorithm
    /\ snap.entries[t.kid].key = t.key
    /\ ClaimsFromPayload(t)
    /\ Valid(t.claims, now)

\* What verify checks of a cached token: everything but the key.
ValidCached(t, now) == Valid(t.claims, now)

\* The entry of the cache for a token in an epoch.
CacheKey(t, epoch) == <<t, epoch>>

\* Faulty variant of ObserveEpoch: the entries stay.
ObserveEpochOnly(c, epoch) == [c EXCEPT !.observed = epoch]

\* _observe_epoch: another epoch than the last one clears the cache.
ObserveEpoch(c, epoch) ==
    IF c.observed = epoch THEN c ELSE [observed |-> epoch, stored |-> {}]

\* get of the cache: is the token of j there, in the epoch of its snapshot?
Cached(c, j) == CacheKey(j.token, j.snap.epoch) \in c.stored

\* barred is auxiliary: what was banned when the snapshot was taken.
Idle == [pc |-> "idle", token |-> None, snap |-> None, now |-> 0,
         live |-> None, accepted |-> FALSE, barred |-> {}]

Init ==
    /\ \E active, others \in SUBSET Keys :
          Acceptable(active, others) /\ repo = InitialRepository(active, others)
    /\ cache = [observed |-> None, stored |-> {}]
    /\ issued = {}
    /\ job = [v \in Verifiers |-> Idle]
    /\ banned = {}

Returns(v, now, accepted) ==
    job' = [job EXCEPT ![v].pc = "done", ![v].now = now, ![v].accepted = accepted]

\* _validate_token_shape: noise is refused before anything is read.
Malformed(v, t) ==
    /\ job[v].pc \in {"idle", "done"}
    /\ t.form = "noise"
    /\ UNCHANGED vars

\* _snapshot
VerifyBegins(v, t) ==
    /\ job[v].pc \in {"idle", "done"}
    /\ t.form # "noise"
    /\ job' = [job EXCEPT ![v] =
                 [Idle EXCEPT !.pc = "lookup", !.token = t, !.snap = Snapshot,
                              !.barred = banned]]
    /\ UNCHANGED <<repo, cache, issued, banned>>

\* _capture_reference_time: the clock raises, and so does verify.
ClockFails(v) ==
    /\ job[v].pc = "lookup"
    /\ job' = [job EXCEPT ![v] = Idle]
    /\ UNCHANGED <<repo, cache, issued, banned>>

\* A cached token is only checked against the policy and the clock.
CacheHit(v, now) ==
    LET c == ObserveEpoch(cache, job[v].snap.epoch)
    IN  /\ job[v].pc = "lookup"
        /\ Cached(c, job[v])
        /\ cache' = c
        /\ Returns(v, now, ValidCached(job[v].token, now))
        /\ UNCHANGED <<repo, issued, banned>>

\* The token is verified in the snapshot, and refused ...
CacheMissRefused(v, now) ==
    LET c == ObserveEpoch(cache, job[v].snap.epoch)
    IN  /\ job[v].pc = "lookup"
        /\ ~Cached(c, job[v])
        /\ ~Decides(job[v].snap, job[v].token, now)
        /\ cache' = c
        /\ Returns(v, now, FALSE)
        /\ UNCHANGED <<repo, issued, banned>>

\* ... or it is to be stored.
CacheMissVerified(v, now) ==
    LET c == ObserveEpoch(cache, job[v].snap.epoch)
    IN  /\ job[v].pc = "lookup"
        /\ ~Cached(c, job[v])
        /\ Decides(job[v].snap, job[v].token, now)
        /\ cache' = c
        /\ job' = [job EXCEPT ![v].pc = "verified", ![v].now = now]
        /\ UNCHANGED <<repo, issued, banned>>

\* _live_epoch
LiveEpoch(v) ==
    /\ job[v].pc = "verified"
    /\ job' = [job EXCEPT ![v].pc = "store", ![v].live = repo.epoch]
    /\ UNCHANGED <<repo, cache, issued, banned>>

\* The repository raises: nothing is stored.
LiveEpochFails(v) ==
    /\ job[v].pc = "verified"
    /\ Returns(v, job[v].now, TRUE)
    /\ UNCHANGED <<repo, cache, issued, banned>>

\* What set of the cache stores for a verification j.
Stored(j) ==
    IF /\ j.live = j.snap.epoch
       /\ j.token.claims.exp # None => j.token.claims.exp > j.now
    THEN {CacheKey(j.token, j.snap.epoch)} ELSE {}

\* set of the cache; verify returns.
Store(v) ==
    /\ job[v].pc = "store"
    /\ LET c == ObserveEpoch(cache, job[v].live)
       IN  cache' = [c EXCEPT !.stored = @ \cup Stored(job[v])]
    /\ Returns(v, job[v].now, TRUE)
    /\ UNCHANGED <<repo, issued, banned>>

\* TTLCache drops an entry: its time is over or it gives way to another.
Evict(e) ==
    /\ e \in cache.stored
    /\ cache' = [cache EXCEPT !.stored = @ \ {e}]
    /\ UNCHANGED <<repo, issued, job, banned>>

Next ==
    \/ \E k \in Keys : AddVerificationKey(k) \/ Rotate(k)
    \/ \E kid \in Kids : Retire(kid) \/ Revoke(kid)
    \/ \E c \in Requests, now \in Instants : Issue(c, now)
    \/ \E v \in Verifiers, t \in issued \cup Foreign :
          Malformed(v, t) \/ VerifyBegins(v, t)
    \/ \E v \in Verifiers, now \in Instants :
          CacheHit(v, now) \/ CacheMissRefused(v, now) \/ CacheMissVerified(v, now)
    \/ \E v \in Verifiers :
          ClockFails(v) \/ LiveEpoch(v) \/ LiveEpochFails(v) \/ Store(v)
    \/ \E e \in cache.stored : Evict(e)

Spec == Init /\ [][Next]_vars

-----------------------------------------------------------------------------
(* Properties                                                              *)

\* The cache is only an optimisation: whatever rotations and revocations
\* come between its steps, a verification decides as it would without a
\* cache, on the keys of its snapshot and its own reading of the clock.
CacheTransparent ==
    \A v \in Verifiers :
        job[v].pc = "done" =>
            (job[v].accepted <=> Decides(job[v].snap, job[v].token, job[v].now))

\* The entries of the cache are of the epoch it observed last: a verification
\* that lasts over a mutation leaves nothing of an old epoch among the
\* entries of a new one.
EpochsApart == \A e \in cache.stored : e[2] = cache.observed

\* A revocation is for good: a verification that took its snapshot after an
\* identifier was revoked refuses every token of that identifier.  Neither a
\* cached result nor a later key under the old identifier revives them.
RevokedRefused ==
    \A v \in Verifiers :
        job[v].pc = "done" /\ job[v].accepted =>
            job[v].token.kid \notin job[v].barred

=============================================================================
