------------------------------ MODULE JwtProofs ------------------------------
(* Proofs about JwtProvider: the cache of verified tokens never changes    *)
(* what a verification decides, and a revocation is final.  The invariant  *)
(* says that an epoch names one set of keys, in the repository and in      *)
(* every snapshot that a verification still holds, and that a cached token *)
(* was accepted with the keys of its epoch.                                *)
EXTENDS JwtProvider, TLAPS

Tokens  == issued \cup Foreign \cup {None}
Entry   == [status : {"absent", "active", "retired", "revoked"}, key : Keys \cup {NoKey}]
Entries == [Kids -> Entry]
Algorithms == {AlgorithmOf[k] : k \in Keys} \cup {None}

SnapType  == [entries : Entries, epoch : Nat]
RepoType  == [entries : Entries, epoch : Nat, algorithm : Algorithms]
CacheType == [observed : Nat \cup {None}, stored : SUBSET (Tokens \X Nat)]
JobType   == [pc : {"idle", "lookup", "verified", "store", "done"}, token : Tokens,
              snap : SnapType \cup {None}, now : Nat, live : Nat \cup {None},
              accepted : BOOLEAN, barred : SUBSET Kids]

\* The snapshots in use: the repository's and those of running verifications.
Held == {Snapshot} \cup {job[v].snap : v \in {w \in Verifiers : job[w].pc # "idle"}}

\* What a verification decides of the key and the form of a token.
Accepts(s, t) ==
    /\ ReadHeader(t)
    /\ Usable(s.entries[t.kid])
    /\ AlgorithmOf[s.entries[t.kid].key] = Algorithm
    /\ s.entries[t.kid].key = t.key
    /\ ClaimsFromPayload(t)

RepoOK ==
    /\ repo \in RepoType
    /\ banned \subseteq Kids
    /\ \A kid \in banned : repo.entries[kid].status = "revoked"
    /\ \A s \in Held : s.epoch <= repo.epoch
    /\ \A s, u \in Held : s.epoch = u.epoch => s.entries = u.entries

JobOK(j) ==
    /\ j \in JobType
    /\ j.pc # "idle" =>
          /\ j.snap \in SnapType
          /\ \A kid \in j.barred : j.snap.entries[kid].status = "revoked"
    /\ j.pc \in {"verified", "store"} => Decides(j.snap, j.token, j.now)
    /\ j.pc = "store" => j.live \in Nat
    /\ j.pc = "done" => (j.accepted <=> Decides(j.snap, j.token, j.now))

CacheOK(c) ==
    /\ c \in CacheType
    /\ \A e \in c.stored :
          /\ e[2] = c.observed
          /\ e[2] <= repo.epoch
          /\ \A s \in Held : s.epoch = e[2] => Accepts(s, e[1])

JInv ==
    /\ RepoOK
    /\ DOMAIN job = Verifiers /\ job = [v \in Verifiers |-> job[v]]
    /\ \A v \in Verifiers : JobOK(job[v])
    /\ CacheOK(cache)

-----------------------------------------------------------------------------

\* What a verification without a cache accepts.
LEMMA DecidesAccepts ==
    ASSUME NEW s, NEW t, NEW now
    PROVE  Decides(s, t, now) <=> Accepts(s, t) /\ Valid(t.claims, now)
  BY DEF Decides, Accepts

\* A snapshot is typed, and shows the keys of the repository.
LEMMA SnapshotType ==
    ASSUME repo \in RepoType
    PROVE  /\ Snapshot \in SnapType
           /\ Snapshot.entries = repo.entries /\ Snapshot.epoch = repo.epoch
  BY DEF RepoType, SnapType, Snapshot

\* The snapshots that somebody holds are snapshots.
LEMMA HeldType == ASSUME JInv PROVE Held \subseteq SnapType
  <1>1. Snapshot \in SnapType BY SnapshotType DEF JInv, RepoOK
  <1> QED BY <1>1 DEF JInv, JobOK, Held

-----------------------------------------------------------------------------
(* The repository changes                                                  *)

\* A mutation publishes its keys under an epoch that no snapshot has.
LEMMA MutationStep ==
    ASSUME JInv, repo' \in RepoType, repo'.epoch = repo.epoch + 1,
           banned' \subseteq Kids,
           \A kid \in banned' : repo'.entries[kid].status = "revoked",
           UNCHANGED <<cache, issued, job>>
    PROVE  JInv'
  <1>1. Held \subseteq SnapType /\ repo.epoch \in Nat
    BY HeldType DEF JInv, RepoOK, RepoType
  <1>2. /\ Snapshot' \in SnapType
        /\ Snapshot'.entries = repo'.entries /\ Snapshot'.epoch = repo'.epoch
    BY DEF RepoType, SnapType, Snapshot, Entries, Entry
  <1>3. Held' \subseteq Held \cup {Snapshot'} BY DEF Held
  <1>4. \A s \in Held : s.epoch \in Nat /\ s.epoch <= repo.epoch
    BY <1>1 DEF JInv, RepoOK, SnapType
  <1>5. RepoOK'
    <2>1. \A s \in Held' : s.epoch <= repo'.epoch BY <1>1, <1>2, <1>3, <1>4
    <2>2. \A s, u \in Held' : s.epoch = u.epoch => s.entries = u.entries
      <3> SUFFICES ASSUME NEW s \in Held', NEW u \in Held', s.epoch = u.epoch
                   PROVE  s.entries = u.entries
        OBVIOUS
      <3>1. CASE s \in Held /\ u \in Held BY <3>1 DEF JInv, RepoOK
      <3>2. CASE s = Snapshot' /\ u = Snapshot' BY <3>2
      <3>3. CASE s \in Held /\ u = Snapshot' BY <1>1, <1>2, <1>4, <3>3
      <3>4. CASE s = Snapshot' /\ u \in Held BY <1>1, <1>2, <1>4, <3>4
      <3> QED BY <1>3, <3>1, <3>2, <3>3, <3>4
    <2>3. repo' \in RepoType' BY DEF RepoType, Entries, Entry
    <2> QED BY <2>1, <2>2, <2>3 DEF RepoOK
  <1>6. \A v \in Verifiers : JobOK(job[v])'
    BY DEF JInv, JobOK, JobType, Tokens, SnapType, Entries, Entry
  <1>7. CacheOK(cache)'
    <2>1. cache' \in CacheType' BY DEF JInv, CacheOK, CacheType, Tokens
    <2>2. ASSUME NEW e \in cache'.stored
          PROVE  /\ e[2] = cache'.observed
                 /\ e[2] <= repo'.epoch
                 /\ \A s \in Held' : s.epoch = e[2] => Accepts(s, e[1])
      <3>1. e \in cache.stored /\ cache \in CacheType BY <2>2 DEF JInv, CacheOK
      <3>2. e[2] \in Nat BY <3>1 DEF CacheType
      <3>3. /\ e[2] = cache.observed /\ e[2] <= repo.epoch
            /\ \A s \in Held : s.epoch = e[2] => Accepts(s, e[1])
        BY <3>1 DEF JInv, CacheOK
      <3>4. e[2] <= repo'.epoch /\ Snapshot'.epoch # e[2] BY <1>1, <1>2, <3>2, <3>3
      <3> QED BY <1>3, <3>3, <3>4
    <2>3. ASSUME NEW s, NEW t PROVE Accepts(s, t)' <=> Accepts(s, t) OBVIOUS
    <2> QED BY <2>1, <2>2 DEF CacheOK, Accepts
  <1> QED BY <1>5, <1>6, <1>7 DEF JInv

\* The entries of a repository stay typed, and a revoked one stays revoked.
LEMMA RetiredType ==
    ASSUME NEW e \in Entry
    PROVE  /\ Retired(e) \in Entry
           /\ e.status = "revoked" => Retired(e).status = "revoked"
  BY DEF Entry, Retired

\* What a mutation publishes is a snapshot.
LEMMA PublishedType ==
    ASSUME NEW r \in RepoType, NEW f \in Entries
    PROVE  LET q == [r EXCEPT !.entries = f, !.epoch = r.epoch + 1]
           IN  q \in RepoType /\ q.epoch = r.epoch + 1 /\ q.entries = f
  <1> DEFINE n == r.epoch + 1
  <1>1. r.epoch \in Nat BY DEF RepoType
  <1>2. n \in Nat BY <1>1
  <1> HIDE DEF n
  <1>3. LET q == [r EXCEPT !.entries = f, !.epoch = n]
        IN  q \in RepoType /\ q.epoch = n /\ q.entries = f
    BY <1>2 DEF RepoType
  <1> QED BY <1>3 DEF n

\* add_verification_key and rotate keep the invariant.
LEMMA MutateKeyStep ==
    ASSUME JInv, NEW k \in Keys, NEW active \in BOOLEAN, MutateKey(k, active),
           UNCHANGED <<cache, issued, job, banned>>
    PROVE  JInv'
  <1> DEFINE kid == KidOf[k]
             new == [status |-> IF active THEN "active" ELSE "retired", key |-> k]
             old(i) == IF active THEN Retired(repo.entries[i]) ELSE repo.entries[i]
             entries == [i \in Kids |-> IF i = kid THEN new ELSE old(i)]
  <1>1. repo \in RepoType /\ repo.entries \in Entries /\ repo.epoch \in Nat
    BY DEF JInv, RepoOK, RepoType
  <1>2. kid \in Kids /\ new \in Entry BY KeyAssumption DEF Entry
  <1>3. \A i \in Kids : /\ old(i) \in Entry
                        /\ repo.entries[i].status = "revoked" => old(i).status = "revoked"
    BY <1>1, RetiredType DEF Entries
  <1>4. entries \in Entries BY <1>2, <1>3 DEF Entries
  <1> DEFINE next == [repo EXCEPT !.entries = entries, !.epoch = repo.epoch + 1]
  <1>5. repo' = [next EXCEPT !.algorithm = AlgorithmOf[k]]
    BY DEF MutateKey, Published
  <1>6. repo.entries[kid].status # "revoked" BY DEF MutateKey, Absent
  <1>7. \A i \in Kids : repo.entries[i].status = "revoked" => entries[i].status = "revoked"
    BY <1>3, <1>6
  <1> HIDE DEF entries
  <1>8. repo' \in RepoType /\ repo'.epoch = repo.epoch + 1 /\ repo'.entries = entries
    <2>1. AlgorithmOf[k] \in Algorithms BY DEF Algorithms
    <2>2. next \in RepoType /\ next.epoch = repo.epoch + 1 /\ next.entries = entries
      BY <1>1, <1>4, PublishedType
    <2> HIDE DEF next
    <2>3. repo' \in RepoType /\ repo'.epoch = next.epoch /\ repo'.entries = next.entries
      BY <1>5, <2>1, <2>2 DEF RepoType
    <2> QED BY <2>2, <2>3
  <1>9. banned \subseteq Kids /\ \A i \in banned : repo.entries[i].status = "revoked"
    BY DEF JInv, RepoOK
  <1> QED BY <1>7, <1>8, <1>9, MutationStep

\* retire and revoke keep the invariant.
LEMMA MutateIdentifierStep ==
    ASSUME JInv, NEW kid \in Kids, NEW e \in Entry, MutateIdentifier(kid, e),
           banned' \subseteq banned \cup {kid},
           repo.entries[kid].status = "revoked" \/ kid \in banned' => e.status = "revoked",
           UNCHANGED <<cache, issued, job>>
    PROVE  JInv'
  <1> DEFINE entries == [repo.entries EXCEPT ![kid] = e]
  <1>1. repo \in RepoType /\ repo.entries \in Entries /\ repo.epoch \in Nat
    BY DEF JInv, RepoOK, RepoType
  <1>2. entries \in Entries BY <1>1 DEF Entries
  <1>3. \A i \in Kids : entries[i] = IF i = kid THEN e ELSE repo.entries[i]
    BY <1>1 DEF Entries
  <1>4. repo' = [repo EXCEPT !.entries = entries, !.epoch = repo.epoch + 1]
    BY DEF MutateIdentifier, Published
  <1> HIDE DEF entries
  <1>5. repo' \in RepoType /\ repo'.epoch = repo.epoch + 1 /\ repo'.entries = entries
    <2> DEFINE next == [repo EXCEPT !.entries = entries, !.epoch = repo.epoch + 1]
    <2>1. next \in RepoType /\ next.epoch = repo.epoch + 1 /\ next.entries = entries
      BY <1>1, <1>2, PublishedType
    <2>2. repo' = next BY <1>4
    <2> HIDE DEF next
    <2> QED BY <2>1, <2>2
  <1>6. banned \subseteq Kids /\ \A i \in banned : repo.entries[i].status = "revoked"
    BY DEF JInv, RepoOK
  <1>7. \A i \in banned' : i \in Kids /\ entries[i].status = "revoked"
    BY <1>3, <1>6
  <1> QED BY <1>5, <1>7, MutationStep

-----------------------------------------------------------------------------
(* A verification makes a step                                             *)

\* The verification v goes on to q; the cache may change as well.
LEMMA JobStep ==
    ASSUME JInv, NEW v \in Verifiers, NEW q, JobOK(q), q.pc # "idle" => q.snap \in Held,
           job' = [job EXCEPT ![v] = q], CacheOK(cache'),
           UNCHANGED <<repo, issued, banned>>
    PROVE  JInv'
  <1>1. \A w \in Verifiers : job'[w] = IF w = v THEN q ELSE job[w] BY DEF JInv
  <1>2. Snapshot' = Snapshot BY DEF Snapshot
  <1>3. Held' \subseteq Held BY <1>1, <1>2 DEF Held
  <1>4. RepoOK' BY <1>3 DEF JInv, RepoOK, RepoType
  <1>5. \A w \in Verifiers : JobOK(job'[w]) BY <1>1 DEF JInv
  <1>6. \A w \in Verifiers : JobOK(job[w])' BY <1>5 DEF JobOK, JobType, Tokens
  <1>7. CacheOK(cache)' BY <1>3 DEF CacheOK, CacheType, Tokens
  <1>8. job' = [w \in Verifiers |-> job'[w]] /\ DOMAIN job' = Verifiers BY DEF JInv
  <1> QED BY <1>4, <1>6, <1>7, <1>8 DEF JInv

\* observe_epoch leaves only entries of the epoch it is given.
LEMMA ObserveOK ==
    ASSUME JInv, NEW epoch \in Nat PROVE CacheOK(ObserveEpoch(cache, epoch))
  <1>1. CASE cache.observed = epoch BY <1>1 DEF ObserveEpoch, JInv
  <1>2. CASE cache.observed # epoch
    <2>1. ObserveEpoch(cache, epoch) = [observed |-> epoch, stored |-> {}]
      BY <1>2 DEF ObserveEpoch
    <2> QED BY <2>1 DEF CacheOK, CacheType
  <1> QED BY <1>1, <1>2

\* A verification returns.
LEMMA ReturnStep ==
    ASSUME JInv, NEW v \in Verifiers, NEW now \in Nat, NEW accepted \in BOOLEAN,
           job[v].pc # "idle", Returns(v, now, accepted),
           accepted <=> Decides(job[v].snap, job[v].token, now),
           CacheOK(cache'), UNCHANGED <<repo, issued, banned>>
    PROVE  JInv'
  <1> DEFINE j == job[v]
             q == [j EXCEPT !.pc = "done", !.now = now, !.accepted = accepted]
  <1>1. JobOK(j) /\ j.snap \in Held BY DEF JInv, Held
  <1>2. j \in JobType BY <1>1 DEF JobOK
  <1>3. job' = [job EXCEPT ![v] = q] BY DEF Returns, JInv
  <1> HIDE DEF j
  <1>4. q \in JobType /\ q.pc = "done" /\ q.token = j.token /\ q.snap = j.snap /\ q.barred = j.barred
    BY <1>2 DEF JobType
  <1>5. q.now = now /\ (q.accepted <=> accepted) BY <1>2 DEF JobType
  <1> HIDE DEF q
  <1>6. JobOK(q) BY <1>1, <1>4, <1>5 DEF JobOK, j
  <1>7. q.snap \in Held BY <1>1, <1>4
  <1> QED BY <1>3, <1>6, <1>7, JobStep

\* A verification reads the clock and the cache.
LEMMA LookupStep ==
    ASSUME JInv, NEW v \in Verifiers, NEW now \in Instants,
           CacheHit(v, now) \/ CacheMissRefused(v, now) \/ CacheMissVerified(v, now)
    PROVE  JInv'
  <1> DEFINE j == job[v]
             c == ObserveEpoch(cache, j.snap.epoch)
  <1>1. j.pc = "lookup" /\ cache' = c /\ UNCHANGED <<repo, issued, banned>>
    BY DEF CacheHit, CacheMissRefused, CacheMissVerified
  <1>2. JobOK(j) /\ j.snap \in Held BY <1>1 DEF JInv, Held
  <1>3. j \in JobType /\ j.snap \in SnapType BY <1>1, <1>2 DEF JobOK
  <1>4. j.snap.epoch \in Nat BY <1>3 DEF SnapType
  <1>5. CacheOK(c) BY <1>4, ObserveOK
  <1>6. now \in Nat BY KeyAssumption
  <1>7. CASE CacheHit(v, now)
    <2>1. <<j.token, j.snap.epoch>> \in c.stored BY <1>7 DEF CacheHit, Cached, CacheKey
    <2>2. Accepts(j.snap, j.token) BY <1>2, <1>5, <2>1 DEF CacheOK
    <2>3. Returns(v, now, ValidCached(j.token, now)) BY <1>7 DEF CacheHit
    <2>4. ValidCached(j.token, now) <=> Decides(j.snap, j.token, now)
      BY <2>2, DecidesAccepts DEF ValidCached
    <2>5. ValidCached(j.token, now) \in BOOLEAN BY DEF ValidCached, Valid
    <2> HIDE DEF c
    <2> QED BY <1>1, <1>5, <1>6, <2>3, <2>4, <2>5, ReturnStep
  <1>8. CASE CacheMissRefused(v, now)
    <2>1. Returns(v, now, FALSE) /\ ~Decides(j.snap, j.token, now)
      BY <1>8 DEF CacheMissRefused
    <2> HIDE DEF c
    <2> QED BY <1>1, <1>5, <1>6, <2>1, ReturnStep
  <1>9. CASE CacheMissVerified(v, now)
    <2> DEFINE q == [j EXCEPT !.pc = "verified", !.now = now]
    <2>1. Decides(j.snap, j.token, now) BY <1>9 DEF CacheMissVerified
    <2>2. job' = [job EXCEPT ![v] = q] BY <1>9 DEF CacheMissVerified, JInv
    <2> HIDE DEF j
    <2>3. q \in JobType BY <1>3, <1>6 DEF JobType
    <2>4. /\ q.pc = "verified" /\ q.token = j.token /\ q.snap = j.snap
          /\ q.barred = j.barred /\ q.now = now
      BY <1>3 DEF JobType
    <2> HIDE DEF q
    <2>5. JobOK(q) BY <1>1, <1>2, <2>1, <2>3, <2>4 DEF JobOK
    <2>6. q.snap \in Held BY <1>2, <2>4
    <2> HIDE DEF c
    <2> QED BY <1>1, <1>5, <2>2, <2>5, <2>6, JobStep
  <1> QED BY <1>7, <1>8, <1>9

\* A verification starts, is given up, reads the live epoch or stores a token.
LEMMA OtherJobStep ==
    ASSUME JInv, NEW v \in Verifiers,
           \/ \E t \in issued \cup Foreign : VerifyBegins(v, t)
           \/ ClockFails(v) \/ LiveEpoch(v) \/ LiveEpochFails(v) \/ Store(v)
    PROVE  JInv'
  <1> DEFINE j == job[v]
  <1>1. JobOK(j) /\ (j.pc # "idle" => j.snap \in Held) BY DEF JInv, Held
  <1>2. j \in JobType /\ CacheOK(cache) /\ RepoOK BY <1>1 DEF JobOK, JInv
  <1>3. j.now \in Nat BY <1>2 DEF JobType
  <1>4. repo \in RepoType /\ repo.epoch \in Nat BY <1>2 DEF RepoOK, RepoType
  <1>5. Idle \in JobType /\ Idle.pc = "idle"
    BY DEF Idle, JobType, Tokens
  <1>6. ASSUME NEW t \in issued \cup Foreign, VerifyBegins(v, t) PROVE JInv'
    <2> DEFINE q == [Idle EXCEPT !.pc = "lookup", !.token = t, !.snap = Snapshot,
                                 !.barred = banned]
    <2>1. /\ Snapshot \in SnapType /\ Snapshot \in Held
          /\ Snapshot.entries = repo.entries
      BY <1>4, SnapshotType DEF Held
    <2>2. t \in Tokens /\ banned \in SUBSET Kids BY <1>2 DEF Tokens, RepoOK
    <2>3. q \in JobType BY <1>5, <2>1, <2>2 DEF JobType
    <2>4. q.pc = "lookup" /\ q.snap = Snapshot /\ q.barred = banned
      BY <1>5 DEF JobType
    <2>5. job' = [job EXCEPT ![v] = q] /\ UNCHANGED <<repo, cache, issued, banned>>
      BY <1>6 DEF VerifyBegins
    <2> HIDE DEF q
    <2>6. JobOK(q) BY <1>2, <2>1, <2>3, <2>4 DEF JobOK, RepoOK
    <2>7. CacheOK(cache') BY <1>2, <2>5
    <2> QED BY <2>1, <2>4, <2>5, <2>6, <2>7, JobStep
  <1>7. CASE ClockFails(v)
    <2>1. JobOK(Idle) BY <1>5 DEF JobOK
    <2>2. job' = [job EXCEPT ![v] = Idle] /\ UNCHANGED <<repo, cache, issued, banned>>
      BY <1>7 DEF ClockFails
    <2> QED BY <1>2, <1>5, <2>1, <2>2, JobStep
  <1>8. CASE LiveEpoch(v)
    <2> DEFINE n == repo.epoch
               q == [j EXCEPT !.pc = "store", !.live = n]
    <2>1. j.pc = "verified" /\ UNCHANGED <<repo, cache, issued, banned>>
      BY <1>8 DEF LiveEpoch
    <2>2. job' = [job EXCEPT ![v] = q] BY <1>8 DEF LiveEpoch, JInv
    <2>n. n \in Nat BY <1>4
    <2> HIDE DEF j, n
    <2>3. q \in JobType BY <1>2, <2>n DEF JobType
    <2>4. /\ q.pc = "store" /\ q.token = j.token /\ q.snap = j.snap
          /\ q.barred = j.barred /\ q.now = j.now /\ q.live = n
      BY <1>2 DEF JobType
    <2> HIDE DEF q
    <2>5. JobOK(q) BY <1>1, <2>1, <2>n, <2>3, <2>4 DEF JobOK
    <2>6. q.snap \in Held BY <1>1, <2>1, <2>4
    <2> QED BY <1>2, <2>1, <2>2, <2>5, <2>6, JobStep
  <1>9. CASE LiveEpochFails(v)
    <2>1. /\ j.pc = "verified" /\ Returns(v, j.now, TRUE)
          /\ UNCHANGED <<repo, cache, issued, banned>>
      BY <1>9 DEF LiveEpochFails
    <2>2. Decides(j.snap, j.token, j.now) BY <1>1, <2>1 DEF JobOK
    <2> QED BY <1>2, <1>3, <2>1, <2>2, ReturnStep
  <1>10. CASE Store(v)
    <2> DEFINE c == ObserveEpoch(cache, j.live)
    <2>1. /\ j.pc = "store" /\ Returns(v, j.now, TRUE)
          /\ UNCHANGED <<repo, issued, banned>>
          /\ cache' = [c EXCEPT !.stored = @ \cup Stored(j)]
      BY <1>10 DEF Store
    <2>2. Decides(j.snap, j.token, j.now) BY <1>1, <2>1 DEF JobOK
    <2>3. j.snap \in Held /\ j.snap \in SnapType BY <1>1, <2>1 DEF JobOK
    <2>4. CacheOK(cache')
      <3>0. j.live \in Nat BY <1>1, <2>1 DEF JobOK
      <3>1. CacheOK(c) BY <3>0, ObserveOK
      <3>2. c \in CacheType BY <3>1 DEF CacheOK
      <3>3. c.observed = j.live BY DEF ObserveEpoch
      <3> DEFINE e == <<j.token, j.snap.epoch>>
      <3>4. Stored(j) = {} \/ (j.live = j.snap.epoch /\ Stored(j) = {e})
        BY DEF Stored, CacheKey
      <3>5. CASE Stored(j) = {}
        <4>1. cache' = c BY <2>1, <3>2, <3>5 DEF CacheType
        <4> QED BY <3>1, <4>1
      <3>6. CASE j.live = j.snap.epoch /\ Stored(j) = {e}
        <4> DEFINE d == [c EXCEPT !.stored = @ \cup {e}]
        <4>1. e \in Tokens \X Nat /\ e[1] = j.token /\ e[2] = j.snap.epoch
          BY <1>2, <2>3 DEF JobType, SnapType
        <4>2. d \in CacheType /\ d.observed = c.observed /\ d.stored = c.stored \cup {e}
          BY <3>2, <4>1 DEF CacheType
        <4>3. e[2] <= repo.epoch BY <1>2, <2>3, <4>1 DEF RepoOK
        <4>4. Accepts(j.snap, j.token) BY <2>2, DecidesAccepts
        <4>5. \A s \in Held : s.epoch = e[2] => Accepts(s, e[1])
          BY <1>2, <2>3, <4>1, <4>4 DEF RepoOK, Accepts
        <4>6. cache' = d BY <2>1, <3>6
        <4>7. e[2] = d.observed BY <3>3, <3>6, <4>1, <4>2
        <4> HIDE DEF d, e
        <4>8. CacheOK(d) BY <3>1, <4>2, <4>3, <4>5, <4>7 DEF CacheOK
        <4> QED BY <4>6, <4>8
      <3> QED BY <3>4, <3>5, <3>6
    <2> HIDE DEF c
    <2> QED BY <1>3, <2>1, <2>2, <2>4, ReturnStep
  <1> QED BY <1>6, <1>7, <1>8, <1>9, <1>10

-----------------------------------------------------------------------------
(* The invariant                                                           *)

\* A token is issued, or an entry leaves the cache.
LEMMA RestStep ==
    ASSUME JInv,
           \/ \E c \in Requests, now \in Instants : Issue(c, now)
           \/ \E e \in cache.stored : Evict(e)
           \/ UNCHANGED vars
    PROVE  JInv'
  <1>1. UNCHANGED <<repo, job, banned>> /\ issued \subseteq issued'
    BY DEF Issue, Sign, Evict, vars
  <1>2. Held' = Held /\ Tokens \subseteq Tokens' BY <1>1 DEF Held, Snapshot, Tokens
  <1>3. RepoOK' BY <1>1, <1>2 DEF JInv, RepoOK, RepoType
  <1>4. \A v \in Verifiers : JobOK(job[v])'
    <2> SUFFICES ASSUME NEW v \in Verifiers PROVE JobOK(job[v])' OBVIOUS
    <2>1. JobOK(job[v]) BY DEF JInv
    <2>2. job[v] \in JobType' BY <1>2, <2>1 DEF JobOK, JobType
    <2> QED BY <1>1, <2>1, <2>2 DEF JobOK
  <1>5. cache' \in CacheType /\ cache'.observed = cache.observed /\ cache'.stored \subseteq cache.stored
    <2>1. cache \in CacheType BY DEF JInv, CacheOK
    <2>2. CASE UNCHANGED cache BY <2>1, <2>2
    <2>3. CASE \E e \in cache.stored : Evict(e)
      <3>1. PICK e \in cache.stored : cache' = [cache EXCEPT !.stored = @ \ {e}]
        BY <2>3 DEF Evict
      <3> QED BY <2>1, <3>1 DEF CacheType
    <2> QED BY <2>2, <2>3 DEF Issue, vars
  <1>6. cache' \in CacheType' BY <1>2, <1>5 DEF CacheType
  <1>7. CacheOK(cache)' BY <1>1, <1>2, <1>5, <1>6 DEF JInv, CacheOK
  <1> QED BY <1>1, <1>3, <1>4, <1>7 DEF JInv

\* The invariant holds at the start.
LEMMA JInvInit == Init => JInv
  <1> SUFFICES ASSUME Init PROVE JInv OBVIOUS
  <1>1. PICK active \in SUBSET Keys, others \in SUBSET Keys :
           repo = InitialRepository(active, others)
    BY DEF Init
  <1> DEFINE keys == active \cup others
             alg == IF keys = {} THEN None ELSE AlgorithmOf[CHOOSE k \in keys : TRUE]
             entries == [kid \in Kids |-> InitialEntry(active, others, kid)]
  <1>2. alg \in Algorithms
    <2>1. CASE keys = {} BY <2>1 DEF Algorithms
    <2>2. CASE keys # {}
      <3>1. (CHOOSE k \in keys : TRUE) \in keys BY <2>2
      <3> QED BY <2>2, <3>1 DEF Algorithms
    <2> QED BY <2>1, <2>2
  <1>3. ASSUME NEW kid \in Kids PROVE InitialEntry(active, others, kid) \in Entry
    <2>1. CASE \E k \in keys : KidOf[k] = kid
      <3> DEFINE key == CHOOSE k \in keys : KidOf[k] = kid
      <3>1. key \in Keys BY <2>1
      <3>2. InitialEntry(active, others, kid)
              = [status |-> IF key \in active THEN "active" ELSE "retired", key |-> key]
        BY <2>1 DEF InitialEntry
      <3> HIDE DEF key
      <3> QED BY <3>1, <3>2 DEF Entry
    <2>2. CASE ~\E k \in keys : KidOf[k] = kid
      <3>1. InitialEntry(active, others, kid) = Absent BY <2>2 DEF InitialEntry
      <3> QED BY <3>1 DEF Entry, Absent
    <2> QED BY <2>1, <2>2
  <1>4. entries \in Entries BY <1>3 DEF Entries
  <1>5. repo = [entries |-> entries, epoch |-> 0, algorithm |-> alg]
    BY <1>1 DEF InitialRepository
  <1> HIDE DEF entries, alg
  <1>6. repo \in RepoType BY <1>2, <1>4, <1>5 DEF RepoType
  <1>7. /\ banned = {} /\ job = [v \in Verifiers |-> Idle]
        /\ cache = [observed |-> None, stored |-> {}]
    BY DEF Init
  <1>8. Idle \in JobType /\ Idle.pc = "idle" BY DEF Idle, JobType, Tokens
  <1>9. \A v \in Verifiers : JobOK(job[v]) BY <1>7, <1>8 DEF JobOK
  <1>10. Held = {Snapshot} BY <1>7, <1>8 DEF Held
  <1>11. Snapshot.epoch = repo.epoch /\ repo.epoch \in Nat
    BY <1>6, SnapshotType DEF RepoType
  <1>12. RepoOK BY <1>6, <1>7, <1>10, <1>11 DEF RepoOK
  <1>13. CacheOK(cache) BY <1>7 DEF CacheOK, CacheType
  <1> QED BY <1>7, <1>9, <1>12, <1>13 DEF JInv

\* Every step keeps the invariant.
LEMMA JInvStep == JInv /\ [Next]_vars => JInv'
  <1> SUFFICES ASSUME JInv, [Next]_vars PROVE JInv' OBVIOUS
  <1>1. repo.entries \in Entries BY DEF JInv, RepoOK, RepoType
  <1>2. ASSUME NEW k \in Keys, AddVerificationKey(k) \/ Rotate(k) PROVE JInv'
    BY <1>2, MutateKeyStep DEF AddVerificationKey, Rotate
  <1>3. ASSUME NEW kid \in Kids, Retire(kid) PROVE JInv'
    <2>1. /\ repo.entries[kid].status = "active"
          /\ MutateIdentifier(kid, Retired(repo.entries[kid]))
          /\ UNCHANGED <<cache, issued, job, banned>>
      BY <1>3 DEF Retire
    <2>2. repo.entries[kid] \in Entry BY <1>1 DEF Entries
    <2>3. Retired(repo.entries[kid]) \in Entry BY <2>2, RetiredType
    <2>4. kid \notin banned BY <2>1 DEF JInv, RepoOK
    <2> QED BY <2>1, <2>3, <2>4, MutateIdentifierStep
  <1>4. ASSUME NEW kid \in Kids, Revoke(kid) PROVE JInv'
    <2>1. /\ MutateIdentifier(kid, Revoked) /\ banned' = banned \cup {kid}
          /\ UNCHANGED <<cache, issued, job>>
      BY <1>4 DEF Revoke
    <2>2. Revoked \in Entry /\ Revoked.status = "revoked" BY DEF Revoked, Entry
    <2> QED BY <2>1, <2>2, MutateIdentifierStep
  <1>5. CASE \/ \E c \in Requests, now \in Instants : Issue(c, now)
             \/ \E e \in cache.stored : Evict(e)
             \/ UNCHANGED vars
    BY <1>5, RestStep
  <1>6. ASSUME NEW v \in Verifiers, NEW t, Malformed(v, t) PROVE JInv'
    BY <1>6, RestStep DEF Malformed
  <1> QED BY <1>2, <1>3, <1>4, <1>5, <1>6, LookupStep, OtherJobStep DEF Next

\* The invariant holds in every behaviour.
LEMMA JInvCorrect == Spec => []JInv
  <1> QED BY JInvInit, JInvStep, PTL DEF Spec

\* verify with its cache decides what verify without one would decide, for any
\* keys, tokens, profiles and clocks, and however mutations of the repository
\* fall between the steps of the verifications.
THEOREM CacheTransparentCorrect == Spec => []CacheTransparent
  <1>1. JInv => CacheTransparent BY DEF JInv, JobOK, CacheTransparent
  <1> QED BY <1>1, JInvCorrect, PTL

\* The cache never holds entries of two epochs.
THEOREM EpochsApartCorrect == Spec => []EpochsApart
  <1>1. JInv => EpochsApart BY DEF JInv, CacheOK, EpochsApart
  <1> QED BY <1>1, JInvCorrect, PTL

\* No verification that begins after a revocation accepts a token of the
\* revoked identifier.
THEOREM RevocationFinal == Spec => []RevokedRefused
  <1>1. JInv => RevokedRefused
    <2> SUFFICES ASSUME JInv, NEW v \in Verifiers, job[v].pc = "done", job[v].accepted
                 PROVE  job[v].token.kid \notin job[v].barred
      BY DEF RevokedRefused
    <2>1. JobOK(job[v]) BY DEF JInv
    <2>2. Usable(job[v].snap.entries[job[v].token.kid]) BY <2>1 DEF JobOK, Decides
    <2> QED BY <2>1, <2>2 DEF JobOK, Usable
  <1> QED BY <1>1, JInvCorrect, PTL

=============================================================================
