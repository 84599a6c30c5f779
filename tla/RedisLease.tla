----------------------------- MODULE RedisLease -----------------------------
(***************************************************************************)
(* The synchronous Redis lock of bluetape-leader-redis, for one lock name: *)
(* the three Redis keys of the lock, the Lua scripts that are their only   *)
(* writers, the bounded client calls that carry a script to the server and *)
(* may lose the request or the response, and the lease handle with its     *)
(* user threads and its renewal worker.                                    *)
(*                                                                         *)
(* An attempt is one call of RedisDistributedLock.try_acquire.  It draws   *)
(* its owner token once, so the attempt stands for its token, and it       *)
(* yields at most one handle, so it names its handle as well.              *)
(*                                                                         *)
(* Time is a count of milliseconds kept in relative timers that Tick       *)
(* counts down: the PTTL of the lease, the rest of the minimum lease of a  *)
(* handle, the rest of the waiting budget of an attempt.  Client deadlines *)
(* (socket timeouts, bounded joins) may strike at any time.                *)
(***************************************************************************)
EXTENDS Integers

CONSTANTS
    Attempts,     \* calls of try_acquire, each with its own owner token
    UserThreads,  \* application threads
    UsersOf,      \* the application threads that share a handle
    Worker,       \* the renewal thread of a handle
    Nobody,       \* no owner, no thread
    Foreign,      \* a lease value that no script of this package wrote
    LeaseTime,    \* options.lease_time, in ticks
    MinLease,     \* options.min_lease_time
    WaitTime,     \* options.wait_time
    RenewTimes,   \* durations callers pass to renew()
    Calls,        \* operations of a handle that its callers use
    AutoRenew,    \* options.auto_renew
    MaxFence,     \* the largest Redis integer
    Issued,       \* values the fence key may have: how many tokens were issued
    Faults        \* environment faults of this instance

ASSUME TimeAssumption ==
    /\ LeaseTime \in Nat \ {0}
    /\ MinLease \in 0 .. LeaseTime
    /\ WaitTime \in Nat
    /\ RenewTimes \subseteq Nat \ {0}
    /\ MaxFence \in Nat \ {0}
    /\ Issued \subseteq 0 .. MaxFence

ASSUME NameAssumption ==
    /\ UsersOf \in [Attempts -> SUBSET UserThreads]
    /\ Worker \notin UserThreads
    /\ Nobody \notin Attempts
    /\ Nobody \notin UserThreads \cup {Worker}
    /\ Foreign \notin Attempts
    /\ Foreign # Nobody

ASSUME OptionAssumption ==
    /\ AutoRenew \in BOOLEAN
    /\ Calls \subseteq {"renew", "is_held", "enter", "release"}
    /\ Faults \subseteq {"crash", "counter", "history", "lease"}

VARIABLES
    lease,     \* the lease key: its record and PTTL; owner Nobody: no key
    counter,   \* the fence key; 0: no key
    history,   \* is the history marker there?
    wire,      \* script calls sent and not executed
    attempt,   \* how far each try_acquire call came
    state,     \* _RedisLockLease._state of the attempt's handle
    fence,     \* the fencing token of the handle's record
    minLeft,   \* what is left of the minimum lease
    waitLeft,  \* what is left of the waiting budget
    op,        \* where each thread of a handle is, and the reply it got
    scope,     \* the thread whose "with handle" body runs
    worker,    \* _worker and _worker_ready
    stop,      \* _stop_event
    grant      \* auxiliary: the fencing token the server issued to a token

serverVars == <<lease, counter, history, grant>>
handleVars == <<attempt, state, fence, scope, worker, stop>>
timerVars  == <<minLeft, waitLeft>>
vars == <<serverVars, wire, handleVars, timerVars, op>>

Threads  == UserThreads \cup {Worker}
Terminal == {"LOST", "RELEASED", "UNKNOWN"}
Kinds    == {"acquire", "renew", "probe", "reconcile", "release"}

\* Where a thread waits for the reply of a script.
IoPoints == {"acquire", "reconcileAcquire", "renew", "probe", "enterProof",
             "release", "reconcileRelease", "repeatRelease"}

Points == IoPoints \cup {"idle", "sleep", "starting", "stopReady",
                         "stopJoin", "stopRaise", "relCheck"}

Statuses == {"NONE", "ACQUIRED", "CONTENDED", "CORRUPT", "RENEWED", "HELD",
             "NOT_HELD", "ABSENT", "PRESENT", "DELETED", "MIN_TTL_APPLIED",
             "UNCERTAIN", "ERROR"}

Replies  == [status : Statuses, owner : Attempts \cup {Nobody}, fence : Nat]
Requests == [token : Attempts, from : Threads \cup {Nobody}, kind : Kinds,
             fence : Nat, ttl : Nat]

Reply(status) == [status |-> status, owner |-> Nobody, fence |-> 0]
NoReply       == Reply("NONE")
NoLease       == [owner |-> Nobody, fence |-> 0, ttl |-> 0]

\* Nobody holds the lock; its fence key and its marker outlive its owners.
Init ==
    /\ lease = NoLease
    /\ counter \in Issued
    /\ history = (counter > 0)
    /\ wire = {}
    /\ attempt = [a \in Attempts |-> "new"]
    /\ state = [a \in Attempts |-> "NONE"]
    /\ fence = [a \in Attempts |-> 0]
    /\ minLeft = [a \in Attempts |-> 0]
    /\ waitLeft = [a \in Attempts |-> 0]
    /\ op = [a \in Attempts |-> [t \in Threads |->
                [pc |-> "idle", reply |-> NoReply]]]
    /\ scope = [a \in Attempts |-> Nobody]
    /\ worker = [a \in Attempts |-> "none"]
    /\ stop = [a \in Attempts |-> FALSE]
    /\ grant = [a \in Attempts |-> 0]

-----------------------------------------------------------------------------
(* The Lua scripts.  A script runs atomically on the server; its reply is  *)
(* put where the calling thread will find it, unless that thread is gone.  *)

LeasePresent == lease.owner # Nobody

\* A record whose PTTL is 0 is still stored for the rest of the millisecond.
Held(a) == lease.owner = a /\ lease.ttl > 0

\* Faulty variant of Owns: any live record will do.
OwnsAny(r) == LeasePresent /\ lease.ttl > 0

\* Renew, probe and release act only on the caller's own live record.
Owns(r) == Held(r.token) /\ lease.fence = r.fence

\* Faulty variant of AcquireCorrupt: a lost counter or marker goes unnoticed.
AcquireCorruptBlind ==
    \/ /\ LeasePresent
       /\ lease.owner = Foreign \/ lease.ttl = 0
    \/ ~LeasePresent /\ counter = MaxFence

\* What ACQUIRE_SCRIPT takes for corruption.
AcquireCorrupt ==
    \/ history # (counter > 0)
    \/ /\ LeasePresent
       /\ \/ ~history
          \/ lease.owner = Foreign
          \/ lease.fence # counter
          \/ lease.ttl = 0
    \/ ~LeasePresent /\ counter = MaxFence

\* The response travels to the caller; a call nobody waits for has none.
Answer(r, reply) ==
    /\ wire' = wire \ {r}
    /\ op' = IF r.from = Nobody THEN op
             ELSE [op EXCEPT ![r.token][r.from] =
                     [pc |-> @.pc, reply |-> reply]]

\* Faulty variant of ServeGrant: SET without looking at the current lease.
ServeGrantOver(r) ==
    /\ r.kind = "acquire"
    /\ ~AcquireCorrupt
    /\ history' = TRUE
    /\ counter' = counter + 1
    /\ lease' = [owner |-> r.token, fence |-> counter + 1, ttl |-> r.ttl]
    /\ grant' = [grant EXCEPT ![r.token] = counter + 1]
    /\ Answer(r, [status |-> "ACQUIRED", owner |-> r.token,
                  fence |-> counter + 1])

ServeGrant(r) ==
    /\ r.kind = "acquire"
    /\ ~AcquireCorrupt
    /\ ~LeasePresent
    /\ history' = TRUE
    /\ counter' = counter + 1
    /\ lease' = [owner |-> r.token, fence |-> counter + 1, ttl |-> r.ttl]
    /\ grant' = [grant EXCEPT ![r.token] = counter + 1]
    /\ Answer(r, [status |-> "ACQUIRED", owner |-> r.token,
                  fence |-> counter + 1])

ServeNoGrant(r) ==
    /\ r.kind = "acquire"
    /\ AcquireCorrupt \/ LeasePresent
    /\ Answer(r, Reply(IF AcquireCorrupt THEN "CORRUPT" ELSE "CONTENDED"))
    /\ UNCHANGED serverVars

\* The reply of the owner-checked scripts to a caller that does not own.
NotOwned == IF lease.owner = Foreign THEN "CORRUPT" ELSE "NOT_HELD"

ServeRenew(r) ==
    /\ r.kind = "renew"
    /\ lease' = IF Owns(r) THEN [lease EXCEPT !.ttl = r.ttl] ELSE lease
    /\ Answer(r, Reply(IF Owns(r) THEN "RENEWED" ELSE NotOwned))
    /\ UNCHANGED <<counter, history, grant>>

ServeProbe(r) ==
    /\ r.kind = "probe"
    /\ Answer(r, Reply(IF Owns(r) THEN "HELD" ELSE NotOwned))
    /\ UNCHANGED serverVars

ServeReconcile(r) ==
    /\ r.kind = "reconcile"
    /\ Answer(r, IF lease.owner = Foreign THEN Reply("CORRUPT")
                 ELSE IF LeasePresent /\ lease.ttl > 0
                      THEN [status |-> "PRESENT", owner |-> lease.owner,
                            fence |-> lease.fence]
                 ELSE Reply("ABSENT"))
    /\ UNCHANGED serverVars

ServeRelease(r) ==
    /\ r.kind = "release"
    /\ lease' = IF ~Owns(r) THEN lease
                ELSE IF r.ttl = 0 THEN NoLease
                ELSE [lease EXCEPT !.ttl = r.ttl]
    /\ Answer(r, Reply(IF ~Owns(r) THEN NotOwned
                       ELSE IF r.ttl = 0 THEN "DELETED"
                       ELSE "MIN_TTL_APPLIED"))
    /\ UNCHANGED <<counter, history, grant>>

Serve(r) ==
    /\ \/ ServeGrant(r)
       \/ ServeNoGrant(r)
       \/ ServeRenew(r)
       \/ ServeProbe(r)
       \/ ServeReconcile(r)
       \/ ServeRelease(r)
    /\ UNCHANGED <<handleVars, timerVars>>

-----------------------------------------------------------------------------
(* The bounded client call around a script.                                *)

\* _run_script and _run_reconcile: thread t sends and waits at pc.
Call(a, t, pc, kind, token, ttl) ==
    /\ wire' = wire \cup {[token |-> a, from |-> t, kind |-> kind,
                           fence |-> token, ttl |-> ttl]}
    /\ op' = [op EXCEPT ![a][t] = [pc |-> pc, reply |-> NoReply]]

Goto(a, t, pc) == op' = [op EXCEPT ![a][t] = [pc |-> pc, reply |-> NoReply]]

CallsOf(a, t) == {r \in wire : r.token = a /\ r.from = t}

\* Calls of R nobody waits for any more.  A late probe or reconciliation has
\* no effect and no reader, so only the scripts that write are kept.
Orphaned(R) ==
    {[r EXCEPT !.from = Nobody] : r \in {q \in R : q.kind \notin {"probe", "reconcile"}}}

At(a, t, pc) == op[a][t].pc = pc
Status(a, t) == op[a][t].reply.status
Replied(a, t, pc) == At(a, t, pc) /\ Status(a, t) # "NONE"

\* A timeout or a broken connection: the request may be lost, may still
\* reach the server later, or was executed and its response is lost.
TimeOut(a, t) ==
    /\ op[a][t].pc \in IoPoints
    /\ Status(a, t) \notin {"UNCERTAIN", "ERROR"}
    /\ op' = [op EXCEPT ![a][t] = [pc |-> @.pc, reply |-> Reply("UNCERTAIN")]]
    /\ \/ wire' = wire \ CallsOf(a, t)
       \/ wire' = (wire \ CallsOf(a, t)) \cup Orphaned(CallsOf(a, t))
    /\ UNCHANGED <<serverVars, handleVars, timerVars>>

\* Any other failure: the server or the client refuses to run the script.
Refuse(a, t) ==
    /\ op[a][t].pc \in IoPoints
    /\ Status(a, t) = "NONE"
    /\ op' = [op EXCEPT ![a][t] = [pc |-> @.pc, reply |-> Reply("ERROR")]]
    /\ wire' = wire \ CallsOf(a, t)
    /\ UNCHANGED <<serverVars, handleVars, timerVars>>

-----------------------------------------------------------------------------
(* RedisDistributedLock.try_acquire                                        *)

SendAcquire(a, t) ==
    /\ minLeft' = [minLeft EXCEPT ![a] = MinLease]
    /\ Call(a, t, "acquire", "acquire", 0, LeaseTime)

TryAcquire(a, t) ==
    /\ attempt[a] = "new"
    /\ attempt' = [attempt EXCEPT ![a] = "running"]
    /\ waitLeft' = [waitLeft EXCEPT ![a] = WaitTime]
    /\ SendAcquire(a, t)
    /\ UNCHANGED <<serverVars, state, fence, scope, worker, stop>>

\* The call returns nothing ("none") or raises LeaderBackendError ("error").
EndAttempt(a, t, outcome) ==
    /\ attempt' = [attempt EXCEPT ![a] = outcome]
    /\ Goto(a, t, "idle")
    /\ UNCHANGED <<state, fence, wire>>

NewHandle(a, t, token) ==
    /\ attempt' = [attempt EXCEPT ![a] = "handle"]
    /\ state' = [state EXCEPT ![a] = "ACQUIRED"]
    /\ fence' = [fence EXCEPT ![a] = token]
    /\ Goto(a, t, "idle")
    /\ UNCHANGED wire

AcquireReply(a, t) ==
    /\ Replied(a, t, "acquire")
    /\ \/ /\ Status(a, t) = "UNCERTAIN"
          /\ Call(a, t, "reconcileAcquire", "reconcile", 0, 0)
          /\ UNCHANGED <<attempt, state, fence>>
       \/ /\ Status(a, t) = "ACQUIRED"
          /\ NewHandle(a, t, op[a][t].reply.fence)
       \/ /\ Status(a, t) = "CONTENDED"
          /\ waitLeft[a] = 0
          /\ EndAttempt(a, t, "none")
       \/ /\ Status(a, t) = "CONTENDED"
          /\ waitLeft[a] > 0
          /\ Goto(a, t, "sleep")
          /\ UNCHANGED <<attempt, state, fence, wire>>
       \/ /\ Status(a, t) \in {"CORRUPT", "ERROR"}
          /\ EndAttempt(a, t, "error")
    /\ UNCHANGED <<serverVars, scope, worker, stop, timerVars>>

\* The jittered sleep ends: try again, but never at or after the deadline.
AcquireAgain(a, t) ==
    /\ At(a, t, "sleep")
    /\ \/ /\ waitLeft[a] > 0
          /\ SendAcquire(a, t)
          /\ UNCHANGED <<attempt, state, fence>>
       \/ /\ waitLeft[a] = 0
          /\ EndAttempt(a, t, "none")
          /\ UNCHANGED minLeft
    /\ UNCHANGED <<serverVars, scope, worker, stop, waitLeft>>

\* _reconcile_acquire: one look at the record, no second acquire.
ReconcileAcquire(a, t) ==
    /\ Replied(a, t, "reconcileAcquire")
    /\ IF Status(a, t) = "PRESENT" /\ op[a][t].reply.owner = a
       THEN NewHandle(a, t, op[a][t].reply.fence)
       ELSE EndAttempt(a, t, "error")
    /\ UNCHANGED <<serverVars, scope, worker, stop, timerVars>>

-----------------------------------------------------------------------------
(* _RedisLockLease: renew and is_held.  The first look at the state and the *)
(* call are one step: what another thread does to the handle in between    *)
(* it can as well do while the call is on its way.                         *)

Idle(a, t) == attempt[a] = "handle" /\ At(a, t, "idle")

\* Faulty variant of AfterProof: the state is not looked at again after the call.
AfterProofBlind(s, status) ==
    IF status \in {"RENEWED", "HELD"} THEN s
    ELSE IF status = "NOT_HELD" THEN "LOST"
    ELSE "UNKNOWN"

\* The state after the reply of a renew or probe script to a handle in s.
AfterProof(s, status) ==
    IF s \in Terminal \/ status \in {"RENEWED", "HELD"} THEN s
    ELSE IF status = "NOT_HELD" THEN "LOST"
    ELSE "UNKNOWN"

\* The reply proves ownership and no other thread has ended the handle.
Proved(a, t) == state[a] \notin Terminal /\ Status(a, t) \in {"RENEWED", "HELD"}

Renew(a, t, duration) ==
    /\ "renew" \in Calls
    /\ Idle(a, t)
    /\ state[a] \notin Terminal
    /\ Call(a, t, "renew", "renew", fence[a], duration)
    /\ UNCHANGED <<serverVars, handleVars, timerVars>>

IsHeld(a, t) ==
    /\ "is_held" \in Calls
    /\ Idle(a, t)
    /\ state[a] \notin Terminal
    /\ Call(a, t, "probe", "probe", fence[a], 0)
    /\ UNCHANGED <<serverVars, handleVars, timerVars>>

ProofReply(a, t) ==
    /\ Replied(a, t, "renew") \/ Replied(a, t, "probe")
    /\ state' = [state EXCEPT ![a] = AfterProof(@, Status(a, t))]
    /\ Goto(a, t, "idle")
    /\ UNCHANGED <<serverVars, wire, attempt, fence, scope, worker, stop,
                   timerVars>>

-----------------------------------------------------------------------------
(* __enter__ and _start_worker                                             *)

Enter(a, t) ==
    /\ "enter" \in Calls
    /\ Idle(a, t)
    /\ state[a] = "ACQUIRED"
    /\ state' = [state EXCEPT ![a] = "ENTERED"]
    /\ IF AutoRenew
       THEN Call(a, t, "enterProof", "renew", fence[a], LeaseTime)
       ELSE Call(a, t, "enterProof", "probe", fence[a], 0)
    /\ UNCHANGED <<serverVars, attempt, fence, scope, worker, stop, timerVars>>

EnterReply(a, t) ==
    /\ Replied(a, t, "enterProof")
    /\ state' = [state EXCEPT ![a] = AfterProof(@, Status(a, t))]
    /\ \/ /\ Proved(a, t) /\ AutoRenew
          /\ worker' = [worker EXCEPT ![a] = "starting"]
          /\ Goto(a, t, "starting")
          /\ UNCHANGED scope
       \/ /\ Proved(a, t) /\ ~AutoRenew
          /\ scope' = [scope EXCEPT ![a] = t]
          /\ Goto(a, t, "idle")
          /\ UNCHANGED worker
       \/ /\ ~Proved(a, t)
          /\ Goto(a, t, "idle")
          /\ UNCHANGED <<scope, worker>>
    /\ UNCHANGED <<serverVars, wire, attempt, fence, stop, timerVars>>

\* The worker runs; a handle that ended meanwhile is not delivered.
StartWorker(a, t) ==
    /\ At(a, t, "starting")
    /\ worker' = [worker EXCEPT ![a] = "running"]
    /\ \/ /\ state[a] \in Terminal
          /\ stop' = [stop EXCEPT ![a] = TRUE]
          /\ Goto(a, t, "stopRaise")
          /\ UNCHANGED scope
       \/ /\ state[a] \notin Terminal
          /\ scope' = [scope EXCEPT ![a] = t]
          /\ Goto(a, t, "idle")
          /\ UNCHANGED stop
    /\ UNCHANGED <<serverVars, wire, attempt, state, fence, timerVars>>

\* Faulty variant of StartWorkerFails: passes the error on at once.
StartWorkerFailsBare(a, t) ==
    /\ At(a, t, "starting")
    /\ worker' = [worker EXCEPT ![a] = "none"]
    /\ Goto(a, t, "idle")
    /\ UNCHANGED <<serverVars, wire, attempt, state, fence, scope, stop,
                   timerVars>>

\* worker.start() raises, before or after the thread really started; the
\* lease is given back before the error is raised.
StartWorkerFails(a, t) ==
    /\ At(a, t, "starting")
    /\ \/ /\ worker' = [worker EXCEPT ![a] = "none"]
          /\ Goto(a, t, "relCheck")
          /\ UNCHANGED stop
       \/ /\ worker' = [worker EXCEPT ![a] = "running"]
          /\ stop' = [stop EXCEPT ![a] = TRUE]
          /\ Goto(a, t, "stopJoin")
    /\ UNCHANGED <<serverVars, wire, attempt, state, fence, scope, timerVars>>

-----------------------------------------------------------------------------
(* _renew_loop, the body of the worker thread                              *)

Leaves(a) ==
    /\ worker' = [worker EXCEPT ![a] = "exited"]
    /\ stop' = [stop EXCEPT ![a] = TRUE]

WorkerWakes(a) ==
    /\ worker[a] = "running"
    /\ At(a, Worker, "idle")
    /\ \/ /\ stop[a] \/ state[a] \in Terminal
          /\ Leaves(a)
          /\ UNCHANGED <<wire, op>>
       \/ /\ ~stop[a] /\ state[a] \notin Terminal
          /\ Call(a, Worker, "renew", "renew", fence[a], LeaseTime)
          /\ UNCHANGED <<worker, stop>>
    /\ UNCHANGED <<serverVars, attempt, state, fence, scope, timerVars>>

WorkerReply(a) ==
    /\ Replied(a, Worker, "renew")
    /\ state' = [state EXCEPT ![a] = AfterProof(@, Status(a, Worker))]
    /\ Goto(a, Worker, "idle")
    /\ IF Proved(a, Worker) THEN UNCHANGED <<worker, stop>> ELSE Leaves(a)
    /\ UNCHANGED <<serverVars, wire, attempt, fence, scope, timerVars>>

\* renew() raises something that is not an Exception.
WorkerCrash(a) ==
    /\ At(a, Worker, "renew")
    /\ state' = [state EXCEPT ![a] = "UNKNOWN"]
    /\ Leaves(a)
    /\ Goto(a, Worker, "idle")
    /\ wire' = (wire \ CallsOf(a, Worker)) \cup Orphaned(CallsOf(a, Worker))
    /\ UNCHANGED <<serverVars, attempt, fence, scope, timerVars>>

-----------------------------------------------------------------------------
(* release, __exit__, _stop_worker and _release                            *)

\* First half of _stop_worker: signal the worker there is, and wait until it
\* was started before it is joined.
BeginStop(a, t) ==
    /\ stop' = [stop EXCEPT ![a] = @ \/ worker[a] # "none"]
    /\ Goto(a, t, CASE worker[a] = "none"     -> "relCheck"
                    [] worker[a] = "starting" -> "stopReady"
                    [] OTHER                  -> "stopJoin")
    /\ UNCHANGED <<serverVars, wire, attempt, state, fence, worker, timerVars>>

Release(a, t) ==
    /\ "release" \in Calls
    /\ Idle(a, t)
    /\ BeginStop(a, t)
    /\ UNCHANGED scope

Exit(a, t) ==
    /\ Idle(a, t)
    /\ scope[a] = t
    /\ scope' = [scope EXCEPT ![a] = Nobody]
    /\ BeginStop(a, t)

StopReady(a, t) ==
    /\ At(a, t, "stopReady")
    /\ worker[a] # "starting"
    /\ Goto(a, t, "stopJoin")
    /\ UNCHANGED <<serverVars, wire, handleVars, timerVars>>

\* Faulty variant of StopJoin: signals the worker but does not wait for it.
StopJoinEarly(a, t) ==
    /\ worker' = [worker EXCEPT ![a] = "none"]
    /\ \/ At(a, t, "stopJoin")  /\ Goto(a, t, "relCheck")
       \/ At(a, t, "stopRaise") /\ Goto(a, t, "idle")
    /\ UNCHANGED <<serverVars, wire, attempt, state, fence, scope, stop,
                   timerVars>>

\* The worker has ended, or another thread has joined it already.
StopJoin(a, t) ==
    /\ worker[a] \in {"none", "exited"}
    /\ worker' = [worker EXCEPT ![a] = "none"]
    /\ \/ At(a, t, "stopJoin")  /\ Goto(a, t, "relCheck")
       \/ At(a, t, "stopRaise") /\ Goto(a, t, "idle")
    /\ UNCHANGED <<serverVars, wire, attempt, state, fence, scope, stop,
                   timerVars>>

\* A bounded wait of _stop_worker runs out: no release, the handle is unknown.
\* The wait for the start may have run out just before the start was done.
StopExpires(a, t) ==
    /\ \/ At(a, t, "stopReady")
       \/ At(a, t, "stopJoin") /\ worker[a] = "running"
       \/ At(a, t, "stopRaise") /\ worker[a] = "running"
    /\ state' = [state EXCEPT ![a] = "UNKNOWN"]
    /\ Goto(a, t, "idle")
    /\ UNCHANGED <<serverVars, wire, attempt, fence, scope, worker, stop,
                   timerVars>>

\* Faulty variants of SendRelease: release at once; ask for a full lease.
SendReleaseNow(a, t, pc)  == Call(a, t, pc, "release", fence[a], 0)
SendReleaseFull(a, t, pc) == Call(a, t, pc, "release", fence[a], LeaseTime)

\* _dispatch_release asks for what is left of the minimum lease.
SendRelease(a, t, pc) == Call(a, t, pc, "release", fence[a], minLeft[a])

ReleaseCheck(a, t) ==
    /\ At(a, t, "relCheck")
    /\ \/ /\ state[a] \in Terminal
          /\ Goto(a, t, "idle")
          /\ UNCHANGED wire
       \/ /\ state[a] \notin Terminal
          /\ SendRelease(a, t, "release")
    /\ UNCHANGED <<serverVars, handleVars, timerVars>>

\* The state after the reply of a release script to a handle in s.
AfterRelease(s, status) ==
    IF s \in Terminal THEN s
    ELSE IF status \in {"DELETED", "MIN_TTL_APPLIED"} THEN "RELEASED"
    ELSE IF status = "NOT_HELD" THEN "LOST"
    ELSE "UNKNOWN"

\* Faulty variant of ReleaseReply: sends again as long as the reply is lost.
ReleaseReplyRetries(a, t) ==
    /\ Replied(a, t, "release")
    /\ \/ /\ Status(a, t) = "UNCERTAIN"
          /\ SendRelease(a, t, "release")
          /\ UNCHANGED state
       \/ /\ Status(a, t) # "UNCERTAIN"
          /\ state' = [state EXCEPT ![a] = AfterRelease(@, Status(a, t))]
          /\ Goto(a, t, "idle")
          /\ UNCHANGED wire
    /\ UNCHANGED <<serverVars, attempt, fence, scope, worker, stop, timerVars>>

ReleaseReply(a, t) ==
    /\ \/ /\ Replied(a, t, "release")
          /\ Status(a, t) = "UNCERTAIN"
          /\ Call(a, t, "reconcileRelease", "reconcile", 0, 0)
          /\ UNCHANGED state
       \/ /\ \/ Replied(a, t, "release") /\ Status(a, t) # "UNCERTAIN"
             \/ Replied(a, t, "repeatRelease")
          /\ state' = [state EXCEPT ![a] = AfterRelease(@, Status(a, t))]
          /\ Goto(a, t, "idle")
          /\ UNCHANGED wire
    /\ UNCHANGED <<serverVars, attempt, fence, scope, worker, stop, timerVars>>

\* _reconcile_release: only a record that is still ours is released again.
ReconcileRelease(a, t) ==
    /\ Replied(a, t, "reconcileRelease")
    /\ LET present == Status(a, t) = "PRESENT"
           own     == present /\ op[a][t].reply.owner = a
       IN  \/ /\ state[a] \notin Terminal /\ own
              /\ SendRelease(a, t, "repeatRelease")
              /\ UNCHANGED state
           \/ /\ state[a] \notin Terminal /\ ~own
              /\ state' = [state EXCEPT ![a] =
                              IF present THEN "LOST" ELSE "UNKNOWN"]
              /\ Goto(a, t, "idle")
              /\ UNCHANGED wire
           \/ /\ state[a] \in Terminal
              /\ Goto(a, t, "idle")
              /\ UNCHANGED <<state, wire>>
    /\ UNCHANGED <<serverVars, attempt, fence, scope, worker, stop, timerVars>>

-----------------------------------------------------------------------------
(* Time and faults                                                         *)

Down(n) == IF n = 0 THEN 0 ELSE n - 1

\* Faulty variant of Tick: the lease was stored without an expiry.
TickNoExpiry ==
    /\ minLeft' = [a \in Attempts |-> Down(minLeft[a])]
    /\ waitLeft' = [a \in Attempts |-> Down(waitLeft[a])]
    /\ UNCHANGED <<serverVars, wire, handleVars, op>>

\* A lease expires when its last millisecond is over.
Tick ==
    /\ lease' = IF lease.owner \in {Nobody, Foreign} THEN lease
                ELSE IF lease.ttl = 0 THEN NoLease
                ELSE [lease EXCEPT !.ttl = lease.ttl - 1]
    /\ minLeft' = [a \in Attempts |-> Down(minLeft[a])]
    /\ waitLeft' = [a \in Attempts |-> Down(waitLeft[a])]
    /\ UNCHANGED <<counter, history, grant, wire, handleVars, op>>

\* The process of an attempt dies; what it sent may still be executed.
Crash(a) ==
    /\ "crash" \in Faults
    /\ attempt[a] \in {"running", "handle"}
    /\ attempt' = [attempt EXCEPT ![a] = "crashed"]
    /\ op' = [op EXCEPT ![a] = [t \in Threads |->
                 [pc |-> "idle", reply |-> NoReply]]]
    /\ wire' = {r \in wire : r.token # a}
                \cup Orphaned({r \in wire : r.token = a})
    /\ scope' = [scope EXCEPT ![a] = Nobody]
    /\ worker' = [worker EXCEPT ![a] = "none"]
    /\ UNCHANGED <<serverVars, state, fence, stop, timerVars>>

\* One of the two persistent keys is lost (eviction, a partial restore).
LoseKey ==
    /\ counter > 0 /\ history
    /\ \/ "counter" \in Faults /\ counter' = 0 /\ UNCHANGED history
       \/ "history" \in Faults /\ history' = FALSE /\ UNCHANGED counter
    /\ UNCHANGED <<lease, grant, wire, handleVars, timerVars, op>>

\* Something that is not this package overwrites the lease.
Overwrite ==
    /\ "lease" \in Faults
    /\ LeasePresent
    /\ lease' = [owner |-> Foreign, fence |-> 0, ttl |-> 0]
    /\ UNCHANGED <<counter, history, grant, wire, handleVars, timerVars, op>>

-----------------------------------------------------------------------------

ThreadStep(a, t) ==
    \/ TryAcquire(a, t) \/ AcquireReply(a, t) \/ AcquireAgain(a, t)
    \/ ReconcileAcquire(a, t)
    \/ \E d \in RenewTimes : Renew(a, t, d)
    \/ IsHeld(a, t) \/ ProofReply(a, t)
    \/ Enter(a, t) \/ EnterReply(a, t)
    \/ StartWorker(a, t) \/ StartWorkerFails(a, t)
    \/ Release(a, t) \/ Exit(a, t)
    \/ StopReady(a, t) \/ StopJoin(a, t) \/ StopExpires(a, t)
    \/ ReleaseCheck(a, t) \/ ReleaseReply(a, t) \/ ReconcileRelease(a, t)

WorkerStep(a) == WorkerWakes(a) \/ WorkerReply(a) \/ WorkerCrash(a)

NetworkStep(a, t) == TimeOut(a, t) \/ Refuse(a, t)

Next ==
    \/ \E r \in wire : Serve(r)
    \/ \E a \in Attempts : \E t \in UsersOf[a] : ThreadStep(a, t)
    \/ \E a \in Attempts : WorkerStep(a)
    \/ \E a \in Attempts, t \in Threads : NetworkStep(a, t)
    \/ \E a \in Attempts : Crash(a)
    \/ Tick
    \/ LoseKey
    \/ Overwrite

Spec == Init /\ [][Next]_vars

\* What a thread does without being asked to: handle a reply, wake up, finish
\* a bounded wait.  Calling an operation of the handle is the caller's choice.
Progress(a, t) ==
    \/ AcquireReply(a, t) \/ AcquireAgain(a, t) \/ ReconcileAcquire(a, t)
    \/ ProofReply(a, t) \/ EnterReply(a, t)
    \/ StartWorker(a, t) \/ StartWorkerFails(a, t)
    \/ StopReady(a, t) \/ StopJoin(a, t) \/ StopExpires(a, t)
    \/ ReleaseCheck(a, t) \/ ReleaseReply(a, t) \/ ReconcileRelease(a, t)

\* Threads are scheduled, socket timeouts strike, and time passes.  Nothing
\* makes the server execute a call, and nothing makes a caller release.
Fairness ==
    /\ \A a \in Attempts : \A t \in UsersOf[a] : WF_vars(Progress(a, t))
    /\ \A a \in Attempts : WF_vars(WorkerStep(a))
    /\ \A a \in Attempts, t \in Threads : WF_vars(TimeOut(a, t))
    /\ WF_vars(Tick)

FairSpec == Spec /\ Fairness

-----------------------------------------------------------------------------
(* Properties                                                              *)

TypeOK ==
    /\ lease \in [owner : Attempts \cup {Nobody, Foreign}, fence : Nat,
                  ttl : Nat]
    /\ counter \in Nat
    /\ history \in BOOLEAN
    /\ wire \subseteq Requests
    /\ attempt \in [Attempts -> {"new", "running", "none", "error", "handle",
                                "crashed"}]
    /\ state \in [Attempts -> {"NONE", "ACQUIRED", "ENTERED"} \cup Terminal]
    /\ fence \in [Attempts -> Nat]
    /\ minLeft \in [Attempts -> 0 .. MinLease]
    /\ waitLeft \in [Attempts -> 0 .. WaitTime]
    /\ op \in [Attempts -> [Threads -> [pc : Points, reply : Replies]]]
    /\ scope \in [Attempts -> UserThreads \cup {Nobody}]
    /\ worker \in [Attempts -> {"none", "starting", "running", "exited"}]
    /\ stop \in [Attempts -> BOOLEAN]
    /\ grant \in [Attempts -> Nat]

\* A fencing token identifies one handle, and is the token the server issued
\* to that handle's owner token, whichever way the handle learned of it: from
\* the reply of the acquire script or from the one reconciliation after a lost
\* response.  The lease that is stored carries its owner's fencing token.
FenceIdentifiesHandle ==
    \A a \in Attempts :
        /\ state[a] # "NONE" => fence[a] = grant[a] /\ grant[a] > 0
        /\ lease.owner = a => lease.fence = grant[a]
        /\ \A b \in Attempts \ {a} : grant[a] > 0 => grant[b] # grant[a]

\* Fencing tokens are issued in increasing order and at most one to an owner
\* token, although acquire calls are delayed or executed after their caller
\* gave up, and although one of the two persistent keys is lost.
GrantsIncrease ==
    [][\A a \in Attempts : grant'[a] # grant[a] =>
          /\ grant[a] = 0
          /\ \A b \in Attempts : grant[b] < grant'[a]]_vars

\* The lock as its callers may understand it: the lease is the hold.
Lock == INSTANCE FencedLock
            WITH Owners <- Attempts, grant <- grant,
                 holder <- IF lease.owner \in Attempts THEN lease.owner ELSE Nobody

\* The Redis lock implements the fenced lock: a token is granted the lock only
\* when nobody holds it, once, and with a larger fencing token, through lost
\* responses, late scripts, expiry, crashes and damaged keys.
ImplementsFencedLock == Lock!Spec

\* A live lease ends early only through a release call of its own handle:
\* no renew, probe or release of another owner, however late it is executed,
\* removes or replaces it.
OnlyOwnerEndsLease ==
    [][\A a \in Attempts : Held(a) /\ lease'.owner \notin {a, Foreign} =>
          \E r \in wire : r.kind = "release" /\ r.token = a /\ r \notin wire']_vars

\* A handle that says LOST has lost its lease, and never holds it again.
LostForGood == \A a \in Attempts : state[a] = "LOST" => ~Held(a)

\* When try_acquire returns None the attempt holds nothing, and no call of it
\* that is still on its way can take the lock later.
NoneHoldsNothing ==
    \A a \in Attempts : attempt[a] = "none" =>
        /\ lease.owner # a
        /\ \A r \in wire : r.token = a => r.kind # "acquire"

\* Nobody else gets the lock before the minimum lease of its last owner is
\* over, whether the owner released, crashed or lost its responses.
MinimumLeaseKept ==
    \A a \in Attempts : grant[a] > 0 /\ lease.owner \notin {a, Foreign} =>
        minLeft[a] = 0

\* A released handle leaves its record behind for the minimum lease at most.
ReleasedSoonFree ==
    \A a \in Attempts : state[a] = "RELEASED" /\ lease.owner = a =>
        lease.ttl <= MinLease

\* A release call is sent when the worker has ended and no renewal of the
\* handle can be executed any more.
ReleaseAfterRenewal ==
    \A r \in wire : r.kind = "release" /\ r.from # Nobody =>
        /\ worker[r.token] = "none"
        /\ \A q \in wire : q.token = r.token => q.kind # "renew"

\* A handle that ended stays ended, and UNKNOWN is final: neither a late reply
\* nor an expired wait revives it or turns doubt into certainty.
EndedStaysEnded ==
    [][\A a \in Attempts : state[a] \in Terminal =>
          state'[a] \in {state[a], "UNKNOWN"}]_vars

\* Where a thread sees to it that an entered handle is delivered or ended.
Attending == {"enterProof", "starting", "stopReady", "stopJoin", "relCheck",
              "release", "reconcileRelease", "repeatRelease"}

\* An entered handle is never left alone: its body runs, or some thread is on
\* the way to deliver it or to give the lease back, also when the renewal
\* thread cannot be started and __enter__ raises.
EnteredIsAttended ==
    \A a \in Attempts : attempt[a] = "handle" /\ state[a] = "ENTERED" =>
        scope[a] # Nobody \/ \E t \in UsersOf[a] : op[a][t].pc \in Attending

\* Every call of a handle and of try_acquire returns.
CallsReturn ==
    \A a \in Attempts, t \in UserThreads :
        ~At(a, t, "idle") ~> At(a, t, "idle")

\* The lease of a crashed process is free for good after a while.
CrashedLeaseEnds ==
    \A a \in Attempts : attempt[a] = "crashed" ~> [](lease.owner # a)

-----------------------------------------------------------------------------
(* The inductive invariant behind the safety properties                    *)

AcquirePoints == {"acquire", "sleep", "reconcileAcquire"}

\* Where a thread may be while a call of this kind is on its way.
Expects(pc, kind) ==
    \/ kind = "acquire" /\ pc = "acquire"
    \/ kind = "renew" /\ pc \in {"renew", "enterProof"}
    \/ kind = "probe" /\ pc \in {"probe", "enterProof"}
    \/ kind = "reconcile" /\ pc \in {"reconcileAcquire", "reconcileRelease"}
    \/ kind = "release" /\ pc \in {"release", "repeatRelease"}

\* A thread waits for at most one call, and has no reply while it does.
WireInv ==
    /\ \A r \in wire : r.from # Nobody =>
          /\ Expects(op[r.token][r.from].pc, r.kind)
          /\ Status(r.token, r.from) = "NONE"
    /\ \A r, q \in wire :
          r.token = q.token /\ r.from = q.from /\ r.from # Nobody => r = q

\* try_acquire runs in one thread, before there is a handle.
ControlInv ==
    \A a \in Attempts, t \in Threads :
        /\ op[a][t].pc \in AcquirePoints => attempt[a] = "running"
        /\ op[a][t].pc \notin AcquirePoints \cup {"idle"} => attempt[a] = "handle"
        /\ worker[a] # "none" => attempt[a] = "handle"
        /\ \A u \in Threads :
              attempt[a] = "running" /\ ~At(a, t, "idle") /\ ~At(a, u, "idle")
                  => t = u

NoAcquire(a) == \A r \in wire : r.token = a => r.kind # "acquire"

\* The server can grant at most once to a token, because at most one acquire
\* call of a token can still be executed and none after a grant.
AcquireInv ==
    /\ \A r \in wire : r.kind = "acquire" => grant[r.token] = 0
    /\ \A r, q \in wire :
          r.kind = "acquire" /\ q.kind = "acquire" /\ r.token = q.token => r = q
    /\ \A a \in Attempts : attempt[a] \in {"new", "none"} =>
          grant[a] = 0 /\ NoAcquire(a)
    /\ \A a \in Attempts, t \in Threads :
          At(a, t, "sleep") \/ Status(a, t) = "CONTENDED" =>
              grant[a] = 0 /\ NoAcquire(a)
    /\ \A a \in Attempts, t \in Threads :
          Status(a, t) = "CONTENDED" => At(a, t, "acquire")

\* The two persistent keys bound the tokens issued as long as both are there.
KeyInv ==
    /\ counter > 0 /\ history => \A a \in Attempts : grant[a] <= counter
    /\ counter = 0 /\ ~history => \A a \in Attempts : grant[a] = 0

\* Every copy of a fencing token is the one the server issued.
GrantInv ==
    /\ lease.owner \in Attempts =>
          grant[lease.owner] > 0 /\ lease.fence = grant[lease.owner]
    /\ \A r \in wire : r.kind \in {"renew", "probe", "release"} =>
          grant[r.token] > 0 /\ r.fence = grant[r.token]
    /\ \A a \in Attempts :
          /\ state[a] # "NONE" => grant[a] > 0 /\ fence[a] = grant[a]
          /\ attempt[a] = "handle" => state[a] # "NONE"
          /\ state[a] # "NONE" => attempt[a] \in {"handle", "crashed"}
          /\ \A b \in Attempts \ {a} : grant[a] > 0 => grant[b] # grant[a]
    /\ \A a \in Attempts, t \in Threads :
          /\ Status(a, t) = "ACQUIRED" =>
                grant[a] > 0 /\ op[a][t].reply.fence = grant[a]
          /\ Status(a, t) = "PRESENT" =>
                /\ op[a][t].reply.owner \in Attempts
                /\ grant[op[a][t].reply.owner] > 0
                /\ op[a][t].reply.fence = grant[op[a][t].reply.owner]

\* A reply that reports the loss of a lease stays true.
LossInv ==
    /\ \A a \in Attempts : state[a] = "LOST" => ~Held(a)
    /\ \A a \in Attempts, t \in Threads :
          /\ Status(a, t) = "NOT_HELD" => grant[a] > 0 /\ ~Held(a)
          /\ /\ At(a, t, "reconcileRelease")
             /\ Status(a, t) = "PRESENT"
             /\ op[a][t].reply.owner # a
             => ~Held(a)

IInv ==
    /\ TypeOK
    /\ WireInv
    /\ ControlInv
    /\ AcquireInv
    /\ KeyInv
    /\ GrantInv
    /\ LossInv

=============================================================================
