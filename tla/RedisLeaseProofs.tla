-------------------------- MODULE RedisLeaseProofs --------------------------
(***************************************************************************)
(* Proofs about RedisLease for every set of attempts and threads, every    *)
(* duration and every combination of faults.                               *)
(***************************************************************************)
EXTENDS AsyncRedisLease, TLAPS

\* A thread is at one of the places P and may have a reply.
Ops(P) == [pc : P, reply : Replies]

\* The types of the variables that the two locks share.  The asyncio lock
\* has more places P than the synchronous one and other states W of a worker.
Fits(P, W) ==
    /\ lease \in [owner : Attempts \cup {Nobody, Foreign}, fence : Nat,
                  ttl : Nat]
    /\ counter \in Nat
    /\ history \in BOOLEAN
    /\ wire \subseteq Requests
    /\ attempt \in [Attempts -> {"new", "running", "none", "error", "handle",
                                "crashed"}]
    /\ state \in [Attempts -> {"NONE", "ACQUIRED", "ENTERED"} \cup Terminal]
    /\ fence \in [Attempts -> Nat]
    /\ minLeft \in [Attempts -> 0 .. MinLease]
    /\ waitLeft \in [Attempts -> 0 .. WaitTime]
    /\ op \in [Attempts -> [Threads -> [pc : P, reply : Replies]]]
    /\ scope \in [Attempts -> UserThreads \cup {Nobody}]
    /\ worker \in [Attempts -> W]
    /\ stop \in [Attempts -> BOOLEAN]
    /\ grant \in [Attempts -> Nat]

(* A step of one thread changes the place of that thread only.             *)
LEMMA OpUpdate ==
    ASSUME NEW X, op \in [Attempts -> [Threads -> X]],
           NEW a \in Attempts, NEW t \in Threads, NEW x \in X,
           op' = [op EXCEPT ![a][t] = x]
    PROVE  /\ op' \in [Attempts -> [Threads -> X]]
           /\ op'[a][t] = x
           /\ \A b \in Attempts, u \in Threads :
                 b # a \/ u # t => op'[b][u] = op[b][u]
  OBVIOUS

(* The replies that carry no record are well typed.                        *)
LEMMA ReplyType ==
    ASSUME NEW s \in Statuses
    PROVE  /\ Reply(s) \in Replies
           /\ Reply(s).status = s
  BY DEF Reply, Replies

(* A thread that sends a call keeps the types of the wire and of its place. *)
LEMMA CallType ==
    ASSUME NEW P, NEW W, Fits(P, W), NEW a \in Attempts, NEW t \in Threads, NEW pc \in P,
           NEW kind \in Kinds, NEW token \in Nat, NEW ttl \in Nat,
           Call(a, t, pc, kind, token, ttl)
    PROVE  /\ wire' \subseteq Requests
           /\ op' \in [Attempts -> [Threads -> Ops(P)]]
  <1>1. NoReply \in Replies
    BY ReplyType DEF NoReply, Statuses
  <1>2. [pc |-> pc, reply |-> NoReply] \in Ops(P)
    BY <1>1 DEF Ops
  <1>3. op' \in [Attempts -> [Threads -> Ops(P)]]
    BY <1>2, OpUpdate DEF Fits, Call, Ops
  <1>4. wire' \subseteq Requests
    BY DEF Fits, Call, Requests
  <1> QED BY <1>3, <1>4

(* A thread that moves on without a call keeps the type of its place.       *)
LEMMA GotoType ==
    ASSUME NEW P, NEW W, Fits(P, W), NEW a \in Attempts, NEW t \in Threads, NEW pc \in P,
           Goto(a, t, pc)
    PROVE  op' \in [Attempts -> [Threads -> Ops(P)]]
  <1>1. NoReply \in Replies
    BY ReplyType DEF NoReply, Statuses
  <1>2. [pc |-> pc, reply |-> NoReply] \in Ops(P)
    BY <1>1 DEF Ops
  <1> QED BY <1>2, OpUpdate DEF Fits, Goto, Ops

(* A script's answer is well typed and takes its call off the wire.        *)
LEMMA AnswerType ==
    ASSUME NEW P, NEW W, Fits(P, W), NEW r \in wire, NEW reply \in Replies, Answer(r, reply)
    PROVE  /\ wire' \subseteq Requests
           /\ op' \in [Attempts -> [Threads -> Ops(P)]]
  <1>1. wire' \subseteq Requests
    BY DEF Fits, Answer
  <1>2. CASE r.from = Nobody
    BY <1>1, <1>2 DEF Fits, Answer, Ops
  <1>3. CASE r.from # Nobody
    <2>1. r.token \in Attempts /\ r.from \in Threads
      BY <1>3 DEF Fits, Requests
    <2>2. [pc |-> op[r.token][r.from].pc, reply |-> reply] \in Ops(P)
      BY <2>1 DEF Fits, Ops
    <2>3. op' = [op EXCEPT ![r.token][r.from] =
                   [pc |-> op[r.token][r.from].pc, reply |-> reply]]
      BY <1>3, <2>1 DEF Answer, Fits
    <2> QED BY <1>1, <2>1, <2>2, <2>3, OpUpdate DEF Fits, Ops
  <1> QED BY <1>2, <1>3

(* A call given up is still a well-typed call.                              *)
LEMMA OrphanType ==
    ASSUME NEW R \in SUBSET Requests
    PROVE  Orphaned(R) \subseteq Requests
  BY DEF Orphaned, Requests

(* Every step of the specification preserves the types of the variables.   *)
LEMMA TypeStep ==
    ASSUME NEW P, Points \subseteq P,
           NEW W, {"none", "starting", "running", "exited"} \subseteq W,
           Fits(P, W), [Next]_vars
    PROVE  Fits(P, W)'
  <1> USE TimeAssumption, NameAssumption
  <1>0. /\ MinLease \in Nat /\ MinLease \in 0 .. MinLease
        /\ WaitTime \in 0 .. WaitTime
        /\ 0 .. MinLease \subseteq Nat
        /\ LeaseTime \in Nat /\ RenewTimes \subseteq Nat
    OBVIOUS
  <1>1. ASSUME NEW r \in wire, Serve(r)
        PROVE  Fits(P, W)'
    <2> r \in Requests
      BY DEF Fits
    <2>1. CASE ServeGrant(r)
      <3>1. [status |-> "ACQUIRED", owner |-> r.token, fence |-> counter + 1]
              \in Replies
        BY DEF Fits, Requests, Replies, Statuses
      <3>2. wire' \subseteq Requests /\ op' \in [Attempts -> [Threads -> Ops(P)]]
        BY <2>1, <3>1, AnswerType DEF ServeGrant
      <3>3. /\ lease' \in [owner : Attempts \cup {Nobody, Foreign}, fence : Nat, ttl : Nat]
            /\ counter' \in Nat /\ grant' \in [Attempts -> Nat] /\ history' \in BOOLEAN
        BY <2>1 DEF ServeGrant, Fits, Requests
      <3> QED BY <1>1, <3>2, <3>3 DEF Serve, Fits, handleVars, timerVars, Ops
    <2>2. CASE ServeNoGrant(r)
      <3>1. Reply(IF AcquireCorrupt THEN "CORRUPT" ELSE "CONTENDED") \in Replies
        BY ReplyType DEF Statuses
      <3> QED BY <1>1, <2>2, <3>1, AnswerType
              DEF ServeNoGrant, Fits, Serve, serverVars, handleVars, timerVars, Ops
    <2>3. CASE ServeRenew(r)
      <3>1. Reply(IF Owns(r) THEN "RENEWED" ELSE NotOwned) \in Replies
        BY ReplyType DEF Statuses, NotOwned
      <3> QED BY <1>1, <2>3, <3>1, AnswerType
              DEF ServeRenew, Fits, Serve, Requests, handleVars, timerVars, Ops
    <2>4. CASE ServeProbe(r)
      <3>1. Reply(IF Owns(r) THEN "HELD" ELSE NotOwned) \in Replies
        BY ReplyType DEF Statuses, NotOwned
      <3> QED BY <1>1, <2>4, <3>1, AnswerType
              DEF ServeProbe, Fits, Serve, serverVars, handleVars, timerVars, Ops
    <2>5. CASE ServeReconcile(r)
      <3> DEFINE reply ==
            IF lease.owner = Foreign THEN Reply("CORRUPT")
            ELSE IF LeasePresent /\ lease.ttl > 0
                 THEN [status |-> "PRESENT", owner |-> lease.owner,
                       fence |-> lease.fence]
            ELSE Reply("ABSENT")
      <3>1. Reply("CORRUPT") \in Replies /\ Reply("ABSENT") \in Replies
        BY ReplyType DEF Statuses
      <3>2. reply \in Replies
        BY <3>1 DEF Fits, Replies, Statuses, LeasePresent
      <3>3. Answer(r, reply)
        BY <2>5 DEF ServeReconcile
      <3> HIDE DEF reply
      <3>4. wire' \subseteq Requests /\ op' \in [Attempts -> [Threads -> Ops(P)]]
        BY <3>2, <3>3, AnswerType
      <3> QED BY <1>1, <2>5, <3>4
              DEF ServeReconcile, Fits, Serve, serverVars, handleVars, timerVars, Ops
    <2>6. CASE ServeRelease(r)
      <3>1. Reply(IF ~Owns(r) THEN NotOwned
                  ELSE IF r.ttl = 0 THEN "DELETED"
                  ELSE "MIN_TTL_APPLIED") \in Replies
        BY ReplyType DEF Statuses, NotOwned
      <3>2. wire' \subseteq Requests /\ op' \in [Attempts -> [Threads -> Ops(P)]]
        BY <2>6, <3>1, AnswerType DEF ServeRelease
      <3> QED BY <1>1, <2>6, <3>2
              DEF ServeRelease, Fits, Serve, Requests, NoLease, handleVars, timerVars, Ops
    <2> QED BY <1>1, <2>1, <2>2, <2>3, <2>4, <2>5, <2>6 DEF Serve
  <1>2. ASSUME NEW a \in Attempts, NEW t \in Threads, NetworkStep(a, t)
        PROVE  Fits(P, W)'
    <2>1. wire' \subseteq Requests
      <3>1. wire \subseteq Requests /\ CallsOf(a, t) \in SUBSET Requests
        BY DEF Fits, CallsOf
      <3> QED BY <1>2, <3>1, OrphanType DEF NetworkStep, TimeOut, Refuse
    <2>2. op' \in [Attempts -> [Threads -> Ops(P)]]
      <3>1. \A s \in {"UNCERTAIN", "ERROR"} :
               [pc |-> op[a][t].pc, reply |-> Reply(s)] \in Ops(P)
        BY ReplyType DEF Fits, Ops, Statuses
      <3>2. op \in [Attempts -> [Threads -> Ops(P)]]
        BY DEF Fits, Ops
      <3>3. PICK s \in {"UNCERTAIN", "ERROR"} :
              op' = [op EXCEPT ![a][t] = [pc |-> op[a][t].pc, reply |-> Reply(s)]]
        BY <1>2, <3>2 DEF NetworkStep, TimeOut, Refuse
      <3> QED BY <3>1, <3>2, <3>3, OpUpdate
    <2> QED BY <1>2, <2>1, <2>2
            DEF NetworkStep, TimeOut, Refuse, Fits, serverVars, handleVars, timerVars, Ops
  <1>3. ASSUME NEW a \in Attempts, NEW t \in UserThreads, ThreadStep(a, t)
        PROVE  Fits(P, W)'
    <2> t \in Threads
      BY DEF Threads
    <2>1. CASE TryAcquire(a, t)
      <3>1. wire' \subseteq Requests /\ op' \in [Attempts -> [Threads -> Ops(P)]]
        BY <1>0, <2>1, CallType DEF TryAcquire, SendAcquire, Points, IoPoints, Kinds
      <3>2. /\ minLeft' \in [Attempts -> 0 .. MinLease]
            /\ waitLeft' \in [Attempts -> 0 .. WaitTime]
        BY <1>0, <2>1 DEF TryAcquire, SendAcquire, Fits
      <3> QED BY <2>1, <3>1, <3>2 DEF TryAcquire, SendAcquire, Fits, serverVars, handleVars, timerVars, Ops
    <2>2. CASE AcquireReply(a, t)
      <3>1. wire' \subseteq Requests /\ op' \in [Attempts -> [Threads -> Ops(P)]]
        BY <2>2, CallType, GotoType
           DEF AcquireReply, NewHandle, EndAttempt, Points, IoPoints, Kinds, Fits
      <3>2. /\ attempt' \in [Attempts -> {"new", "running", "none", "error",
                                          "handle", "crashed"}]
            /\ state' \in [Attempts -> {"NONE", "ACQUIRED", "ENTERED"} \cup Terminal]
            /\ fence' \in [Attempts -> Nat]
        <4>1. op[a][t].reply.fence \in Nat
          BY DEF Fits, Replies
        <4> QED BY <2>2, <4>1 DEF AcquireReply, NewHandle, EndAttempt, Fits
      <3> QED BY <2>2, <3>1, <3>2 DEF AcquireReply, Fits, serverVars, handleVars, timerVars, Ops
    <2>3. CASE AcquireAgain(a, t)
      <3>1. wire' \subseteq Requests /\ op' \in [Attempts -> [Threads -> Ops(P)]]
        BY <1>0, <2>3, CallType, GotoType
           DEF AcquireAgain, SendAcquire, EndAttempt, Points, IoPoints, Kinds, Fits
      <3>2. minLeft' \in [Attempts -> 0 .. MinLease]
        BY <1>0, <2>3 DEF AcquireAgain, SendAcquire, Fits
      <3> QED BY <2>3, <3>1, <3>2 DEF AcquireAgain, SendAcquire, EndAttempt, Fits, serverVars, handleVars, timerVars, Ops
    <2>4. CASE ReconcileAcquire(a, t)
      <3>1. wire' \subseteq Requests /\ op' \in [Attempts -> [Threads -> Ops(P)]]
        BY <2>4, GotoType DEF ReconcileAcquire, NewHandle, EndAttempt, Points, IoPoints, Kinds, Fits
      <3>2. op[a][t].reply.fence \in Nat
        BY DEF Fits, Replies
      <3> QED BY <2>4, <3>1, <3>2 DEF ReconcileAcquire, NewHandle, EndAttempt, Fits, serverVars, handleVars, timerVars, Ops
    <2>5. CASE \E d \in RenewTimes : Renew(a, t, d)
      BY <2>5, CallType DEF Renew, Points, IoPoints, Kinds, Fits, serverVars, handleVars, timerVars, Ops
    <2>6. CASE IsHeld(a, t)
      BY <2>6, CallType DEF IsHeld, Points, IoPoints, Kinds, Fits, serverVars, handleVars, timerVars, Ops
    <2>7. CASE ProofReply(a, t)
      BY <2>7, GotoType DEF ProofReply, AfterProof, Terminal, Points, IoPoints, Fits, serverVars, handleVars, timerVars, Ops
    <2>8. CASE Enter(a, t)
      BY <2>8, CallType DEF Enter, Points, IoPoints, Kinds, Fits, serverVars, handleVars, timerVars, Ops
    <2>9. CASE EnterReply(a, t)
      <3>1. wire' \subseteq Requests /\ op' \in [Attempts -> [Threads -> Ops(P)]]
        BY <2>9, GotoType DEF EnterReply, Points, IoPoints, Kinds, Fits
      <3>2. state' \in [Attempts -> {"NONE", "ACQUIRED", "ENTERED"} \cup Terminal]
        BY <2>9 DEF EnterReply, AfterProof, Terminal, Fits
      <3>3. /\ scope' \in [Attempts -> UserThreads \cup {Nobody}]
            /\ worker' \in [Attempts -> W]
        <4>1. scope' = scope \/ scope' = [scope EXCEPT ![a] = t]
          BY <2>9 DEF EnterReply
        <4>2. \/ worker' = worker
              \/ worker' = [worker EXCEPT ![a] = "starting"]
              \/ worker' = [worker EXCEPT ![a] = "running"]
          BY <2>9 DEF EnterReply
        <4>3. scope' \in [Attempts -> UserThreads \cup {Nobody}]
          BY <4>1 DEF Fits
        <4>4. worker' \in [Attempts -> W]
          BY <4>2 DEF Fits
        <4> QED BY <4>3, <4>4
      <3> QED BY <2>9, <3>1, <3>2, <3>3 DEF EnterReply, Fits, serverVars, handleVars, timerVars, Ops
    <2>10. CASE StartWorker(a, t)
      <3>1. wire' \subseteq Requests /\ op' \in [Attempts -> [Threads -> Ops(P)]]
        BY <2>10, GotoType DEF StartWorker, Points, IoPoints, Kinds, Fits
      <3>2. /\ scope' \in [Attempts -> UserThreads \cup {Nobody}]
            /\ worker' \in [Attempts -> W]
        <4>1. scope' = scope \/ scope' = [scope EXCEPT ![a] = t]
          BY <2>10 DEF StartWorker
        <4>2. \/ worker' = worker
              \/ worker' = [worker EXCEPT ![a] = "starting"]
              \/ worker' = [worker EXCEPT ![a] = "running"]
          BY <2>10 DEF StartWorker
        <4>3. scope' \in [Attempts -> UserThreads \cup {Nobody}]
          BY <4>1 DEF Fits
        <4>4. worker' \in [Attempts -> W]
          BY <4>2 DEF Fits
        <4> QED BY <4>3, <4>4
      <3>3. stop' \in [Attempts -> BOOLEAN]
        BY <2>10 DEF StartWorker, Fits
      <3> QED BY <2>10, <3>1, <3>2, <3>3 DEF StartWorker, Fits, serverVars, handleVars, timerVars, Ops
    <2>11. CASE StartWorkerFails(a, t)
      <3>1. op' \in [Attempts -> [Threads -> Ops(P)]]
        BY <2>11, GotoType DEF StartWorkerFails, Points
      <3>2. worker' \in [Attempts -> W] /\ stop' \in [Attempts -> BOOLEAN]
        <4>1. \/ worker' = worker
              \/ worker' = [worker EXCEPT ![a] = "none"]
              \/ worker' = [worker EXCEPT ![a] = "running"]
          BY <2>11 DEF StartWorkerFails
        <4>2. stop' = stop \/ stop' = [stop EXCEPT ![a] = TRUE]
          BY <2>11 DEF StartWorkerFails
        <4>3. worker' \in [Attempts -> W]
          BY <4>1 DEF Fits
        <4> QED BY <4>2, <4>3 DEF Fits
      <3> QED BY <2>11, <3>1, <3>2 DEF StartWorkerFails, Fits, serverVars, timerVars, Ops
    <2>12. CASE Release(a, t)
      BY <2>12, GotoType DEF Release, BeginStop, Points, IoPoints, Fits, serverVars, handleVars, timerVars, Ops
    <2>13. CASE Exit(a, t)
      BY <2>13, GotoType DEF Exit, BeginStop, Points, IoPoints, Fits, serverVars, handleVars, timerVars, Ops
    <2>14. CASE StopReady(a, t)
      BY <2>14, GotoType DEF StopReady, Points, IoPoints, Fits, serverVars, handleVars, timerVars, Ops
    <2>15. CASE StopJoin(a, t)
      BY <2>15, GotoType DEF StopJoin, Points, IoPoints, Fits, serverVars, handleVars, timerVars, Ops
    <2>16. CASE StopExpires(a, t)
      BY <2>16, GotoType DEF StopExpires, Terminal, Points, IoPoints, Fits, serverVars, handleVars, timerVars, Ops
    <2>17. CASE ReleaseCheck(a, t)
      <3>1. fence[a] \in Nat /\ minLeft[a] \in Nat
        BY <1>0 DEF Fits
      <3>2. wire' \subseteq Requests /\ op' \in [Attempts -> [Threads -> Ops(P)]]
        BY <2>17, <3>1, CallType, GotoType DEF ReleaseCheck, SendRelease, Points, IoPoints, Kinds, Fits
      <3> QED BY <2>17, <3>2 DEF ReleaseCheck, Fits, serverVars, handleVars, timerVars, Ops
    <2>18. CASE ReleaseReply(a, t)
      BY <2>18, CallType, GotoType DEF ReleaseReply, AfterRelease, Terminal, Points, IoPoints, Kinds, Fits, serverVars, handleVars, timerVars, Ops
    <2>19. CASE ReconcileRelease(a, t)
      <3>1. fence[a] \in Nat /\ minLeft[a] \in Nat
        BY <1>0 DEF Fits
      <3>2. wire' \subseteq Requests /\ op' \in [Attempts -> [Threads -> Ops(P)]]
        BY <2>19, <3>1, CallType, GotoType DEF ReconcileRelease, SendRelease, Points, IoPoints, Kinds, Fits
      <3>3. state' \in [Attempts -> {"NONE", "ACQUIRED", "ENTERED"} \cup Terminal]
        BY <2>19 DEF ReconcileRelease, Terminal, Fits
      <3> QED BY <2>19, <3>2, <3>3 DEF ReconcileRelease, Fits, serverVars, handleVars, timerVars, Ops
    <2> QED BY <1>3, <2>1, <2>2, <2>3, <2>4, <2>5, <2>6, <2>7, <2>8, <2>9, <2>10, <2>11, <2>12, <2>13, <2>14, <2>15, <2>16, <2>17, <2>18, <2>19 DEF ThreadStep
  <1>4. ASSUME NEW a \in Attempts, WorkerStep(a)
        PROVE  Fits(P, W)'
    <2> Worker \in Threads
      BY DEF Threads
    <2>1. CASE WorkerWakes(a)
      <3>1. wire' \subseteq Requests /\ op' \in [Attempts -> [Threads -> Ops(P)]]
        <4>1. fence[a] \in Nat
          BY DEF Fits
        <4>2. CASE UNCHANGED <<wire, op>>
          BY <4>2 DEF Fits, Ops
        <4>3. CASE Call(a, Worker, "renew", "renew", fence[a], LeaseTime)
          BY <1>0, <4>1, <4>3, CallType DEF Points, IoPoints, Kinds
        <4> QED BY <2>1, <4>2, <4>3 DEF WorkerWakes
      <3>2. worker' \in [Attempts -> W] /\ stop' \in [Attempts -> BOOLEAN]
        <4>1. \/ worker' = worker
              \/ worker' = [worker EXCEPT ![a] = "exited"]
          BY <2>1 DEF WorkerWakes, Leaves
        <4>2. stop' = stop \/ stop' = [stop EXCEPT ![a] = TRUE]
          BY <2>1 DEF WorkerWakes, Leaves
        <4>3. worker' \in [Attempts -> W]
          BY <4>1 DEF Fits
        <4> QED BY <4>2, <4>3 DEF Fits
      <3> QED BY <2>1, <3>1, <3>2 DEF WorkerWakes, Fits, serverVars, timerVars, Ops
    <2>2. CASE WorkerReply(a)
      <3>1. op' \in [Attempts -> [Threads -> Ops(P)]]
        BY <2>2, GotoType DEF WorkerReply, Points
      <3>2. worker' \in [Attempts -> W] /\ stop' \in [Attempts -> BOOLEAN]
        <4>1. \/ worker' = worker
              \/ worker' = [worker EXCEPT ![a] = "exited"]
          BY <2>2 DEF WorkerReply, Leaves
        <4>2. stop' = stop \/ stop' = [stop EXCEPT ![a] = TRUE]
          BY <2>2 DEF WorkerReply, Leaves
        <4>3. worker' \in [Attempts -> W]
          BY <4>1 DEF Fits
        <4> QED BY <4>2, <4>3 DEF Fits
      <3>3. state' \in [Attempts -> {"NONE", "ACQUIRED", "ENTERED"} \cup Terminal]
        BY <2>2 DEF WorkerReply, AfterProof, Terminal, Fits
      <3> QED BY <2>2, <3>1, <3>2, <3>3 DEF WorkerReply, Fits, serverVars, timerVars, Ops
    <2>3. CASE WorkerCrash(a)
      <3>1. wire' \subseteq Requests
        BY <2>3, OrphanType DEF WorkerCrash, CallsOf, Fits
      <3> QED BY <2>3, <3>1, GotoType
              DEF WorkerCrash, Leaves, Terminal, Points, IoPoints, Fits, serverVars, handleVars, timerVars, Ops
    <2> QED BY <1>4, <2>1, <2>2, <2>3 DEF WorkerStep
  <1>5. ASSUME NEW a \in Attempts, Crash(a)
        PROVE  Fits(P, W)'
    <2>1. wire' \subseteq Requests
      <3>1. wire \subseteq Requests /\ {r \in wire : r.token = a} \in SUBSET Requests
        BY DEF Fits
      <3> QED BY <1>5, <3>1, OrphanType DEF Crash
    <2>2. op' \in [Attempts -> [Threads -> Ops(P)]]
      <3>1. [pc |-> "idle", reply |-> NoReply] \in Ops(P)
        BY ReplyType DEF Ops, NoReply, Statuses, Points
      <3> QED BY <1>5, <3>1 DEF Crash, Fits, Ops
    <2> QED BY <1>5, <2>1, <2>2 DEF Crash, Fits, serverVars, handleVars, timerVars, Ops
  <1>6. CASE Tick
    <2>1. ASSUME NEW a \in Attempts
          PROVE  /\ Down(minLeft[a]) \in 0 .. MinLease
                 /\ Down(waitLeft[a]) \in 0 .. WaitTime
      <3>1. minLeft[a] \in 0 .. MinLease /\ waitLeft[a] \in 0 .. WaitTime
        BY DEF Fits
      <3> QED BY <3>1, <1>0 DEF Down
    <2>2. /\ minLeft' \in [Attempts -> 0 .. MinLease]
          /\ waitLeft' \in [Attempts -> 0 .. WaitTime]
      BY <1>6, <2>1 DEF Tick
    <2>3. lease' \in [owner : Attempts \cup {Nobody, Foreign}, fence : Nat, ttl : Nat]
      <3>1. /\ lease.owner \in Attempts \cup {Nobody, Foreign}
            /\ lease.fence \in Nat /\ lease.ttl \in Nat
            /\ lease = [owner |-> lease.owner, fence |-> lease.fence, ttl |-> lease.ttl]
        BY DEF Fits
      <3>2. lease.ttl # 0 => lease.ttl - 1 \in Nat
        BY <3>1
      <3> QED BY <1>6, <3>1, <3>2 DEF Tick, Fits, NoLease
    <2> QED BY <1>6, <2>2, <2>3 DEF Tick, Fits, handleVars
  <1>7. CASE LoseKey
    <2>1. counter' \in Nat
      <3>1. counter' = 0 \/ counter' = counter
        BY <1>7, Zenon DEF LoseKey
      <3> QED BY <3>1 DEF Fits
    <2>2. history' \in BOOLEAN
      BY <1>7, Zenon DEF LoseKey, Fits
    <2> QED BY <1>7, <2>1, <2>2 DEF LoseKey, Fits, handleVars, timerVars
  <1>8. CASE Overwrite
    BY <1>8 DEF Overwrite, Fits, handleVars, timerVars
  <1>9. CASE UNCHANGED vars
    BY <1>9 DEF vars, Fits, serverVars, handleVars, timerVars
  <1> QED
    BY <1>1, <1>2, <1>3, <1>4, <1>5, <1>6, <1>7, <1>8, <1>9 DEF Next, Threads

-----------------------------------------------------------------------------
(* What the two locks have in common.  The asyncio lock adds places where  *)
(* a task waits for another task, and a renewal task whose timer has fired; *)
(* the parts of IInv are about the keys, the scripts and the calls, which  *)
(* the two locks share, so their steps are studied once for both.          *)

Places == Points \cup Waits
Spots  == [pc : Places, reply : Replies]

Typed == Fits(Places, {"none", "starting", "running", "woken", "stopping", "exited", "cancelled"})

Base ==
    /\ Typed
    /\ WireInv
    /\ ControlInv
    /\ AcquireInv
    /\ KeyInv
    /\ GrantInv
    /\ LossInv

(* The types of the synchronous lock are a special case.                   *)
LEMMA TypeOKFits == TypeOK <=> Fits(Points, {"none", "starting", "running", "exited"})
  BY DEF TypeOK, Fits

\* The types of the synchronous lock give those both locks share.
LEMMA TypeOKTyped == TypeOK => Typed
  <1> SUFFICES ASSUME TypeOK
               PROVE  Typed
    OBVIOUS
  <1>1. op \in [Attempts -> [Threads -> [pc : Places, reply : Replies]]]
    BY DEF TypeOK, Places
  <1>2. worker \in [Attempts -> {"none", "starting", "running", "woken", "stopping", "exited", "cancelled"}]
    BY DEF TypeOK
  <1> QED BY <1>1, <1>2 DEF TypeOK, Typed, Fits

(* So is its inductive invariant.                                          *)
LEMMA IInvBase == IInv => Base
  BY TypeOKTyped DEF IInv, Base

-----------------------------------------------------------------------------
(* What a step of one thread may do: a frame that the steps of the threads *)
(* are shown to respect once, and that the parts of the invariant are then *)
(* derived from.                                                           *)

\* Thread t of handle a waits for no call.
Quiet(a, t) == \A r \in wire : r.token = a => r.from # t

\* Only thread t of a moves, and it has consumed its reply.
Moves(a, t, pc) ==
    /\ op'[a][t] = [pc |-> pc, reply |-> NoReply]
    /\ \A b \in Attempts, u \in Threads :
          b # a \/ u # t => op'[b][u] = op[b][u]

\* It sends at most one call, an acquire only as the first or the next try.
Sends(a, t, pc) ==
    \/ wire' = wire
    \/ \E r \in Requests :
          /\ wire' = wire \cup {r}
          /\ r.token = a /\ r.from = t
          /\ Expects(pc, r.kind)
          /\ r.kind = "acquire" => attempt[a] = "new" \/ At(a, t, "sleep")
          /\ r.kind \in {"renew", "probe", "release"} =>
                attempt[a] = "handle" /\ r.fence = fence[a]

\* It stays within try_acquire or within the operations of the handle.
Flows(a, t, pc) ==
    /\ \A b \in Attempts \ {a} :
          attempt'[b] = attempt[b] /\ worker'[b] = worker[b]
    /\ pc \in AcquirePoints =>
          /\ attempt'[a] = "running"
          /\ op[a][t].pc \in AcquirePoints \/ attempt[a] = "new"
    /\ pc \notin AcquirePoints \cup {"idle"} =>
          attempt[a] = "handle" /\ attempt'[a] = "handle"
    /\ \/ attempt'[a] = attempt[a]
       \/ attempt[a] = "new"
       \/ op[a][t].pc \in AcquirePoints
    /\ worker'[a] # "none" => attempt'[a] = "handle"
    /\ attempt'[a] # "new"
    /\ pc = "sleep" => Status(a, t) = "CONTENDED" /\ wire' = wire
    /\ attempt'[a] = "none" =>
          /\ wire' = wire
          /\ At(a, t, "sleep") \/ Status(a, t) = "CONTENDED"

\* A handle in use may turn to s: it is lost only when the lease is.
MayTurn(a, s) == s # "NONE" /\ (s = "LOST" => ~Held(a))

\* It learns a fencing token, or the loss of the lease, from a reply only.
Learns(a) ==
    /\ \A b \in Attempts \ {a} : state'[b] = state[b] /\ fence'[b] = fence[b]
    /\ \/ fence'[a] = fence[a] /\ (state'[a] # "NONE" => state[a] # "NONE")
       \/ fence'[a] = grant[a] /\ grant[a] > 0
    /\ attempt'[a] = "handle" <=> state'[a] # "NONE"
    /\ state'[a] = "LOST" => ~Held(a)

Local(a, t) ==
    /\ UNCHANGED serverVars
    /\ Quiet(a, t)
    /\ Learns(a)
    /\ \E pc \in Places : Moves(a, t, pc) /\ Sends(a, t, pc) /\ Flows(a, t, pc)

(* What moving on without a call does to the other threads: nothing.        *)
LEMMA GotoMoves ==
    ASSUME Typed, NEW a \in Attempts, NEW t \in Threads, NEW pc \in Places,
           Goto(a, t, pc)
    PROVE  Moves(a, t, pc)
  <1>1. NoReply \in Replies
    BY ReplyType DEF NoReply, Statuses
  <1>2. [pc |-> pc, reply |-> NoReply] \in Spots
    BY <1>1 DEF Spots
  <1> QED BY <1>2, OpUpdate DEF Typed, Fits, Goto, Spots, Moves

(* What sending a call does to the wire and to the other threads.           *)
LEMMA CallMoves ==
    ASSUME Typed, NEW a \in Attempts, NEW t \in Threads, NEW pc \in Places,
           NEW kind \in Kinds, NEW token \in Nat, NEW ttl \in Nat,
           Call(a, t, pc, kind, token, ttl),
           Expects(pc, kind),
           kind = "acquire" => attempt[a] = "new" \/ At(a, t, "sleep"),
           kind \in {"renew", "probe", "release"} =>
               attempt[a] = "handle" /\ token = fence[a]
    PROVE  Moves(a, t, pc) /\ Sends(a, t, pc)
  <1>1. Goto(a, t, pc)
    BY DEF Call, Goto
  <1>2. [token |-> a, from |-> t, kind |-> kind, fence |-> token, ttl |-> ttl]
          \in Requests
    BY DEF Requests
  <1>3. Sends(a, t, pc)
    BY <1>2 DEF Call, Sends
  <1> QED BY <1>1, <1>3, GotoMoves

(* A thread that has its reply, or is not at a call, waits for nothing.    *)
LEMMA NoCall ==
    ASSUME Typed, WireInv, NEW a \in Attempts, NEW t \in Threads,
           Status(a, t) # "NONE" \/ op[a][t].pc \notin IoPoints
    PROVE  Quiet(a, t)
  <1> SUFFICES ASSUME NEW r \in wire, r.token = a, r.from = t
               PROVE  FALSE
    BY DEF Quiet
  <1>1. r.from # Nobody
    BY NameAssumption DEF Threads
  <1>2. Expects(op[a][t].pc, r.kind) /\ Status(a, t) = "NONE"
    BY <1>1 DEF WireInv
  <1> QED BY <1>2 DEF Expects, IoPoints

(* A lost lease is noticed only when it is lost.                           *)
LEMMA ProofLearns ==
    ASSUME Typed, LossInv, NEW a \in Attempts, NEW t \in Threads,
           AfterProof(state[a], Status(a, t)) = "LOST"
    PROVE  ~Held(a)
  BY DEF AfterProof, LossInv, Terminal

(* A release script tells its handle that the lease is lost only if it is.  *)
LEMMA ReleaseLearns ==
    ASSUME Typed, LossInv, NEW a \in Attempts, NEW t \in Threads,
           AfterRelease(state[a], Status(a, t)) = "LOST"
    PROVE  ~Held(a)
  BY DEF AfterRelease, LossInv, Terminal

(* A thread that handles the reply of a renew or probe script, or that     *)
(* moves on without a call, learns nothing but the loss of the lease.      *)
LEMMA QuietLearns ==
    ASSUME Base, NEW a \in Attempts, NEW s,
           attempt' = attempt, fence' = fence,
           state' = [state EXCEPT ![a] = s],
           attempt[a] = "handle", MayTurn(a, s)
    PROVE  Learns(a)
  <1>1. state[a] # "NONE" /\ state'[a] = s
    BY DEF Base, GrantInv, Typed, Fits
  <1>2. \A b \in Attempts \ {a} : state'[b] = state[b]
    BY DEF Base, Typed, Fits
  <1> QED BY <1>1, <1>2 DEF Learns, MayTurn

(* A thread of a handle that moves on without a call.                      *)
LEMMA HandleMoves ==
    ASSUME Base, NEW a \in Attempts, NEW t \in Threads, NEW pc \in Places,
           NEW s, NEW w,
           pc \notin AcquirePoints, attempt[a] = "handle", Quiet(a, t),
           Goto(a, t, pc),
           UNCHANGED <<serverVars, wire, attempt, fence>>,
           worker' = [worker EXCEPT ![a] = w],
           state' = [state EXCEPT ![a] = s],
           MayTurn(a, s)
    PROVE  Local(a, t)
  <1>1. Learns(a)
    BY QuietLearns
  <1>2. Moves(a, t, pc) /\ Sends(a, t, pc)
    BY GotoMoves DEF Base, Sends
  <1>3. Flows(a, t, pc)
    BY DEF Base, Typed, Fits, Flows, AcquirePoints
  <1> QED BY <1>1, <1>2, <1>3 DEF Local

(* A thread of a handle that sends a call.                                 *)
LEMMA HandleCalls ==
    ASSUME Base, NEW a \in Attempts, NEW t \in Threads, NEW pc \in Places,
           NEW kind \in Kinds, NEW token \in Nat, NEW ttl \in Nat, NEW s,
           pc \notin AcquirePoints, attempt[a] = "handle", Quiet(a, t),
           kind # "acquire", Expects(pc, kind),
           kind = "reconcile" \/ token = fence[a],
           Call(a, t, pc, kind, token, ttl),
           UNCHANGED <<serverVars, attempt, fence, worker>>,
           state' = [state EXCEPT ![a] = s],
           MayTurn(a, s)
    PROVE  Local(a, t)
  <1>1. Learns(a)
    BY QuietLearns
  <1>2. Moves(a, t, pc) /\ Sends(a, t, pc)
    BY CallMoves DEF Base
  <1>3. Flows(a, t, pc)
    BY DEF Flows, AcquirePoints, Expects
  <1> QED BY <1>1, <1>2, <1>3 DEF Local

(* What the states and the control of a handle say about one of its        *)
(* threads that is about to move.                                          *)
LEMMA HandleFacts ==
    ASSUME Base, NEW a \in Attempts, NEW t \in Threads
    PROVE  /\ op[a][t].pc \notin AcquirePoints \cup {"idle"} => attempt[a] = "handle"
           /\ attempt[a] = "handle" => state[a] # "NONE"
           /\ state[a] # "NONE" => attempt[a] \in {"handle", "crashed"}
           /\ state[a] = "LOST" => ~Held(a)
           /\ state = [state EXCEPT ![a] = state[a]]
           /\ worker = [worker EXCEPT ![a] = worker[a]]
           /\ state[a] # "NONE" => /\ MayTurn(a, state[a])
                                   /\ MayTurn(a, AfterProof(state[a], Status(a, t)))
                                   /\ MayTurn(a, AfterRelease(state[a], Status(a, t)))
           /\ Status(a, t) # "NONE" \/ op[a][t].pc \notin IoPoints => Quiet(a, t)
           /\ fence[a] \in Nat /\ minLeft[a] \in Nat
  <1>1. op[a][t].pc \notin AcquirePoints \cup {"idle"} => attempt[a] = "handle"
    BY DEF Base, ControlInv
  <1>2. /\ attempt[a] = "handle" => state[a] # "NONE"
        /\ state[a] # "NONE" => attempt[a] \in {"handle", "crashed"}
        /\ state[a] = "LOST" => ~Held(a)
    BY DEF Base, GrantInv, LossInv
  <1>3. /\ state = [state EXCEPT ![a] = state[a]]
        /\ worker = [worker EXCEPT ![a] = worker[a]]
    BY DEF Base, Typed, Fits
  <1>4. /\ AfterProof(state[a], Status(a, t)) = "LOST" => ~Held(a)
        /\ AfterRelease(state[a], Status(a, t)) = "LOST" => ~Held(a)
    BY ProofLearns, ReleaseLearns DEF Base
  <1>5. state[a] # "NONE" => /\ MayTurn(a, state[a])
                             /\ MayTurn(a, AfterProof(state[a], Status(a, t)))
                             /\ MayTurn(a, AfterRelease(state[a], Status(a, t)))
    BY <1>2, <1>4 DEF MayTurn, AfterProof, AfterRelease
  <1>6. Status(a, t) # "NONE" \/ op[a][t].pc \notin IoPoints => Quiet(a, t)
    BY NoCall DEF Base
  <1>7. fence[a] \in Nat /\ minLeft[a] \in Nat
    <2>1. minLeft[a] \in 0 .. MinLease /\ fence[a] \in Nat
      BY DEF Base, Typed, Fits
    <2> QED BY <2>1, TimeAssumption
  <1> QED BY <1>1, <1>2, <1>3, <1>4, <1>5, <1>6, <1>7

(* Every step of an application thread is local.                           *)
LEMMA LocalStep ==
    ASSUME Base, NEW a \in Attempts, NEW t \in UserThreads, ThreadStep(a, t)
    PROVE  Local(a, t)
  <1> USE TimeAssumption, NameAssumption DEF At, Replied, Idle
  <1>t. t \in Threads
    BY DEF Threads
  <1>1. CASE TryAcquire(a, t)
    <2>1. op[a][t].pc = "idle" /\ worker[a] = "none"
      BY <1>1, <1>t DEF TryAcquire, Base, ControlInv, AcquirePoints
    <2>2. Quiet(a, t)
      BY <2>1, <1>t, HandleFacts DEF IoPoints
    <2>3. Moves(a, t, "acquire") /\ Sends(a, t, "acquire")
      BY <1>1, <1>t, CallMoves
         DEF TryAcquire, SendAcquire, Base, Places, Points, IoPoints, Kinds, Expects
    <2>4. attempt'[a] = "running" /\ \A b \in Attempts \ {a} : attempt'[b] = attempt[b]
      BY <1>1 DEF TryAcquire, Base, Typed, Fits
    <2>5. Flows(a, t, "acquire")
      BY <1>1, <2>1, <2>4 DEF TryAcquire, Flows, AcquirePoints
    <2>6. Learns(a)
      BY <1>1, <2>4, HandleFacts, <1>t DEF TryAcquire, Learns
    <2> QED BY <1>1, <2>2, <2>3, <2>5, <2>6
            DEF TryAcquire, Local, serverVars, Places, Points, IoPoints
  <1>2. CASE AcquireReply(a, t)
    <2>1. /\ attempt[a] = "running" /\ worker[a] = "none"
          /\ state[a] = "NONE" /\ Quiet(a, t)
      BY <1>2, <1>t, HandleFacts DEF AcquireReply, Base, ControlInv, AcquirePoints
    <2>2. UNCHANGED <<serverVars, worker>>
      BY <1>2 DEF AcquireReply
    <2>3. CASE Status(a, t) = "UNCERTAIN"
      <3>1. /\ Call(a, t, "reconcileAcquire", "reconcile", 0, 0)
            /\ UNCHANGED <<attempt, state, fence>>
        BY <1>2, <2>3 DEF AcquireReply
      <3>2. Moves(a, t, "reconcileAcquire") /\ Sends(a, t, "reconcileAcquire")
        BY <3>1, <1>t, CallMoves DEF Base, Places, Points, IoPoints, Kinds, Expects
      <3>3. Flows(a, t, "reconcileAcquire")
        BY <1>2, <2>1, <2>2, <3>1 DEF Flows, AcquirePoints, AcquireReply
      <3>4. Learns(a)
        BY <2>1, <3>1, <1>t, HandleFacts DEF Learns, Terminal
      <3> QED BY <2>1, <2>2, <3>2, <3>3, <3>4 DEF Local, Places, Points, IoPoints
    <2>4. CASE Status(a, t) = "ACQUIRED"
      <3>1. NewHandle(a, t, op[a][t].reply.fence)
        BY <1>2, <2>4 DEF AcquireReply
      <3>2. grant[a] > 0 /\ op[a][t].reply.fence = grant[a]
        BY <2>4, <1>t DEF Base, GrantInv
      <3>3. Moves(a, t, "idle") /\ Sends(a, t, "idle")
        BY <3>1, <1>t, GotoMoves DEF Base, NewHandle, Sends, Places, Points
      <3>4. /\ attempt'[a] = "handle" /\ state'[a] = "ACQUIRED"
            /\ fence'[a] = grant[a]
            /\ \A b \in Attempts \ {a} : /\ attempt'[b] = attempt[b]
                                         /\ state'[b] = state[b]
                                         /\ fence'[b] = fence[b]
        BY <3>1, <3>2 DEF NewHandle, Base, Typed, Fits
      <3>5. Flows(a, t, "idle")
        BY <1>2, <2>1, <2>2, <3>4 DEF Flows, AcquirePoints, AcquireReply
      <3>6. Learns(a)
        BY <2>1, <3>2, <3>4 DEF Learns, Terminal
      <3> QED BY <2>1, <2>2, <3>3, <3>5, <3>6 DEF Local, Places, Points
    <2>5. CASE Status(a, t) = "CONTENDED" /\ waitLeft[a] > 0
      <3>1. Goto(a, t, "sleep") /\ UNCHANGED <<attempt, state, fence, wire>>
        BY <1>2, <2>5 DEF AcquireReply
      <3>2. Moves(a, t, "sleep") /\ Sends(a, t, "sleep")
        BY <3>1, <1>t, GotoMoves DEF Base, Sends, Places, Points
      <3>3. Flows(a, t, "sleep")
        BY <1>2, <2>1, <2>2, <2>5, <3>1 DEF Flows, AcquirePoints, AcquireReply
      <3>4. Learns(a)
        BY <2>1, <3>1, <1>t, HandleFacts DEF Learns, Terminal
      <3> QED BY <2>1, <2>2, <3>2, <3>3, <3>4 DEF Local, Places, Points
    <2>6. CASE /\ ~(Status(a, t) = "CONTENDED" /\ waitLeft[a] > 0)
               /\ Status(a, t) \notin {"UNCERTAIN", "ACQUIRED"}
      <3>1. PICK outcome \in {"none", "error"} :
              /\ EndAttempt(a, t, outcome)
              /\ outcome = "none" => Status(a, t) = "CONTENDED"
        BY <1>2, <2>6 DEF AcquireReply
      <3>2. Moves(a, t, "idle") /\ Sends(a, t, "idle")
        BY <3>1, <1>t, GotoMoves DEF Base, EndAttempt, Sends, Places, Points
      <3>3. /\ attempt'[a] = outcome
            /\ \A b \in Attempts \ {a} : attempt'[b] = attempt[b]
        BY <3>1 DEF EndAttempt, Base, Typed, Fits
      <3>4. Flows(a, t, "idle")
        BY <1>2, <2>1, <2>2, <3>1, <3>3 DEF Flows, AcquirePoints, AcquireReply, EndAttempt
      <3>5. Learns(a)
        BY <2>1, <3>1, <3>3, <1>t, HandleFacts DEF Learns, EndAttempt, Terminal
      <3> QED BY <2>1, <2>2, <3>2, <3>4, <3>5 DEF Local, Places, Points
    <2> QED BY <2>3, <2>4, <2>5, <2>6
  <1>3. CASE AcquireAgain(a, t)
    <2>1. /\ attempt[a] = "running" /\ worker[a] = "none"
          /\ state[a] = "NONE" /\ Quiet(a, t)
      BY <1>3, <1>t, HandleFacts DEF AcquireAgain, Base, ControlInv, AcquirePoints, IoPoints
    <2>2. UNCHANGED <<serverVars, worker>>
      BY <1>3 DEF AcquireAgain
    <2>3. CASE SendAcquire(a, t) /\ UNCHANGED <<attempt, state, fence>>
      <3>1. Moves(a, t, "acquire") /\ Sends(a, t, "acquire")
        BY <1>3, <2>3, <1>t, CallMoves
           DEF AcquireAgain, SendAcquire, Base, Places, Points, IoPoints, Kinds, Expects
      <3>2. Flows(a, t, "acquire")
        BY <1>3, <2>1, <2>2, <2>3 DEF Flows, AcquirePoints, AcquireAgain
      <3>3. Learns(a)
        BY <2>1, <2>3, <1>t, HandleFacts DEF Learns, Terminal
      <3> QED BY <2>1, <2>2, <3>1, <3>2, <3>3 DEF Local, Places, Points, IoPoints
    <2>4. CASE EndAttempt(a, t, "none")
      <3>1. Moves(a, t, "idle") /\ Sends(a, t, "idle")
        BY <2>4, <1>t, GotoMoves DEF Base, EndAttempt, Sends, Places, Points
      <3>2. /\ attempt'[a] = "none"
            /\ \A b \in Attempts \ {a} : attempt'[b] = attempt[b]
        BY <2>4 DEF EndAttempt, Base, Typed, Fits
      <3>3. Flows(a, t, "idle")
        BY <1>3, <2>1, <2>2, <2>4, <3>2 DEF Flows, AcquirePoints, AcquireAgain, EndAttempt
      <3>4. Learns(a)
        BY <2>1, <2>4, <3>2, <1>t, HandleFacts DEF Learns, EndAttempt, Terminal
      <3> QED BY <2>1, <2>2, <3>1, <3>3, <3>4 DEF Local, Places, Points
    <2> QED BY <1>3, <2>3, <2>4 DEF AcquireAgain
  <1>4. CASE ReconcileAcquire(a, t)
    <2>1. /\ attempt[a] = "running" /\ worker[a] = "none"
          /\ state[a] = "NONE" /\ Quiet(a, t)
      BY <1>4, <1>t, HandleFacts DEF ReconcileAcquire, Base, ControlInv, AcquirePoints
    <2>2. UNCHANGED <<serverVars, worker>>
      BY <1>4 DEF ReconcileAcquire
    <2>3. CASE Status(a, t) = "PRESENT" /\ op[a][t].reply.owner = a
      <3>1. NewHandle(a, t, op[a][t].reply.fence)
        BY <1>4, <2>3 DEF ReconcileAcquire
      <3>2. grant[a] > 0 /\ op[a][t].reply.fence = grant[a]
        BY <2>3, <1>t DEF Base, GrantInv
      <3>3. Moves(a, t, "idle") /\ Sends(a, t, "idle")
        BY <3>1, <1>t, GotoMoves DEF Base, NewHandle, Sends, Places, Points
      <3>4. /\ attempt'[a] = "handle" /\ state'[a] = "ACQUIRED"
            /\ fence'[a] = grant[a]
            /\ \A b \in Attempts \ {a} : /\ attempt'[b] = attempt[b]
                                         /\ state'[b] = state[b]
                                         /\ fence'[b] = fence[b]
        BY <3>1, <3>2 DEF NewHandle, Base, Typed, Fits
      <3>5. Flows(a, t, "idle")
        BY <1>4, <2>1, <2>2, <3>4 DEF Flows, AcquirePoints, ReconcileAcquire
      <3>6. Learns(a)
        BY <2>1, <3>2, <3>4 DEF Learns, Terminal
      <3> QED BY <2>1, <2>2, <3>3, <3>5, <3>6 DEF Local, Places, Points
    <2>4. CASE ~(Status(a, t) = "PRESENT" /\ op[a][t].reply.owner = a)
      <3>1. EndAttempt(a, t, "error")
        BY <1>4, <2>4 DEF ReconcileAcquire
      <3>2. Moves(a, t, "idle") /\ Sends(a, t, "idle")
        BY <3>1, <1>t, GotoMoves DEF Base, EndAttempt, Sends, Places, Points
      <3>3. /\ attempt'[a] = "error"
            /\ \A b \in Attempts \ {a} : attempt'[b] = attempt[b]
        BY <3>1 DEF EndAttempt, Base, Typed, Fits
      <3>4. Flows(a, t, "idle")
        BY <1>4, <2>1, <2>2, <3>3 DEF Flows, AcquirePoints, ReconcileAcquire
      <3>5. Learns(a)
        BY <2>1, <3>1, <3>3, <1>t, HandleFacts DEF Learns, EndAttempt, Terminal
      <3> QED BY <2>1, <2>2, <3>2, <3>4, <3>5 DEF Local, Places, Points
    <2> QED BY <2>3, <2>4
  <1> USE DEF Places, Points, IoPoints, Kinds, AcquirePoints, handleVars
  <1>5. CASE \E d \in RenewTimes : Renew(a, t, d)
    <2>1. attempt[a] = "handle" /\ Quiet(a, t)
      BY <1>5, <1>t, HandleFacts DEF Renew
    <2>2. \E s : /\ state' = [state EXCEPT ![a] = s]
                /\ MayTurn(a, s)
      BY <1>5, <1>t, <2>1, HandleFacts DEF Renew
    <2>3. fence[a] \in Nat
      BY <1>t, HandleFacts
    <2> QED BY <1>5, <1>t, <2>1, <2>2, <2>3, HandleCalls DEF Renew, Expects
  <1>6. CASE IsHeld(a, t)
    <2>1. attempt[a] = "handle" /\ Quiet(a, t)
      BY <1>6, <1>t, HandleFacts DEF IsHeld
    <2>2. \E s : /\ state' = [state EXCEPT ![a] = s]
                /\ MayTurn(a, s)
      BY <1>6, <1>t, <2>1, HandleFacts DEF IsHeld
    <2>3. fence[a] \in Nat
      BY <1>t, HandleFacts
    <2> QED BY <1>6, <1>t, <2>1, <2>2, <2>3, HandleCalls DEF IsHeld, Expects
  <1>7. CASE ProofReply(a, t)
    <2>1. attempt[a] = "handle" /\ Quiet(a, t)
      BY <1>7, <1>t, HandleFacts DEF ProofReply
    <2>2. \E s : /\ state' = [state EXCEPT ![a] = s]
                /\ MayTurn(a, s)
      BY <1>7, <1>t, <2>1, HandleFacts DEF ProofReply
    <2>3. \E w : worker' = [worker EXCEPT ![a] = w]
      BY <1>7, <1>t, HandleFacts DEF ProofReply
    <2>4. \E pc \in {"idle"} : Goto(a, t, pc)
      BY <1>7 DEF ProofReply
    <2>5. UNCHANGED <<serverVars, wire, attempt, fence>>
      BY <1>7 DEF ProofReply
    <2> QED BY <1>t, <2>1, <2>2, <2>3, <2>4, <2>5, HandleMoves
  <1>8. CASE Enter(a, t)
    <2>1. attempt[a] = "handle" /\ Quiet(a, t)
      BY <1>8, <1>t, HandleFacts DEF Enter
    <2>2. \E s : /\ state' = [state EXCEPT ![a] = s]
                /\ MayTurn(a, s)
      <3>1. state' = [state EXCEPT ![a] = "ENTERED"]
        BY <1>8 DEF Enter
      <3>2. MayTurn(a, "ENTERED")
        BY <1>8 DEF Enter, MayTurn, Terminal
      <3> QED BY <3>1, <3>2, Zenon
    <2>3. fence[a] \in Nat
      BY <1>t, HandleFacts
    <2> QED BY <1>8, <1>t, <2>1, <2>2, <2>3, HandleCalls DEF Enter, Expects
  <1>9. CASE EnterReply(a, t)
    <2>1. attempt[a] = "handle" /\ Quiet(a, t)
      BY <1>9, <1>t, HandleFacts DEF EnterReply
    <2>2. \E s : /\ state' = [state EXCEPT ![a] = s]
                /\ MayTurn(a, s)
      BY <1>9, <1>t, <2>1, HandleFacts DEF EnterReply
    <2>3. \E w : worker' = [worker EXCEPT ![a] = w]
      <3>1. worker' = worker \/ worker' = [worker EXCEPT ![a] = "starting"]
        BY <1>9 DEF EnterReply
      <3>2. worker = [worker EXCEPT ![a] = worker[a]]
        BY <1>t, HandleFacts
      <3> QED BY <3>1, <3>2, Zenon
    <2>4. \E pc \in {"idle", "starting"} : Goto(a, t, pc)
      BY <1>9 DEF EnterReply
    <2>5. UNCHANGED <<serverVars, wire, attempt, fence>>
      BY <1>9 DEF EnterReply
    <2> QED BY <1>t, <2>1, <2>2, <2>3, <2>4, <2>5, HandleMoves
  <1>10. CASE StartWorker(a, t)
    <2>1. attempt[a] = "handle" /\ Quiet(a, t)
      BY <1>10, <1>t, HandleFacts DEF StartWorker
    <2>2. \E s : /\ state' = [state EXCEPT ![a] = s]
                /\ MayTurn(a, s)
      BY <1>10, <1>t, <2>1, HandleFacts DEF StartWorker
    <2>3. \E w : worker' = [worker EXCEPT ![a] = w]
      BY <1>10, <1>t, HandleFacts DEF StartWorker
    <2>4. \E pc \in {"idle", "stopRaise"} : Goto(a, t, pc)
      BY <1>10 DEF StartWorker
    <2>5. UNCHANGED <<serverVars, wire, attempt, fence>>
      BY <1>10 DEF StartWorker
    <2> QED BY <1>t, <2>1, <2>2, <2>3, <2>4, <2>5, HandleMoves
  <1>11. CASE StartWorkerFails(a, t)
    <2>1. attempt[a] = "handle" /\ Quiet(a, t)
      BY <1>11, <1>t, HandleFacts DEF StartWorkerFails
    <2>2. \E s : /\ state' = [state EXCEPT ![a] = s]
                /\ MayTurn(a, s)
      BY <1>11, <1>t, <2>1, HandleFacts DEF StartWorkerFails
    <2>3. \E w : worker' = [worker EXCEPT ![a] = w]
      BY <1>11, <1>t, HandleFacts DEF StartWorkerFails
    <2>4. \E pc \in {"relCheck", "stopJoin"} : Goto(a, t, pc)
      BY <1>11 DEF StartWorkerFails
    <2>5. UNCHANGED <<serverVars, wire, attempt, fence>>
      BY <1>11 DEF StartWorkerFails
    <2> QED BY <1>t, <2>1, <2>2, <2>3, <2>4, <2>5, HandleMoves
  <1>12. CASE Release(a, t)
    <2>1. attempt[a] = "handle" /\ Quiet(a, t)
      BY <1>12, <1>t, HandleFacts DEF Release
    <2>2. \E s : /\ state' = [state EXCEPT ![a] = s]
                /\ MayTurn(a, s)
      BY <1>12, <1>t, <2>1, HandleFacts DEF Release, BeginStop
    <2>3. \E w : worker' = [worker EXCEPT ![a] = w]
      BY <1>12, <1>t, HandleFacts DEF Release, BeginStop
    <2>4. \E pc \in {"relCheck", "stopReady", "stopJoin"} : Goto(a, t, pc)
      BY <1>12 DEF Release, BeginStop
    <2>5. UNCHANGED <<serverVars, wire, attempt, fence>>
      BY <1>12 DEF Release, BeginStop
    <2> QED BY <1>t, <2>1, <2>2, <2>3, <2>4, <2>5, HandleMoves
  <1>13. CASE Exit(a, t)
    <2>1. attempt[a] = "handle" /\ Quiet(a, t)
      BY <1>13, <1>t, HandleFacts DEF Exit
    <2>2. \E s : /\ state' = [state EXCEPT ![a] = s]
                /\ MayTurn(a, s)
      BY <1>13, <1>t, <2>1, HandleFacts DEF Exit, BeginStop
    <2>3. \E w : worker' = [worker EXCEPT ![a] = w]
      BY <1>13, <1>t, HandleFacts DEF Exit, BeginStop
    <2>4. \E pc \in {"relCheck", "stopReady", "stopJoin"} : Goto(a, t, pc)
      BY <1>13 DEF Exit, BeginStop
    <2>5. UNCHANGED <<serverVars, wire, attempt, fence>>
      BY <1>13 DEF Exit, BeginStop
    <2> QED BY <1>t, <2>1, <2>2, <2>3, <2>4, <2>5, HandleMoves
  <1>14. CASE StopReady(a, t)
    <2>1. attempt[a] = "handle" /\ Quiet(a, t)
      BY <1>14, <1>t, HandleFacts DEF StopReady
    <2>2. \E s : /\ state' = [state EXCEPT ![a] = s]
                /\ MayTurn(a, s)
      BY <1>14, <1>t, <2>1, HandleFacts DEF StopReady
    <2>3. \E w : worker' = [worker EXCEPT ![a] = w]
      BY <1>14, <1>t, HandleFacts DEF StopReady
    <2>4. \E pc \in {"stopJoin"} : Goto(a, t, pc)
      BY <1>14 DEF StopReady
    <2>5. UNCHANGED <<serverVars, wire, attempt, fence>>
      BY <1>14 DEF StopReady
    <2> QED BY <1>t, <2>1, <2>2, <2>3, <2>4, <2>5, HandleMoves
  <1>15. CASE StopJoin(a, t)
    <2>1. attempt[a] = "handle" /\ Quiet(a, t)
      BY <1>15, <1>t, HandleFacts DEF StopJoin
    <2>2. \E s : /\ state' = [state EXCEPT ![a] = s]
                /\ MayTurn(a, s)
      BY <1>15, <1>t, <2>1, HandleFacts DEF StopJoin
    <2>3. \E w : worker' = [worker EXCEPT ![a] = w]
      BY <1>15, <1>t, HandleFacts DEF StopJoin
    <2>4. \E pc \in {"relCheck", "idle"} : Goto(a, t, pc)
      BY <1>15 DEF StopJoin
    <2>5. UNCHANGED <<serverVars, wire, attempt, fence>>
      BY <1>15 DEF StopJoin
    <2> QED BY <1>t, <2>1, <2>2, <2>3, <2>4, <2>5, HandleMoves
  <1>16. CASE StopExpires(a, t)
    <2>1. attempt[a] = "handle" /\ Quiet(a, t)
      BY <1>16, <1>t, HandleFacts DEF StopExpires
    <2>2. \E s : /\ state' = [state EXCEPT ![a] = s]
                /\ MayTurn(a, s)
      <3>1. state' = [state EXCEPT ![a] = "UNKNOWN"]
        BY <1>16 DEF StopExpires
      <3>2. MayTurn(a, "UNKNOWN")
        BY DEF MayTurn
      <3> QED BY <3>1, <3>2, Zenon
    <2>3. \E w : worker' = [worker EXCEPT ![a] = w]
      BY <1>16, <1>t, HandleFacts DEF StopExpires
    <2>4. \E pc \in {"idle"} : Goto(a, t, pc)
      BY <1>16 DEF StopExpires
    <2>5. UNCHANGED <<serverVars, wire, attempt, fence>>
      BY <1>16 DEF StopExpires
    <2> QED BY <1>t, <2>1, <2>2, <2>3, <2>4, <2>5, HandleMoves
  <1>17. CASE ReleaseCheck(a, t)
    <2>1. attempt[a] = "handle" /\ Quiet(a, t)
      BY <1>17, <1>t, HandleFacts DEF ReleaseCheck
    <2>2. \E s : /\ state' = [state EXCEPT ![a] = s]
                /\ MayTurn(a, s)
      BY <1>17, <1>t, <2>1, HandleFacts DEF ReleaseCheck
    <2>3. \E w : worker' = [worker EXCEPT ![a] = w]
      BY <1>17, <1>t, HandleFacts DEF ReleaseCheck
    <2>4. UNCHANGED <<serverVars, attempt, fence, worker>>
      BY <1>17 DEF ReleaseCheck
    <2>5. CASE wire' = wire /\ \E pc \in {"idle"} : Goto(a, t, pc)
      BY <1>t, <2>1, <2>2, <2>3, <2>4, <2>5, HandleMoves
    <2>6. CASE SendRelease(a, t, "release")
      <3>1. fence[a] \in Nat /\ minLeft[a] \in Nat
        BY <1>t, HandleFacts
      <3>2. PICK s : /\ state' = [state EXCEPT ![a] = s]
                     /\ MayTurn(a, s)
        BY <2>2
      <3>3. Call(a, t, "release", "release", fence[a], minLeft[a])
        BY <2>6 DEF SendRelease
      <3>4. Expects("release", "release")
        BY DEF Expects
      <3> QED BY <1>t, <2>1, <2>4, <3>1, <3>2, <3>3, <3>4, HandleCalls
    <2> QED BY <1>17, <2>5, <2>6 DEF ReleaseCheck
  <1>18. CASE ReleaseReply(a, t)
    <2>1. attempt[a] = "handle" /\ Quiet(a, t)
      BY <1>18, <1>t, HandleFacts DEF ReleaseReply
    <2>2. \E s : /\ state' = [state EXCEPT ![a] = s]
                /\ MayTurn(a, s)
      BY <1>18, <1>t, <2>1, HandleFacts DEF ReleaseReply
    <2>3. \E w : worker' = [worker EXCEPT ![a] = w]
      BY <1>18, <1>t, HandleFacts DEF ReleaseReply
    <2>4. UNCHANGED <<serverVars, attempt, fence, worker>>
      BY <1>18 DEF ReleaseReply
    <2>5. CASE wire' = wire /\ \E pc \in {"idle"} : Goto(a, t, pc)
      BY <1>t, <2>1, <2>2, <2>3, <2>4, <2>5, HandleMoves
    <2>6. CASE Call(a, t, "reconcileRelease", "reconcile", 0, 0)
      <3>1. fence[a] \in Nat /\ minLeft[a] \in Nat
        BY <1>t, HandleFacts
      <3> QED BY <1>t, <2>1, <2>2, <2>4, <2>6, <3>1, HandleCalls DEF SendRelease, Expects
    <2> QED BY <1>18, <2>5, <2>6 DEF ReleaseReply
  <1>19. CASE ReconcileRelease(a, t)
    <2>1. attempt[a] = "handle" /\ Quiet(a, t)
      BY <1>19, <1>t, HandleFacts DEF ReconcileRelease
    <2>2. \E s : /\ state' = [state EXCEPT ![a] = s]
                /\ MayTurn(a, s)
      <3>1. CASE state' = state
        BY <1>t, <2>1, <3>1, HandleFacts
      <3>2. CASE state' = [state EXCEPT ![a] = "UNKNOWN"]
        <4>1. MayTurn(a, "UNKNOWN")
          BY DEF MayTurn
        <4> QED BY <3>2, <4>1, Zenon
      <3>3. CASE /\ state' = [state EXCEPT ![a] = "LOST"]
                 /\ Status(a, t) = "PRESENT" /\ op[a][t].reply.owner # a
                 /\ state[a] \notin Terminal
        <4>1. ~Held(a)
          BY <1>19, <1>t, <3>3 DEF ReconcileRelease, LossInv, Base
        <4>2. MayTurn(a, "LOST")
          BY <3>3, <4>1 DEF MayTurn
        <4> QED BY <3>3, <4>2, Zenon
      <3> QED BY <1>19, <3>1, <3>2, <3>3 DEF ReconcileRelease
    <2>3. \E w : worker' = [worker EXCEPT ![a] = w]
      BY <1>19, <1>t, HandleFacts DEF ReconcileRelease
    <2>4. UNCHANGED <<serverVars, attempt, fence, worker>>
      BY <1>19 DEF ReconcileRelease
    <2>5. CASE wire' = wire /\ \E pc \in {"idle"} : Goto(a, t, pc)
      BY <1>t, <2>1, <2>2, <2>3, <2>4, <2>5, HandleMoves
    <2>6. CASE SendRelease(a, t, "repeatRelease")
      <3>1. fence[a] \in Nat /\ minLeft[a] \in Nat
        BY <1>t, HandleFacts
      <3>2. PICK s : /\ state' = [state EXCEPT ![a] = s]
                     /\ MayTurn(a, s)
        BY <2>2
      <3>3. Call(a, t, "repeatRelease", "release", fence[a], minLeft[a])
        BY <2>6 DEF SendRelease
      <3>4. Expects("repeatRelease", "release")
        BY DEF Expects
      <3> QED BY <1>t, <2>1, <2>4, <3>1, <3>2, <3>3, <3>4, HandleCalls
    <2> QED BY <1>19, <2>5, <2>6 DEF ReconcileRelease
  <1> QED BY <1>1, <1>2, <1>3, <1>4, <1>5, <1>6, <1>7, <1>8, <1>9, <1>10, <1>11,
             <1>12, <1>13, <1>14, <1>15, <1>16, <1>17, <1>18, <1>19 DEF ThreadStep

(* The steps of the renewal worker that use the network are local too.     *)
LEMMA WorkerLocal ==
    ASSUME Base, NEW a \in Attempts,
           \/ WorkerWakes(a) /\ ~UNCHANGED op
           \/ WorkerReply(a)
    PROVE  Local(a, Worker)
  <1> USE TimeAssumption
      DEF At, Replied, Places, Points, IoPoints, Kinds, AcquirePoints
  <1>t. Worker \in Threads
    BY DEF Threads
  <1>1. CASE WorkerWakes(a) /\ ~UNCHANGED op
    <2>1. attempt[a] = "handle"
      BY <1>1, <1>t DEF WorkerWakes, Base, ControlInv
    <2>2. Quiet(a, Worker) /\ fence[a] \in Nat
      BY <1>1, <1>t, HandleFacts DEF WorkerWakes
    <2>3. /\ Call(a, Worker, "renew", "renew", fence[a], LeaseTime)
          /\ UNCHANGED <<serverVars, attempt, fence, worker, state>>
      BY <1>1 DEF WorkerWakes
    <2>4. PICK s : /\ state' = [state EXCEPT ![a] = s]
                   /\ MayTurn(a, s)
      BY <1>t, <2>1, <2>3, HandleFacts
    <2> QED BY <1>t, <2>1, <2>2, <2>3, <2>4, HandleCalls DEF Expects
  <1>2. CASE WorkerReply(a)
    <2>1. attempt[a] = "handle" /\ Quiet(a, Worker)
      BY <1>2, <1>t, HandleFacts DEF WorkerReply
    <2>2. \E s : /\ state' = [state EXCEPT ![a] = s]
                 /\ MayTurn(a, s)
      BY <1>2, <1>t, <2>1, HandleFacts DEF WorkerReply
    <2>3. \E w : worker' = [worker EXCEPT ![a] = w]
      BY <1>2, <1>t, HandleFacts DEF WorkerReply, Leaves
    <2>4. Goto(a, Worker, "idle") /\ UNCHANGED <<serverVars, wire, attempt, fence>>
      BY <1>2 DEF WorkerReply
    <2> QED BY <1>t, <2>1, <2>2, <2>3, <2>4, HandleMoves
  <1> QED BY <1>1, <1>2

(* Nothing the invariant mentions changes but the life of a worker.        *)
Rests ==
    /\ UNCHANGED <<serverVars, wire, op, attempt, state, fence>>
    /\ \A a \in Attempts : worker'[a] # "none" => worker[a] # "none"

\* The threads T of a stop waiting: what they sent is lost or is executed
\* for nobody, and they learn nothing about the lease.  A task may turn to
\* wait for another task, and the cleanup task begins.
Drops(a, T) ==
    /\ UNCHANGED <<serverVars, fence>>
    /\ \A r \in wire' :
          \/ r \in wire /\ (r.token # a \/ r.from \notin T)
          \/ \E q \in wire : /\ q.token = a /\ q.from \in T
                             /\ r = [q EXCEPT !.from = Nobody]
    /\ \A b \in Attempts, u \in Threads :
          \/ op'[b][u] = op[b][u]
          \/ /\ b = a /\ u \in T
             /\ \/ op'[b][u].pc \in {op[b][u].pc, "idle"}
                \/ /\ op'[b][u].pc \in Waits \cup {"relCheck"}
                   /\ attempt[a] = "handle" /\ attempt'[a] = "handle"
             /\ op'[b][u].reply.status \in {"NONE", "UNCERTAIN", "ERROR"}
    /\ \A b \in Attempts \ {a} : /\ attempt'[b] = attempt[b]
                                 /\ state'[b] = state[b]
                                 /\ worker'[b] = worker[b]
    /\ \/ state'[a] = state[a]
       \/ state'[a] = "UNKNOWN" /\ attempt[a] = "handle"
    /\ \/ attempt'[a] = attempt[a] /\ (worker'[a] # "none" => attempt[a] = "handle")
       \/ /\ attempt'[a] \in {"crashed", "error"} /\ worker'[a] = "none"
          /\ attempt'[a] = "error" => state'[a] = "NONE"
          /\ \A u \in Threads : op'[a][u].pc = "idle"

(* A call that is given up.                                                *)
LEMMA NetworkDrops ==
    ASSUME Base, NEW a \in Attempts, NEW t \in Threads, NetworkStep(a, t)
    PROVE  Drops(a, {t})
  <1>1. PICK s \in {"UNCERTAIN", "ERROR"} :
          op' = [op EXCEPT ![a][t] = [pc |-> op[a][t].pc, reply |-> Reply(s)]]
    BY DEF NetworkStep, TimeOut, Refuse, Base, Typed, Fits
  <1>2. [pc |-> op[a][t].pc, reply |-> Reply(s)] \in Spots /\ Reply(s).status = s
    BY ReplyType DEF Base, Typed, Fits, Spots, Statuses
  <1>3. /\ op'[a][t] = [pc |-> op[a][t].pc, reply |-> Reply(s)]
        /\ \A b \in Attempts, u \in Threads :
              b # a \/ u # t => op'[b][u] = op[b][u]
    BY <1>1, <1>2, OpUpdate DEF Base, Typed, Fits, Spots
  <1>4. \A r \in wire' :
          \/ r \in wire /\ (r.token # a \/ r.from \notin {t})
          \/ \E q \in wire : /\ q.token = a /\ q.from \in {t}
                             /\ r = [q EXCEPT !.from = Nobody]
    BY DEF NetworkStep, TimeOut, Refuse, CallsOf, Orphaned
  <1>5. UNCHANGED <<serverVars, handleVars>>
    BY DEF NetworkStep, TimeOut, Refuse
  <1>6. \A b \in Attempts : /\ attempt'[b] = attempt[b] /\ state'[b] = state[b]
                            /\ worker'[b] = worker[b]
    BY <1>5 DEF handleVars
  <1>7. worker[a] # "none" => attempt[a] = "handle"
    BY DEF Base, ControlInv
  <1>8. \A b \in Attempts, u \in Threads :
          \/ op'[b][u] = op[b][u]
          \/ /\ b = a /\ u \in {t}
             /\ op'[b][u].pc \in {op[b][u].pc, "idle"}
             /\ op'[b][u].reply.status \in {"NONE", "UNCERTAIN", "ERROR"}
    BY <1>2, <1>3
  <1>9. UNCHANGED <<serverVars, fence>>
    BY <1>5 DEF handleVars
  <1> QED BY <1>4, <1>6, <1>7, <1>8, <1>9 DEF Drops

(* A worker that dies in its call.                                         *)
LEMMA WorkerCrashDrops ==
    ASSUME Base, NEW a \in Attempts, WorkerCrash(a)
    PROVE  Drops(a, {Worker})
  <1>t. Worker \in Threads
    BY DEF Threads
  <1>1. Moves(a, Worker, "idle")
    BY <1>t, GotoMoves DEF WorkerCrash, Base, Places, Points
  <1>2. NoReply.status = "NONE"
    BY DEF NoReply, Reply
  <1>3. \A r \in wire' :
          \/ r \in wire /\ (r.token # a \/ r.from \notin {Worker})
          \/ \E q \in wire : /\ q.token = a /\ q.from \in {Worker}
                             /\ r = [q EXCEPT !.from = Nobody]
    BY DEF WorkerCrash, CallsOf, Orphaned
  <1>4. attempt[a] = "handle"
    BY <1>t, HandleFacts DEF WorkerCrash, At, AcquirePoints
  <1>5. /\ state'[a] = "UNKNOWN"
        /\ \A b \in Attempts \ {a} : state'[b] = state[b] /\ worker'[b] = worker[b]
    BY DEF WorkerCrash, Leaves, Base, Typed, Fits
  <1> QED BY <1>1, <1>2, <1>3, <1>4, <1>5 DEF Drops, Moves, WorkerCrash

(* A process that dies.                                                    *)
LEMMA CrashDrops ==
    ASSUME Base, NEW a \in Attempts, Crash(a)
    PROVE  Drops(a, Threads)
  <1>1. /\ \A u \in Threads : op'[a][u] = [pc |-> "idle", reply |-> NoReply]
        /\ \A b \in Attempts \ {a} : op'[b] = op[b]
    BY DEF Crash, Base, Typed, Fits
  <1>2. NoReply.status = "NONE"
    BY DEF NoReply, Reply
  <1>3. ASSUME NEW r \in wire'
        PROVE  \/ r \in wire /\ (r.token # a \/ r.from \notin Threads)
               \/ \E q \in wire : /\ q.token = a /\ q.from \in Threads
                                  /\ r = [q EXCEPT !.from = Nobody]
    <2>1. CASE r \in wire /\ r.token # a
      BY <2>1
    <2>2. CASE \E q \in wire : q.token = a /\ r = [q EXCEPT !.from = Nobody]
      <3>1. PICK q \in wire : q.token = a /\ r = [q EXCEPT !.from = Nobody]
        BY <2>2
      <3>2. q \in Requests
        BY DEF Base, Typed, Fits
      <3>3. CASE q.from = Nobody
        <4>1. r = q
          BY <3>1, <3>2, <3>3 DEF Requests
        <4>2. Nobody \notin Threads
          BY NameAssumption DEF Threads
        <4> QED BY <3>1, <3>3, <4>1, <4>2
      <3>4. CASE q.from \in Threads
        BY <3>1, <3>4
      <3> QED BY <3>2, <3>3, <3>4 DEF Requests
    <2> QED BY <2>1, <2>2 DEF Crash, Orphaned
  <1>4. /\ attempt'[a] = "crashed" /\ worker'[a] = "none"
        /\ \A b \in Attempts \ {a} :
              attempt'[b] = attempt[b] /\ worker'[b] = worker[b]
    BY DEF Crash, Base, Typed, Fits
  <1>5. UNCHANGED <<serverVars, fence, state>>
    BY DEF Crash
  <1>6. \A b \in Attempts, u \in Threads :
          \/ op'[b][u] = op[b][u]
          \/ /\ b = a /\ u \in Threads
             /\ op'[b][u].pc \in {op[b][u].pc, "idle"}
             /\ op'[b][u].reply.status \in {"NONE", "UNCERTAIN", "ERROR"}
    BY <1>1, <1>2
  <1>7. \A u \in Threads : op'[a][u].pc = "idle"
    BY <1>1
  <1> QED BY <1>3, <1>4, <1>5, <1>6, <1>7 DEF Drops

\* The server executed r: the call is gone and its thread, if there still is
\* one, has the reply.
Answered(r, reply) ==
    /\ wire' = wire \ {r}
    /\ \A b \in Attempts, u \in Threads :
          \/ op'[b][u] = op[b][u]
          \/ /\ b = r.token /\ u = r.from
             /\ op'[b][u] = [pc |-> op[b][u].pc, reply |-> reply]

(* The server answers the caller and nobody else.                          *)
LEMMA AnswerFrame ==
    ASSUME Typed, NEW r \in wire, NEW reply \in Replies, Answer(r, reply)
    PROVE  Answered(r, reply)
  <1>1. CASE r.from = Nobody
    BY <1>1 DEF Answer, Answered
  <1>2. CASE r.from # Nobody
    <2>1. r.token \in Attempts /\ r.from \in Threads
      BY <1>2 DEF Typed, Fits, Requests
    <2>2. [pc |-> op[r.token][r.from].pc, reply |-> reply] \in Spots
      BY <2>1 DEF Typed, Fits, Spots
    <2>3. op' = [op EXCEPT ![r.token][r.from] =
                   [pc |-> op[r.token][r.from].pc, reply |-> reply]]
      BY <1>2, <2>1 DEF Answer, Typed, Fits
    <2>4. /\ op'[r.token][r.from] = [pc |-> op[r.token][r.from].pc, reply |-> reply]
          /\ \A b \in Attempts, u \in Threads :
                b # r.token \/ u # r.from => op'[b][u] = op[b][u]
      BY <2>1, <2>2, <2>3, OpUpdate DEF Typed, Fits, Spots
    <2> QED BY <2>1, <2>4 DEF Answered, Answer
  <1> QED BY <1>1, <1>2

\* What the keys of the lock go through when r is executed, or on their own.
Grants(r) ==
    /\ r.kind = "acquire"
    /\ ~AcquireCorrupt /\ ~LeasePresent
    /\ lease'.owner = r.token /\ lease'.fence = counter + 1
    /\ counter' = counter + 1 /\ history'
    /\ grant' = [grant EXCEPT ![r.token] = counter + 1]

Keeps ==
    \/ lease'.owner \notin Attempts
    \/ /\ lease'.owner = lease.owner /\ lease'.fence = lease.fence
       /\ lease'.ttl > 0 => lease.ttl > 0

\* What a reply says about the keys.
Tells(r, reply) ==
    /\ reply.status = "ACQUIRED" =>
          Grants(r) /\ reply.fence = counter + 1
    /\ reply.status = "CONTENDED" => r.kind = "acquire" /\ UNCHANGED grant
    /\ reply.status = "PRESENT" =>
          /\ lease.owner \in Attempts /\ UNCHANGED grant
          /\ reply.owner = lease.owner /\ reply.fence = lease.fence
    /\ reply.status = "NOT_HELD" =>
          r.kind \in {"renew", "probe", "release"} /\ ~Owns(r)

ServedAs(r, reply) ==
    /\ Answered(r, reply)
    /\ Tells(r, reply)
    /\ \/ Grants(r)
       \/ Keeps /\ UNCHANGED <<counter, history, grant>>
    /\ UNCHANGED <<attempt, state, fence, worker>>

(* Every script fits that description.                                     *)
LEMMA ServeFrame ==
    ASSUME Typed, NEW r \in wire, Serve(r)
    PROVE  \E reply \in Replies : ServedAs(r, reply)
  <1>0. /\ r \in Requests
        /\ lease \in [owner : Attempts \cup {Nobody, Foreign}, fence : Nat, ttl : Nat]
        /\ UNCHANGED <<attempt, state, fence, worker>>
    BY DEF Typed, Fits, Serve, handleVars
  <1>1. CASE ServeGrant(r)
    <2> DEFINE reply == [status |-> "ACQUIRED", owner |-> r.token, fence |-> counter + 1]
    <2>1. reply \in Replies
      BY <1>0 DEF Typed, Fits, Requests, Replies, Statuses
    <2>2. Answered(r, reply)
      BY <1>1, <2>1, AnswerFrame DEF ServeGrant
    <2>3. Grants(r)
      BY <1>1 DEF ServeGrant, Grants
    <2>4. Tells(r, reply)
      BY <2>3 DEF Tells
    <2> QED BY <1>0, <2>1, <2>2, <2>3, <2>4 DEF ServedAs
  <1>2. CASE ServeNoGrant(r)
    <2>1. PICK st \in {"CORRUPT", "CONTENDED"} : Answer(r, Reply(st))
      BY <1>2 DEF ServeNoGrant
    <2>2. Reply(st) \in Replies /\ Reply(st).status = st
      BY ReplyType DEF Statuses
    <2>3. Answered(r, Reply(st))
      BY <2>1, <2>2, AnswerFrame
    <2>4. Tells(r, Reply(st))
      BY <1>2, <2>2 DEF Tells, ServeNoGrant, serverVars
    <2>5. Keeps /\ UNCHANGED <<counter, history, grant>>
      BY <1>2 DEF Keeps, ServeNoGrant, serverVars
    <2> QED BY <1>0, <2>2, <2>3, <2>4, <2>5 DEF ServedAs
  <1>3. CASE ServeRenew(r)
    <2>1. PICK st \in {"RENEWED", "CORRUPT", "NOT_HELD"} :
            Answer(r, Reply(st)) /\ (st = "NOT_HELD" => ~Owns(r))
      BY <1>3 DEF ServeRenew, NotOwned
    <2>2. Reply(st) \in Replies /\ Reply(st).status = st
      BY ReplyType DEF Statuses
    <2>3. Answered(r, Reply(st))
      BY <2>1, <2>2, AnswerFrame
    <2>4. Tells(r, Reply(st))
      BY <1>3, <2>1, <2>2 DEF Tells, ServeRenew
    <2>5. Keeps
      BY <1>0, <1>3 DEF Keeps, ServeRenew, Owns, Held, Requests
    <2> QED BY <1>0, <1>3, <2>2, <2>3, <2>4, <2>5 DEF ServedAs, ServeRenew
  <1>4. CASE ServeProbe(r)
    <2>1. PICK st \in {"HELD", "CORRUPT", "NOT_HELD"} :
            Answer(r, Reply(st)) /\ (st = "NOT_HELD" => ~Owns(r))
      BY <1>4 DEF ServeProbe, NotOwned
    <2>2. Reply(st) \in Replies /\ Reply(st).status = st
      BY ReplyType DEF Statuses
    <2>3. Answered(r, Reply(st))
      BY <2>1, <2>2, AnswerFrame
    <2>4. Tells(r, Reply(st))
      BY <1>4, <2>1, <2>2 DEF Tells, ServeProbe
    <2>5. Keeps /\ UNCHANGED <<counter, history, grant>>
      BY <1>4 DEF Keeps, ServeProbe, serverVars
    <2> QED BY <1>0, <2>2, <2>3, <2>4, <2>5 DEF ServedAs
  <1>5. CASE ServeReconcile(r)
    <2>0. UNCHANGED <<lease, counter, history, grant>>
      BY <1>5 DEF ServeReconcile, serverVars
    <2>1. PICK reply \in Replies :
            /\ Answer(r, reply)
            /\ reply.status \in {"CORRUPT", "ABSENT", "PRESENT"}
            /\ reply.status = "PRESENT" =>
                  /\ lease.owner \in Attempts
                  /\ reply.owner = lease.owner /\ reply.fence = lease.fence
      <3>1. CASE lease.owner = Foreign
        BY <1>5, <3>1, ReplyType DEF ServeReconcile, Statuses
      <3>2. CASE lease.owner # Foreign /\ LeasePresent /\ lease.ttl > 0
        <4>1. [status |-> "PRESENT", owner |-> lease.owner, fence |-> lease.fence] \in Replies
          BY <1>0, <3>2 DEF Replies, Statuses, LeasePresent
        <4> QED BY <1>0, <1>5, <3>2, <4>1 DEF ServeReconcile, LeasePresent
      <3>3. CASE lease.owner # Foreign /\ ~(LeasePresent /\ lease.ttl > 0)
        BY <1>5, <3>3, ReplyType DEF ServeReconcile, Statuses
      <3> QED BY <3>1, <3>2, <3>3
    <2>2. Answered(r, reply)
      BY <2>1, AnswerFrame
    <2>3. Tells(r, reply)
      BY <2>0, <2>1 DEF Tells
    <2>4. Keeps
      BY <2>0 DEF Keeps
    <2> QED BY <1>0, <2>0, <2>1, <2>2, <2>3, <2>4 DEF ServedAs
  <1>6. CASE ServeRelease(r)
    <2>1. PICK st \in {"DELETED", "MIN_TTL_APPLIED", "CORRUPT", "NOT_HELD"} :
            Answer(r, Reply(st)) /\ (st = "NOT_HELD" => ~Owns(r))
      BY <1>6 DEF ServeRelease, NotOwned
    <2>2. Reply(st) \in Replies /\ Reply(st).status = st
      BY ReplyType DEF Statuses
    <2>3. Answered(r, Reply(st))
      BY <2>1, <2>2, AnswerFrame
    <2>4. Tells(r, Reply(st))
      BY <1>6, <2>1, <2>2 DEF Tells, ServeRelease
    <2>5. Keeps
      BY <1>0, <1>6, NameAssumption DEF Keeps, ServeRelease, Owns, Held, Requests, NoLease
    <2> QED BY <1>0, <1>6, <2>2, <2>3, <2>4, <2>5 DEF ServedAs, ServeRelease
  <1> QED BY <1>1, <1>2, <1>3, <1>4, <1>5, <1>6 DEF Serve

\* The keys change without the clients.
Fades ==
    /\ Keeps
    /\ UNCHANGED <<grant, wire, op, attempt, state, fence, worker>>
    /\ \/ UNCHANGED <<counter, history>>
       \/ /\ counter > 0 /\ history
          /\ \/ counter' = 0 /\ history' = history
             \/ counter' = counter /\ ~history'

(* Time, and the faults of the server, only take away.                     *)
LEMMA FadeFrame ==
    ASSUME Typed, Tick \/ LoseKey \/ Overwrite
    PROVE  Fades
  <1>0. lease \in [owner : Attempts \cup {Nobody, Foreign}, fence : Nat, ttl : Nat]
    BY DEF Typed, Fits
  <1>1. CASE Tick
    BY <1>0, <1>1, NameAssumption DEF Tick, Fades, Keeps, NoLease, handleVars
  <1>2. CASE LoseKey
    <2>1. Keeps
      BY <1>2 DEF LoseKey, Keeps
    <2> QED BY <1>2, <2>1, Zenon DEF LoseKey, Fades, handleVars
  <1>3. CASE Overwrite
    BY <1>3, NameAssumption DEF Overwrite, Fades, Keeps, handleVars
  <1> QED BY <1>1, <1>2, <1>3

Frame ==
    \/ \E a \in Attempts, t \in Threads : Local(a, t)
    \/ \E a \in Attempts, T \in SUBSET Threads : Drops(a, T)
    \/ \E r \in wire, reply \in Replies : ServedAs(r, reply)
    \/ Fades
    \/ Rests

(* Every step of the specification is of one of the five kinds.            *)
LEMMA StepFrame ==
    ASSUME Base, [Next]_vars
    PROVE  Frame
  <1>0. Typed /\ UserThreads \subseteq Threads /\ Worker \in Threads
    BY DEF Base, Threads
  <1>1. ASSUME NEW r \in wire, Serve(r)
        PROVE  Frame
    BY <1>0, <1>1, ServeFrame DEF Frame
  <1>2. ASSUME NEW a \in Attempts, NEW t \in UserThreads, ThreadStep(a, t)
        PROVE  Frame
    BY <1>0, <1>2, LocalStep DEF Frame
  <1>3. ASSUME NEW a \in Attempts, WorkerStep(a)
        PROVE  Frame
    <2>1. CASE WorkerReply(a) \/ (WorkerWakes(a) /\ ~UNCHANGED op)
      BY <1>0, <2>1, WorkerLocal DEF Frame
    <2>2. CASE WorkerWakes(a) /\ UNCHANGED op
      <3>1. UNCHANGED <<wire, serverVars, attempt, state, fence>>
        <4>1. CASE Leaves(a) /\ UNCHANGED <<wire, op>>
          BY <2>2, <4>1 DEF WorkerWakes
        <4>2. CASE Call(a, Worker, "renew", "renew", fence[a], LeaseTime)
          <5>1. Moves(a, Worker, "renew")
            <6>1. Goto(a, Worker, "renew")
              BY <4>2 DEF Call, Goto
            <6> QED BY <1>0, <6>1, GotoMoves DEF Places, Points, IoPoints
          <5> QED BY <2>2, <5>1 DEF Moves, WorkerWakes, At
        <4> QED BY <2>2, <4>1, <4>2 DEF WorkerWakes
      <3>2. worker[a] # "none"
        BY <2>2 DEF WorkerWakes
      <3>3. \A b \in Attempts \ {a} : worker'[b] = worker[b]
        BY <1>0, <2>2 DEF WorkerWakes, Leaves, Typed, Fits
      <3> QED BY <2>2, <3>1, <3>2, <3>3 DEF Rests, Frame
    <2>3. CASE WorkerCrash(a)
      BY <1>0, <2>3, WorkerCrashDrops DEF Frame
    <2> QED BY <1>3, <2>1, <2>2, <2>3 DEF WorkerStep
  <1>4. ASSUME NEW a \in Attempts, NEW t \in Threads, NetworkStep(a, t)
        PROVE  Frame
    BY <1>4, NetworkDrops DEF Frame
  <1>5. ASSUME NEW a \in Attempts, Crash(a)
        PROVE  Frame
    BY <1>5, CrashDrops DEF Frame
  <1>6. CASE Tick \/ LoseKey \/ Overwrite
    BY <1>0, <1>6, FadeFrame DEF Frame
  <1>7. CASE UNCHANGED vars
    BY <1>7 DEF Frame, Rests, vars, serverVars, handleVars
  <1> QED BY <1>1, <1>2, <1>3, <1>4, <1>5, <1>6, <1>7, NameAssumption DEF Next

-----------------------------------------------------------------------------
(* Each part of the invariant, kind of step by kind of step.               *)

(* A thread still waits for at most one call.                              *)
LEMMA WireStep ==
    ASSUME Base, Frame, Typed'
    PROVE  WireInv'
  <1> USE DEF Status
  <1>0. /\ Typed /\ WireInv /\ Nobody \notin Threads
        /\ \A r \in wire : r.token \in Attempts /\ r.from \in Threads \cup {Nobody}
        /\ \A r \in wire' : r.token \in Attempts /\ r.from \in Threads \cup {Nobody}
    BY NameAssumption DEF Base, Threads, Typed, Fits, Requests
  <1>n. NoReply.status = "NONE"
    BY DEF NoReply, Reply
  <1>1. ASSUME NEW a \in Attempts, NEW t \in Threads, Local(a, t)
        PROVE  WireInv'
    <2>1. PICK pc \in Places : Moves(a, t, pc) /\ Sends(a, t, pc)
      BY <1>1 DEF Local
    <2>2. Quiet(a, t)
      BY <1>1 DEF Local
    <2>3. ASSUME NEW r \in wire', r.from # Nobody
          PROVE  /\ Expects(op'[r.token][r.from].pc, r.kind)
                 /\ op'[r.token][r.from].reply.status = "NONE"
      <3>1. CASE r \in wire
        BY <1>0, <2>1, <2>2, <2>3, <3>1 DEF Quiet, Moves, WireInv
      <3>2. CASE r \notin wire
        BY <1>n, <2>1, <2>3, <3>2 DEF Moves, Sends
      <3> QED BY <3>1, <3>2
    <2>4. ASSUME NEW r \in wire', NEW q \in wire', r.from # Nobody,
                 r.token = q.token, r.from = q.from
          PROVE  r = q
      BY <2>1, <2>2, <2>4, <1>0 DEF Quiet, Sends, WireInv
    <2> QED BY <2>3, <2>4 DEF WireInv
  <1>2. ASSUME NEW a \in Attempts, NEW T \in SUBSET Threads, Drops(a, T)
        PROVE  WireInv'
    <2>1. ASSUME NEW r \in wire', r.from # Nobody
          PROVE  r \in wire /\ op'[r.token][r.from] = op[r.token][r.from]
      <3>1. CASE r \in wire /\ (r.token # a \/ r.from \notin T)
        BY <1>0, <1>2, <2>1, <3>1 DEF Drops
      <3>2. ASSUME NEW q \in wire, r = [q EXCEPT !.from = Nobody]
            PROVE  FALSE
        <4>1. q \in Requests
          BY <1>0 DEF Typed, Fits
        <4> QED BY <2>1, <3>2, <4>1 DEF Requests
      <3> QED BY <1>2, <3>1, <3>2 DEF Drops
    <2> QED BY <1>0, <2>1 DEF WireInv
  <1>3. ASSUME NEW r \in wire, NEW reply \in Replies, ServedAs(r, reply)
        PROVE  WireInv'
    <2>1. ASSUME NEW q \in wire', q.from # Nobody
          PROVE  q \in wire /\ op'[q.token][q.from] = op[q.token][q.from]
      BY <1>0, <1>3, <2>1 DEF ServedAs, Answered, WireInv
    <2> QED BY <1>0, <2>1 DEF WireInv
  <1>4. CASE Fades \/ Rests
    BY <1>0, <1>4 DEF Fades, Rests, WireInv
  <1> QED BY <1>1, <1>2, <1>3, <1>4 DEF Frame

(* try_acquire still runs in one thread, before there is a handle.         *)
LEMMA ControlStep ==
    ASSUME Base, Frame, Typed'
    PROVE  ControlInv'
  <1> USE DEF At
  <1>1. ASSUME NEW a \in Attempts, NEW t \in Threads, Local(a, t)
        PROVE  ControlInv'
    <2>1. PICK pc \in Places : Moves(a, t, pc) /\ Flows(a, t, pc)
      BY <1>1 DEF Local
    <2>2. op'[a][t].pc = pc
      BY <2>1 DEF Moves
    <2> SUFFICES ASSUME NEW b \in Attempts, NEW u \in Threads
                 PROVE  /\ op'[b][u].pc \in AcquirePoints => attempt'[b] = "running"
                        /\ op'[b][u].pc \notin AcquirePoints \cup {"idle"} =>
                              attempt'[b] = "handle"
                        /\ worker'[b] # "none" => attempt'[b] = "handle"
                        /\ \A v \in Threads :
                              /\ attempt'[b] = "running"
                              /\ op'[b][u].pc # "idle" /\ op'[b][v].pc # "idle"
                              => u = v
      BY DEF ControlInv
    <2>3. CASE b # a
      BY <2>1, <2>3 DEF Moves, Flows, Base, ControlInv
    <2>4. CASE b = a
      <3>1. ASSUME NEW v \in Threads, v # t, op[a][v].pc # "idle"
            PROVE  /\ attempt'[a] = attempt[a]
                   /\ attempt[a] = "running" => op'[a][t].pc = "idle"
        BY <2>1, <2>2, <3>1 DEF Flows, Base, ControlInv, AcquirePoints
      <3>2. \A v \in Threads \ {t} : op'[a][v] = op[a][v]
        BY <2>1 DEF Moves
      <3>3. worker'[a] # "none" => attempt'[a] = "handle"
        BY <2>1 DEF Flows
      <3>4. /\ op'[a][t].pc \in AcquirePoints => attempt'[a] = "running"
            /\ op'[a][t].pc \notin AcquirePoints \cup {"idle"} => attempt'[a] = "handle"
        BY <2>1, <2>2 DEF Flows
      <3>5. ASSUME NEW v \in Threads \ {t}
            PROVE  /\ op'[a][v].pc \in AcquirePoints => attempt'[a] = "running"
                   /\ op'[a][v].pc \notin AcquirePoints \cup {"idle"} =>
                         attempt'[a] = "handle"
        BY <3>1, <3>2 DEF Base, ControlInv, AcquirePoints
      <3>6. ASSUME NEW v \in Threads, NEW w \in Threads, attempt'[a] = "running",
                   op'[a][v].pc # "idle", op'[a][w].pc # "idle"
            PROVE  v = w
        BY <3>1, <3>2, <3>6 DEF Base, ControlInv
      <3> QED BY <2>4, <3>3, <3>4, <3>5, <3>6
    <2> QED BY <2>3, <2>4
  <1>2. ASSUME NEW a \in Attempts, NEW T \in SUBSET Threads, Drops(a, T)
        PROVE  ControlInv'
    <2>1. \A b \in Attempts, u \in Threads :
             \/ op'[b][u].pc \in {op[b][u].pc, "idle"}
             \/ /\ op'[b][u].pc \notin AcquirePoints
                /\ attempt[b] = "handle" /\ attempt'[b] = "handle"
      BY <1>2 DEF Drops, Waits, AcquirePoints
    <2>2. ASSUME NEW b \in Attempts
          PROVE  \/ /\ attempt'[b] = attempt[b]
                    /\ worker'[b] # "none" => attempt[b] = "handle"
                 \/ worker'[b] = "none" /\ \A u \in Threads : op'[b][u].pc = "idle"
      <3>1. worker[b] # "none" => attempt[b] = "handle"
        <4>1. Worker \in Threads
          BY DEF Threads
        <4> QED BY <4>1 DEF Base, ControlInv
      <3> QED BY <1>2, <3>1 DEF Drops
    <2>3. "idle" \notin AcquirePoints
      BY DEF AcquirePoints
    <2> QED BY <2>1, <2>2, <2>3 DEF Base, ControlInv
  <1>3. ASSUME NEW r \in wire, NEW reply \in Replies, ServedAs(r, reply)
        PROVE  ControlInv'
    <2>1. ASSUME NEW b \in Attempts, NEW u \in Threads
          PROVE  op'[b][u].pc = op[b][u].pc
      <3>1. \/ op'[b][u] = op[b][u]
            \/ op'[b][u] = [pc |-> op[b][u].pc, reply |-> reply]
        BY <1>3 DEF ServedAs, Answered
      <3> QED BY <3>1
    <2> QED BY <1>3, <2>1 DEF ServedAs, Base, ControlInv
  <1>4. CASE Fades
    BY <1>4 DEF Fades, Base, ControlInv
  <1>5. CASE Rests
    BY <1>5 DEF Rests, Base, ControlInv
  <1> QED BY <1>1, <1>2, <1>3, <1>4, <1>5 DEF Frame

(* A call that is left on the wire was there before, with the same content. *)
LEMMA DropsKeep ==
    ASSUME Typed, NEW a \in Attempts, NEW T \in SUBSET Threads, Drops(a, T),
           NEW r \in wire'
    PROVE  \E q \in wire :
              /\ q.token = r.token /\ q.kind = r.kind /\ q.fence = r.fence
              /\ \/ r = q /\ (r.token # a \/ r.from \notin T)
                 \/ r = [q EXCEPT !.from = Nobody] /\ q.token = a /\ q.from \in T
  <1>1. CASE r \in wire /\ (r.token # a \/ r.from \notin T)
    BY <1>1
  <1>2. ASSUME NEW q \in wire, q.token = a, q.from \in T,
               r = [q EXCEPT !.from = Nobody]
        PROVE  q.token = r.token /\ q.kind = r.kind /\ q.fence = r.fence
    <2>1. q \in Requests
      BY DEF Typed, Fits
    <2> QED BY <1>2, <2>1 DEF Requests
  <1> QED BY <1>1, <1>2 DEF Drops

(* The server still grants at most once to a token.                        *)
LEMMA AcquireStep ==
    ASSUME Base, Frame, Typed'
    PROVE  AcquireInv'
  <1> USE DEF At, Status
  <1>0. /\ Typed /\ AcquireInv /\ WireInv
        /\ \A r \in wire : r.token \in Attempts /\ r.from \in Threads \cup {Nobody}
        /\ Nobody \notin Threads
    BY NameAssumption DEF Base, Typed, Fits, Requests, Threads
  <1>n. NoReply.status = "NONE"
    BY DEF NoReply, Reply
  <1>1. ASSUME NEW a \in Attempts, NEW t \in Threads, Local(a, t)
        PROVE  AcquireInv'
    <2>1. PICK pc \in Places : Moves(a, t, pc) /\ Sends(a, t, pc) /\ Flows(a, t, pc)
      BY <1>1 DEF Local
    <2>2. grant' = grant
      BY <1>1 DEF Local, serverVars
    <2>3. op'[a][t].pc = pc /\ op'[a][t].reply.status = "NONE"
      BY <1>n, <2>1 DEF Moves
    <2>4. ASSUME NEW r \in wire', r.kind = "acquire", r \notin wire
          PROVE  /\ r.token = a /\ wire' = wire \cup {r}
                 /\ grant[a] = 0 /\ NoAcquire(a)
                 /\ attempt[a] = "new" \/ op[a][t].pc = "sleep"
      BY <1>0, <2>1, <2>4 DEF Sends, AcquireInv
    <2>5. ASSUME NEW b \in Attempts,
                 ~\E r \in wire' : r.kind = "acquire" /\ r \notin wire /\ r.token = b,
                 NoAcquire(b)
          PROVE  NoAcquire(b)'
      BY <2>5 DEF NoAcquire
    <2>6. \A r \in wire' : r.kind = "acquire" => grant'[r.token] = 0
      BY <1>0, <2>2, <2>4 DEF AcquireInv
    <2>7. ASSUME NEW r \in wire', NEW q \in wire', r.kind = "acquire",
                 q.kind = "acquire", r.token = q.token
          PROVE  r = q
      BY <1>0, <2>4, <2>7 DEF AcquireInv, NoAcquire
    <2>8. ASSUME NEW b \in Attempts, attempt'[b] \in {"new", "none"}
          PROVE  grant'[b] = 0 /\ NoAcquire(b)'
      <3>1. CASE b # a
        BY <1>0, <2>1, <2>2, <2>4, <2>5, <2>8, <3>1 DEF Flows, AcquireInv
      <3>2. CASE b = a
        <4>1. wire' = wire /\ (op[a][t].pc = "sleep" \/ op[a][t].reply.status = "CONTENDED")
          BY <2>1, <2>8, <3>2 DEF Flows
        <4> QED BY <1>0, <2>2, <3>2, <4>1 DEF AcquireInv, NoAcquire
      <3> QED BY <3>1, <3>2
    <2>9. ASSUME NEW b \in Attempts, NEW u \in Threads,
                 op'[b][u].pc = "sleep" \/ op'[b][u].reply.status = "CONTENDED"
          PROVE  grant'[b] = 0 /\ NoAcquire(b)'
      <3>1. CASE b = a /\ u = t
        <4>1. wire' = wire /\ op[a][t].reply.status = "CONTENDED"
          BY <2>1, <2>3, <2>9, <3>1 DEF Flows
        <4> QED BY <1>0, <2>2, <3>1, <4>1 DEF AcquireInv, NoAcquire
      <3>2. CASE b # a \/ u # t
        <4>1. op'[b][u] = op[b][u]
          BY <2>1, <3>2 DEF Moves
        <4>2. grant[b] = 0 /\ NoAcquire(b)
          BY <1>0, <2>9, <4>1 DEF AcquireInv
        <4>3. op[b][u].pc \in AcquirePoints
          BY <1>0, <2>9, <4>1 DEF AcquireInv, AcquirePoints
        <4>4. attempt[b] = "running" /\ op[b][u].pc # "idle"
          BY <4>3 DEF Base, ControlInv, AcquirePoints
        <4>5. b = a => op[a][t].pc = "idle"
          BY <3>2, <4>4 DEF Base, ControlInv
        <4>6. ~\E r \in wire' : r.kind = "acquire" /\ r \notin wire /\ r.token = b
          BY <2>4, <4>4, <4>5
        <4> QED BY <2>2, <2>5, <4>2, <4>6
      <3> QED BY <3>1, <3>2
    <2>10. ASSUME NEW b \in Attempts, NEW u \in Threads,
                  op'[b][u].reply.status = "CONTENDED"
           PROVE  op'[b][u].pc = "acquire"
      BY <1>0, <2>1, <2>3, <2>10 DEF Moves, AcquireInv
    <2> QED BY <2>6, <2>7, <2>8, <2>9, <2>10 DEF AcquireInv
  <1>2. ASSUME NEW a \in Attempts, NEW T \in SUBSET Threads, Drops(a, T)
        PROVE  AcquireInv'
    <2>1. grant' = grant
      BY <1>2 DEF Drops, serverVars
    <2>2. \A r \in wire' : \E q \in wire :
              /\ q.token = r.token /\ q.kind = r.kind
              /\ \/ r = q /\ (r.token # a \/ r.from \notin T)
                 \/ r = [q EXCEPT !.from = Nobody] /\ q.token = a /\ q.from \in T
      BY <1>0, <1>2, DropsKeep
    <2>3. \A b \in Attempts : NoAcquire(b) => NoAcquire(b)'
      BY <2>2 DEF NoAcquire
    <2>4. \A r \in wire' : r.kind = "acquire" => grant'[r.token] = 0
      BY <1>0, <2>1, <2>2 DEF AcquireInv
    <2>5. ASSUME NEW r \in wire', NEW q \in wire', r.kind = "acquire",
                 q.kind = "acquire", r.token = q.token
          PROVE  r = q
      <3>1. PICK r0 \in wire :
              /\ r0.token = r.token /\ r0.kind = r.kind
              /\ \/ r = r0 /\ (r.token # a \/ r.from \notin T)
                 \/ r = [r0 EXCEPT !.from = Nobody] /\ r0.token = a /\ r0.from \in T
        BY <2>2
      <3>2. PICK q0 \in wire :
              /\ q0.token = q.token /\ q0.kind = q.kind
              /\ \/ q = q0 /\ (q.token # a \/ q.from \notin T)
                 \/ q = [q0 EXCEPT !.from = Nobody] /\ q0.token = a /\ q0.from \in T
        BY <2>2
      <3>3. r0 = q0
        BY <1>0, <2>5, <3>1, <3>2 DEF AcquireInv
      <3> QED BY <3>1, <3>2, <3>3
    <2>6. \A b \in Attempts : attempt'[b] \in {"new", "none"} => attempt'[b] = attempt[b]
      BY <1>2 DEF Drops
    <2>7. ASSUME NEW b \in Attempts, NEW u \in Threads
          PROVE  /\ op'[b][u].pc = "sleep" => op[b][u].pc = "sleep"
                 /\ op'[b][u].reply.status = "CONTENDED" => op'[b][u] = op[b][u]
      BY <1>2 DEF Drops, Waits
    <2> QED BY <1>0, <2>1, <2>3, <2>4, <2>5, <2>6, <2>7 DEF AcquireInv
  <1>3. ASSUME NEW r \in wire, NEW reply \in Replies, ServedAs(r, reply)
        PROVE  AcquireInv'
    <2>1. wire' = wire \ {r} /\ UNCHANGED attempt /\ r.token \in Attempts
      BY <1>0, <1>3 DEF ServedAs, Answered
    <2>2. \A b \in Attempts : NoAcquire(b) => NoAcquire(b)'
      BY <2>1 DEF NoAcquire
    <2>3. r.kind = "acquire" => NoAcquire(r.token)'
      BY <1>0, <2>1 DEF NoAcquire, AcquireInv
    <2>4. ASSUME NEW b \in Attempts, NEW u \in Threads
          PROVE  \/ op'[b][u] = op[b][u]
                 \/ /\ b = r.token /\ u = r.from /\ op'[b][u].pc = op[b][u].pc
                    /\ op'[b][u].reply = reply
      <3>1. \/ op'[b][u] = op[b][u]
            \/ /\ b = r.token /\ u = r.from
               /\ op'[b][u] = [pc |-> op[b][u].pc, reply |-> reply]
        BY <1>3 DEF ServedAs, Answered
      <3> QED BY <3>1
    <2>5. /\ r.kind = "acquire" /\ r.from # Nobody => op[r.token][r.from].pc = "acquire"
          /\ reply.status = "CONTENDED" => r.kind = "acquire" /\ UNCHANGED grant
      BY <1>0, <1>3 DEF WireInv, Expects, ServedAs, Tells
    <2>6. ASSUME NEW b \in Attempts, NEW u \in Threads,
                 op'[b][u].reply.status = "CONTENDED"
          PROVE  op'[b][u].pc = "acquire"
      BY <1>0, <2>4, <2>5, <2>6 DEF AcquireInv
    <2>7. CASE UNCHANGED grant
      <3>1. ASSUME NEW b \in Attempts, NEW u \in Threads,
                   op'[b][u].pc = "sleep" \/ op'[b][u].reply.status = "CONTENDED"
            PROVE  grant'[b] = 0 /\ NoAcquire(b)'
        <4>1. CASE op[b][u].pc = "sleep" \/ op[b][u].reply.status = "CONTENDED"
          BY <1>0, <2>2, <2>7, <4>1 DEF AcquireInv
        <4>2. CASE b = r.token /\ reply.status = "CONTENDED"
          BY <1>0, <2>3, <2>5, <2>7, <4>2 DEF AcquireInv
        <4> QED BY <2>4, <3>1, <4>1, <4>2
      <3> QED BY <1>0, <2>1, <2>2, <2>6, <2>7, <3>1 DEF AcquireInv
    <2>8. CASE Grants(r)
      <3>1. /\ r.kind = "acquire"
            /\ \A b \in Attempts \ {r.token} : grant'[b] = grant[b]
        BY <1>0, <2>8 DEF Grants, Typed, Fits
      <3>2. /\ attempt[r.token] \notin {"new", "none"}
            /\ \A u \in Threads : /\ op[r.token][u].pc # "sleep"
                                  /\ op[r.token][u].reply.status # "CONTENDED"
        BY <1>0, <2>1, <3>1 DEF AcquireInv, NoAcquire
      <3>3. \A q \in wire' : q.kind = "acquire" => q.token # r.token
        BY <2>3, <3>1 DEF NoAcquire
      <3>4. ASSUME NEW b \in Attempts, NEW u \in Threads,
                   op'[b][u].pc = "sleep" \/ op'[b][u].reply.status = "CONTENDED"
            PROVE  grant'[b] = 0 /\ NoAcquire(b)'
        <4>1. CASE op[b][u].pc = "sleep" \/ op[b][u].reply.status = "CONTENDED"
          BY <1>0, <2>2, <3>1, <3>2, <4>1 DEF AcquireInv
        <4>2. CASE b = r.token /\ reply.status = "CONTENDED"
          BY <1>0, <2>3, <2>5, <3>1, <4>2 DEF AcquireInv
        <4> QED BY <2>4, <3>4, <4>1, <4>2
      <3> QED BY <1>0, <2>1, <2>2, <2>6, <3>1, <3>2, <3>3, <3>4 DEF AcquireInv
    <2> QED BY <1>3, <2>7, <2>8 DEF ServedAs
  <1>4. CASE Fades \/ Rests
    BY <1>0, <1>4 DEF Fades, Rests, serverVars, AcquireInv, NoAcquire
  <1> QED BY <1>1, <1>2, <1>3, <1>4 DEF Frame

(* The persistent keys still bound the tokens issued.                      *)
LEMMA KeyStep ==
    ASSUME Base, Frame, Typed'
    PROVE  KeyInv'
  <1>0. /\ Typed /\ KeyInv /\ counter \in Nat /\ grant \in [Attempts -> Nat]
        /\ \A r \in wire : r.token \in Attempts
    BY DEF Base, Typed, Fits, Requests
  <1>1. CASE UNCHANGED <<counter, history, grant>>
    BY <1>0, <1>1 DEF KeyInv
  <1>2. ASSUME NEW r \in wire, Grants(r)
        PROVE  KeyInv'
    <2>1. history' /\ counter' = counter + 1
      BY <1>2 DEF Grants
    <2>2. \A a \in Attempts : grant[a] <= counter
      <3>1. history <=> counter > 0
        BY <1>0, <1>2, Zenon DEF Grants, AcquireCorrupt, Typed, Fits
      <3>2. CASE counter > 0
        BY <1>0, <3>1, <3>2 DEF KeyInv
      <3>3. CASE counter = 0
        <4>1. ~history
          BY <3>1, <3>3
        <4> QED BY <1>0, <3>3, <4>1 DEF KeyInv
      <3> QED BY <1>0, <3>2, <3>3
    <2>3. \A a \in Attempts : grant'[a] <= counter'
      BY <1>0, <1>2, <2>1, <2>2 DEF Grants
    <2> QED BY <1>0, <2>1, <2>3 DEF KeyInv
  <1>3. CASE Fades
    <2>1. CASE UNCHANGED <<counter, history>>
      BY <1>1, <1>3, <2>1 DEF Fades
    <2>2. CASE /\ counter > 0 /\ history /\ UNCHANGED grant
               /\ counter' = 0 /\ history' = history
      BY <1>0, <2>2 DEF KeyInv
    <2>3. CASE /\ counter > 0 /\ UNCHANGED grant
               /\ counter' = counter /\ ~history'
      BY <1>0, <2>3 DEF KeyInv
    <2> QED BY <1>3, <2>1, <2>2, <2>3, Zenon DEF Fades
  <1> QED
    <2>1. ASSUME NEW a \in Attempts, NEW t \in Threads, Local(a, t)
          PROVE  UNCHANGED <<counter, history, grant>>
      BY <2>1 DEF Local, serverVars
    <2>2. ASSUME NEW a \in Attempts, NEW T \in SUBSET Threads, Drops(a, T)
          PROVE  UNCHANGED <<counter, history, grant>>
      BY <2>2 DEF Drops, serverVars
    <2>3. ASSUME Rests
          PROVE  UNCHANGED <<counter, history, grant>>
      BY <2>3 DEF Rests, serverVars
    <2>4. ASSUME NEW r \in wire, NEW reply \in Replies, ServedAs(r, reply)
          PROVE  Grants(r) \/ UNCHANGED <<counter, history, grant>>
      BY <2>4 DEF ServedAs
    <2> QED BY <1>1, <1>2, <1>3, <2>1, <2>2, <2>3, <2>4 DEF Frame

(* A script that grants gives a fresh token to an owner that has none.     *)
LEMMA GrantFresh ==
    ASSUME Base, NEW r \in wire, Grants(r)
    PROVE  /\ r.token \in Attempts /\ grant[r.token] = 0
           /\ counter + 1 \in Nat /\ counter + 1 > 0
           /\ grant'[r.token] = counter + 1
           /\ \A b \in Attempts \ {r.token} : grant'[b] = grant[b]
           /\ \A b \in Attempts : grant[b] \in Nat /\ grant[b] < counter + 1
  <1>0. /\ counter \in Nat /\ grant \in [Attempts -> Nat] /\ r.token \in Attempts
    BY DEF Base, Typed, Fits, Requests
  <1>1. grant[r.token] = 0
    BY DEF Base, AcquireInv, Grants
  <1>2. history <=> counter > 0
    BY Zenon DEF Base, Typed, Fits, Grants, AcquireCorrupt
  <1>3. \A b \in Attempts : grant[b] <= counter
    <2>1. CASE counter > 0
      BY <1>2, <2>1 DEF Base, KeyInv
    <2>2. CASE counter = 0
      <3>1. ~history
        BY <1>2, <2>2
      <3> QED BY <1>0, <2>2, <3>1 DEF Base, KeyInv
    <2>3. counter > 0 \/ counter = 0
      BY <1>0
    <2> QED BY <2>1, <2>2, <2>3
  <1> QED BY <1>0, <1>1, <1>3 DEF Grants

(* Every copy of a fencing token is still the one the server issued.       *)
LEMMA GrantStep ==
    ASSUME Base, Frame, Typed'
    PROVE  GrantInv'
  <1> USE DEF At, Status
  <1>0. /\ Typed /\ GrantInv /\ grant \in [Attempts -> Nat]
        /\ lease.owner \in Attempts \cup {Nobody, Foreign}
        /\ Nobody \notin Attempts /\ Foreign \notin Attempts
        /\ \A r \in wire : r.token \in Attempts
    BY NameAssumption DEF Base, Typed, Fits, Requests
  <1>n. NoReply.status = "NONE"
    BY DEF NoReply, Reply
  <1>1. ASSUME NEW a \in Attempts, NEW t \in Threads, Local(a, t)
        PROVE  GrantInv'
    <2>1. PICK pc \in Places : Moves(a, t, pc) /\ Sends(a, t, pc) /\ Flows(a, t, pc)
      BY <1>1 DEF Local
    <2>2. UNCHANGED <<grant, lease>> /\ Learns(a)
      BY <1>1 DEF Local, serverVars
    <2>3. ASSUME NEW r \in wire', r.kind \in {"renew", "probe", "release"}
          PROVE  grant'[r.token] > 0 /\ r.fence = grant'[r.token]
      <3>1. CASE r \in wire
        BY <1>0, <2>2, <2>3, <3>1 DEF GrantInv
      <3>2. CASE r \notin wire
        <4>1. r.token = a /\ attempt[a] = "handle" /\ r.fence = fence[a]
          BY <2>1, <2>3, <3>2 DEF Sends
        <4>2. grant[a] > 0 /\ fence[a] = grant[a]
          BY <1>0, <4>1 DEF GrantInv
        <4> QED BY <2>2, <4>1, <4>2
      <3> QED BY <3>1, <3>2
    <2>4. ASSUME NEW b \in Attempts
          PROVE  /\ state'[b] # "NONE" => grant'[b] > 0 /\ fence'[b] = grant'[b]
                 /\ attempt'[b] = "handle" => state'[b] # "NONE"
                 /\ state'[b] # "NONE" => attempt'[b] \in {"handle", "crashed"}
      <3>1. CASE b # a
        BY <1>0, <2>1, <2>2, <3>1 DEF Learns, Flows, GrantInv
      <3>2. CASE b = a
        BY <1>0, <2>2, <3>2 DEF Learns, GrantInv
      <3> QED BY <3>1, <3>2
    <2>5. ASSUME NEW b \in Attempts, NEW u \in Threads
          PROVE  \/ op'[b][u] = op[b][u]
                 \/ op'[b][u].reply.status = "NONE"
      BY <1>n, <2>1 DEF Moves
    <2> QED BY <1>0, <2>2, <2>3, <2>4, <2>5 DEF GrantInv
  <1>2. ASSUME NEW a \in Attempts, NEW T \in SUBSET Threads, Drops(a, T)
        PROVE  GrantInv'
    <2>1. UNCHANGED <<grant, lease, fence>>
      BY <1>2 DEF Drops, serverVars
    <2>2. \A r \in wire' : \E q \in wire :
              q.token = r.token /\ q.kind = r.kind /\ q.fence = r.fence
      BY <1>0, <1>2, DropsKeep
    <2>3. ASSUME NEW b \in Attempts
          PROVE  /\ state'[b] # "NONE" => grant'[b] > 0 /\ fence'[b] = grant'[b]
                 /\ attempt'[b] = "handle" => state'[b] # "NONE"
                 /\ state'[b] # "NONE" => attempt'[b] \in {"handle", "crashed"}
      <3>1. \/ state'[b] = state[b]
            \/ state'[b] = "UNKNOWN" /\ attempt[b] = "handle"
        BY <1>2 DEF Drops
      <3>2. \/ attempt'[b] \in {attempt[b], "crashed"}
            \/ attempt'[b] = "error" /\ state'[b] = "NONE"
        BY <1>2 DEF Drops
      <3> QED BY <1>0, <2>1, <3>1, <3>2 DEF GrantInv
    <2>4. ASSUME NEW b \in Attempts, NEW u \in Threads
          PROVE  \/ op'[b][u] = op[b][u]
                 \/ op'[b][u].reply.status \in {"NONE", "UNCERTAIN", "ERROR"}
      BY <1>2 DEF Drops
    <2> QED BY <1>0, <2>1, <2>2, <2>3, <2>4 DEF GrantInv
  <1>3. ASSUME NEW r \in wire, NEW reply \in Replies, ServedAs(r, reply)
        PROVE  GrantInv'
    <2>1. wire' = wire \ {r} /\ UNCHANGED <<attempt, state, fence>>
      BY <1>3 DEF ServedAs, Answered
    <2>2. ASSUME NEW b \in Attempts, NEW u \in Threads
          PROVE  \/ op'[b][u] = op[b][u]
                 \/ b = r.token /\ op'[b][u].reply = reply
      <3>1. \/ op'[b][u] = op[b][u]
            \/ b = r.token /\ op'[b][u] = [pc |-> op[b][u].pc, reply |-> reply]
        BY <1>3 DEF ServedAs, Answered
      <3> QED BY <3>1
    <2>3. Tells(r, reply)
      BY <1>3 DEF ServedAs
    <2>4. CASE Keeps /\ UNCHANGED <<counter, history, grant>>
      <3>1. lease'.owner \in Attempts =>
              grant'[lease'.owner] > 0 /\ lease'.fence = grant'[lease'.owner]
        BY <1>0, <2>4 DEF Keeps, GrantInv
      <3>2. /\ reply.status = "ACQUIRED" =>
                  grant[r.token] > 0 /\ reply.fence = grant[r.token]
            /\ reply.status = "PRESENT" =>
                  /\ reply.owner \in Attempts /\ grant[reply.owner] > 0
                  /\ reply.fence = grant[reply.owner]
        <4>1. CASE reply.status = "ACQUIRED"
          <5>1. Grants(r) /\ reply.fence = counter + 1
            BY <2>3, <4>1 DEF Tells
          <5> QED BY <1>0, <2>4, <4>1, <5>1, GrantFresh
        <4>2. CASE reply.status = "PRESENT"
          BY <1>0, <2>3, <4>2 DEF Tells, GrantInv
        <4> QED BY <4>1, <4>2
      <3> QED BY <1>0, <2>1, <2>2, <2>4, <3>1, <3>2 DEF GrantInv
    <2>5. CASE Grants(r)
      <3>1. /\ r.token \in Attempts /\ grant[r.token] = 0
            /\ counter + 1 \in Nat /\ counter + 1 > 0
            /\ grant'[r.token] = counter + 1
            /\ \A b \in Attempts \ {r.token} : grant'[b] = grant[b]
            /\ \A b \in Attempts : grant[b] \in Nat /\ grant[b] < counter + 1
        BY <2>5, GrantFresh
      <3>2. lease'.owner = r.token /\ lease'.fence = counter + 1
        BY <2>5 DEF Grants
      <3>3. \A q \in wire : q.kind \in {"renew", "probe", "release"} => q.token # r.token
        BY <1>0, <3>1 DEF GrantInv
      <3>4. state[r.token] = "NONE"
        BY <1>0, <3>1 DEF GrantInv
      <3>5. ASSUME NEW b \in Attempts, NEW c \in Attempts \ {b}, grant'[b] > 0
            PROVE  grant'[c] # grant'[b]
        BY <1>0, <3>1, <3>5 DEF GrantInv
      <3>6. /\ reply.status = "ACQUIRED" => reply.fence = counter + 1
            /\ reply.status # "PRESENT"
        BY <2>3, <3>1 DEF Tells
      <3>7. ASSUME NEW b \in Attempts, NEW u \in Threads
            PROVE  /\ op[b][u].reply.status = "ACQUIRED" => b # r.token
                   /\ op[b][u].reply.status = "PRESENT" =>
                         op[b][u].reply.owner # r.token
        BY <1>0, <3>1 DEF GrantInv
      <3>8. ASSUME NEW b \in Attempts, NEW u \in Threads
            PROVE  /\ op'[b][u].reply.status = "ACQUIRED" =>
                         grant'[b] > 0 /\ op'[b][u].reply.fence = grant'[b]
                   /\ op'[b][u].reply.status = "PRESENT" =>
                         /\ op'[b][u].reply.owner \in Attempts
                         /\ grant'[op'[b][u].reply.owner] > 0
                         /\ op'[b][u].reply.fence = grant'[op'[b][u].reply.owner]
        <4>1. CASE op'[b][u] = op[b][u]
          BY <1>0, <3>1, <3>7, <4>1 DEF GrantInv
        <4>2. CASE b = r.token /\ op'[b][u].reply = reply
          BY <3>1, <3>6, <4>2
        <4> QED BY <2>2, <4>1, <4>2
      <3>9. ASSUME NEW q \in wire', q.kind \in {"renew", "probe", "release"}
            PROVE  grant'[q.token] > 0 /\ q.fence = grant'[q.token]
        BY <1>0, <2>1, <3>1, <3>3, <3>9 DEF GrantInv
      <3>10. ASSUME NEW b \in Attempts
             PROVE  /\ state'[b] # "NONE" => grant'[b] > 0 /\ fence'[b] = grant'[b]
                    /\ attempt'[b] = "handle" => state'[b] # "NONE"
                    /\ state'[b] # "NONE" => attempt'[b] \in {"handle", "crashed"}
        BY <1>0, <2>1, <3>1, <3>4 DEF GrantInv
      <3> QED BY <3>1, <3>2, <3>5, <3>8, <3>9, <3>10 DEF GrantInv
    <2> QED BY <1>3, <2>4, <2>5 DEF ServedAs
  <1>4. CASE Fades
    <2>1. lease'.owner \in Attempts =>
            grant'[lease'.owner] > 0 /\ lease'.fence = grant'[lease'.owner]
      BY <1>0, <1>4 DEF Fades, Keeps, GrantInv
    <2>2. UNCHANGED <<grant, wire, op, attempt, state, fence>>
      BY <1>4 DEF Fades
    <2> QED BY <1>0, <2>1, <2>2 DEF GrantInv
  <1>5. CASE Rests
    BY <1>0, <1>5 DEF Rests, serverVars, GrantInv
  <1> QED BY <1>1, <1>2, <1>3, <1>4, <1>5 DEF Frame

(* A lease that is reported lost is still lost.                            *)
LEMMA LossStep ==
    ASSUME Base, Frame, Typed'
    PROVE  LossInv'
  <1> USE DEF At, Status
  <1>0. /\ Typed /\ GrantInv /\ LossInv /\ grant \in [Attempts -> Nat]
        /\ lease.owner \in Attempts \cup {Nobody, Foreign}
        /\ \A r \in wire : r.token \in Attempts
    BY DEF Base, Typed, Fits, Requests
  <1>n. NoReply.status = "NONE"
    BY DEF NoReply, Reply
  <1>1. ASSUME NEW a \in Attempts, NEW t \in Threads, Local(a, t)
        PROVE  LossInv'
    <2>1. PICK pc \in Places : Moves(a, t, pc)
      BY <1>1 DEF Local
    <2>2. UNCHANGED <<grant, lease>> /\ Learns(a)
      BY <1>1 DEF Local, serverVars
    <2>3. ASSUME NEW b \in Attempts, NEW u \in Threads
          PROVE  \/ op'[b][u] = op[b][u]
                 \/ op'[b][u].reply.status = "NONE"
      BY <1>n, <2>1 DEF Moves
    <2>4. ASSUME NEW b \in Attempts, state'[b] = "LOST"
          PROVE  ~Held(b)
      BY <1>0, <2>2, <2>4 DEF Learns, LossInv
    <2>5. \A b \in Attempts : Held(b)' => Held(b)
      BY <2>2 DEF Held
    <2> QED BY <1>0, <2>2, <2>3, <2>4, <2>5 DEF LossInv
  <1>2. ASSUME NEW a \in Attempts, NEW T \in SUBSET Threads, Drops(a, T)
        PROVE  LossInv'
    <2>1. UNCHANGED <<grant, lease>>
      BY <1>2 DEF Drops, serverVars
    <2>2. ASSUME NEW b \in Attempts, NEW u \in Threads
          PROVE  \/ op'[b][u] = op[b][u]
                 \/ op'[b][u].reply.status \in {"NONE", "UNCERTAIN", "ERROR"}
      BY <1>2 DEF Drops
    <2>3. \A b \in Attempts : state'[b] = "LOST" => state[b] = "LOST"
      BY <1>2 DEF Drops
    <2>4. \A b \in Attempts : Held(b)' => Held(b)
      BY <2>1 DEF Held
    <2> QED BY <1>0, <2>1, <2>2, <2>3, <2>4 DEF LossInv
  <1>3. ASSUME NEW r \in wire, NEW reply \in Replies, ServedAs(r, reply)
        PROVE  LossInv'
    <2>1. UNCHANGED <<attempt, state>> /\ Tells(r, reply)
      BY <1>3 DEF ServedAs
    <2>2. ASSUME NEW b \in Attempts, NEW u \in Threads
          PROVE  \/ op'[b][u] = op[b][u]
                 \/ /\ b = r.token /\ op'[b][u].pc = op[b][u].pc
                    /\ op'[b][u].reply = reply
      <3>1. \/ op'[b][u] = op[b][u]
            \/ b = r.token /\ op'[b][u] = [pc |-> op[b][u].pc, reply |-> reply]
        BY <1>3 DEF ServedAs, Answered
      <3> QED BY <3>1
    <2>3. ASSUME NEW b \in Attempts, grant[b] > 0
          PROVE  grant'[b] > 0 /\ (Held(b)' => Held(b))
      <3>1. CASE Keeps /\ UNCHANGED <<counter, history, grant>>
        BY <2>3, <3>1 DEF Keeps, Held
      <3>2. CASE Grants(r)
        <4>1. r.token # b /\ grant'[b] = grant[b]
          BY <2>3, <3>2, GrantFresh
        <4> QED BY <2>3, <3>2, <4>1 DEF Grants, Held
      <3> QED BY <1>3, <3>1, <3>2 DEF ServedAs
    <2>4. ASSUME NEW b \in Attempts, NEW u \in Threads,
                 op[b][u].pc = "reconcileRelease"
          PROVE  grant[b] > 0
      <3>1. attempt[b] = "handle"
        BY <2>4 DEF Base, ControlInv, AcquirePoints
      <3> QED BY <1>0, <3>1 DEF GrantInv
    <2>5. ASSUME NEW b \in Attempts, state'[b] = "LOST"
          PROVE  ~Held(b)'
      BY <1>0, <2>1, <2>3, <2>5 DEF LossInv, GrantInv
    <2>6. ASSUME NEW b \in Attempts, NEW u \in Threads,
                 op'[b][u].reply.status = "NOT_HELD"
          PROVE  grant'[b] > 0 /\ ~Held(b)'
      <3>1. CASE op'[b][u] = op[b][u]
        BY <1>0, <2>3, <2>6, <3>1 DEF LossInv
      <3>2. CASE b = r.token /\ reply.status = "NOT_HELD"
        <4>1. r.kind \in {"renew", "probe", "release"} /\ ~Owns(r)
          BY <2>1, <3>2 DEF Tells
        <4>2. grant[b] > 0 /\ r.fence = grant[b]
          BY <1>0, <3>2, <4>1 DEF GrantInv
        <4>3. ~Held(b)
          BY <1>0, <3>2, <4>1, <4>2 DEF Owns, Held, GrantInv
        <4> QED BY <2>3, <4>2, <4>3
      <3> QED BY <2>2, <2>6, <3>1, <3>2
    <2>7. ASSUME NEW b \in Attempts, NEW u \in Threads,
                 op'[b][u].pc = "reconcileRelease",
                 op'[b][u].reply.status = "PRESENT", op'[b][u].reply.owner # b
          PROVE  ~Held(b)'
      <3>1. op[b][u].pc = "reconcileRelease"
        BY <2>2, <2>7
      <3>2. ~Held(b)
        <4>1. CASE op'[b][u] = op[b][u]
          BY <1>0, <2>7, <4>1 DEF LossInv
        <4>2. CASE op'[b][u].reply = reply
          BY <2>1, <2>7, <4>2 DEF Tells, Held
        <4> QED BY <2>2, <4>1, <4>2
      <3> QED BY <2>3, <2>4, <3>1, <3>2
    <2> QED BY <2>5, <2>6, <2>7 DEF LossInv
  <1>4. CASE Fades
    <2>1. \A b \in Attempts : Held(b)' => Held(b)
      BY <1>4 DEF Fades, Keeps, Held
    <2>2. UNCHANGED <<grant, op, state>>
      BY <1>4 DEF Fades
    <2> QED BY <1>0, <2>1, <2>2 DEF LossInv
  <1>5. CASE Rests
    BY <1>0, <1>5 DEF Rests, serverVars, LossInv, Held
  <1> QED BY <1>1, <1>2, <1>3, <1>4, <1>5 DEF Frame

(* The invariant holds at the start.                                       *)
LEMMA IInvInit == Init => IInv
  <1> SUFFICES ASSUME Init
               PROVE  IInv
    OBVIOUS
  <1>r. NoReply \in Replies /\ NoReply.status = "NONE"
    BY ReplyType DEF NoReply, Statuses
  <1>1. TypeOK
    <2>1. op \in [Attempts -> [Threads -> Ops(Points)]]
      BY <1>r DEF Init, Ops, Points
    <2>2. /\ minLeft \in [Attempts -> 0 .. MinLease]
          /\ waitLeft \in [Attempts -> 0 .. WaitTime]
      BY TimeAssumption DEF Init
    <2>3. counter \in Nat /\ history \in BOOLEAN
      <3>1. counter \in 0 .. MaxFence
        BY TimeAssumption DEF Init
      <3> QED BY <3>1, TimeAssumption DEF Init
    <2>4. lease \in [owner : Attempts \cup {Nobody, Foreign}, fence : Nat, ttl : Nat]
      BY DEF Init, NoLease
    <2> QED BY <2>1, <2>2, <2>3, <2>4 DEF Init, TypeOK, Ops
  <1>2. \A a \in Attempts, t \in Threads :
           op[a][t].pc = "idle" /\ op[a][t].reply.status = "NONE"
    BY <1>r DEF Init
  <1>3. WireInv /\ ControlInv /\ AcquireInv
    BY <1>2 DEF Init, WireInv, ControlInv, AcquireInv, NoAcquire, At, Status, AcquirePoints
  <1>4. KeyInv
    <2>1. counter \in Nat /\ \A a \in Attempts : grant[a] = 0
      BY <1>1 DEF Init, TypeOK
    <2> QED BY <2>1 DEF KeyInv
  <1>5. GrantInv /\ LossInv
    BY <1>2, NameAssumption DEF Init, GrantInv, LossInv, NoLease, At, Status
  <1> QED BY <1>1, <1>3, <1>4, <1>5 DEF IInv

(* The parts of the invariant that both locks share are preserved.         *)
LEMMA BaseStep ==
    ASSUME Base, Frame, Typed'
    PROVE  Base'
  BY WireStep, ControlStep, AcquireStep, KeyStep, GrantStep, LossStep DEF Base

(* Every step keeps it.                                                    *)
LEMMA IInvStep ==
    ASSUME IInv, [Next]_vars
    PROVE  IInv'
  <1>1. Base /\ TypeOK'
    <2> DEFINE W == {"none", "starting", "running", "exited"}
    <2>1. Fits(Points, W)
      BY TypeOKFits DEF IInv
    <2>2. Fits(Points, W)'
      BY <2>1, TypeStep
    <2>3. TypeOK'
      BY <2>2, TypeOKFits, PTL
    <2> QED BY <2>3, IInvBase
  <1>2. Frame
    BY <1>1, StepFrame
  <1>3. Typed'
    BY <1>1, TypeOKTyped, PTL
  <1>4. Base'
    BY <1>1, <1>2, <1>3, BaseStep
  <1> QED BY <1>1, <1>4 DEF IInv, Base

(* A fencing token is issued once to an owner token, and is the largest.   *)
LEMMA FrameGrants ==
    ASSUME Base, Frame, NEW a \in Attempts, grant'[a] # grant[a]
    PROVE  grant[a] = 0 /\ \A b \in Attempts : grant[b] < grant'[a]
  <1>1. PICK r \in wire : Grants(r)
    BY DEF Frame, Local, Drops, Fades, Rests, ServedAs, serverVars
  <1> QED BY <1>1, GrantFresh

(* Every step of a lock is a step of the fenced lock, or none.             *)
LEMMA FrameLock ==
    ASSUME Base, Frame
    PROVE  [Lock!Next]_(Lock!vars)
  <1> DEFINE holder == IF lease.owner \in Attempts THEN lease.owner ELSE Nobody
  <1>0. /\ lease.owner \in Attempts \cup {Nobody, Foreign}
        /\ Nobody \notin Attempts /\ Foreign \notin Attempts
    BY NameAssumption DEF Base, Typed, Fits
  <1>1. CASE UNCHANGED <<lease, grant>>
    BY <1>1 DEF Lock!vars
  <1>2. CASE Keeps /\ UNCHANGED grant
    <2>1. holder' = holder \/ (holder # Nobody /\ holder' = Nobody)
      BY <1>0, <1>2 DEF Keeps
    <2> QED BY <1>2, <2>1 DEF Lock!Next, Lock!End, Lock!vars
  <1>3. ASSUME NEW r \in wire, Grants(r)
        PROVE  Lock!Grant(r.token)
    <2>1. /\ r.token \in Attempts /\ grant[r.token] = 0
          /\ \A b \in Attempts : grant[b] < grant'[r.token]
          /\ grant' = [grant EXCEPT ![r.token] = grant'[r.token]]
      BY <1>3, GrantFresh DEF Grants
    <2>2. holder = Nobody /\ holder' = r.token
      BY <1>0, <1>3, <2>1 DEF Grants, LeasePresent
    <2> QED BY <2>1, <2>2 DEF Lock!Grant
  <1>4. \A r \in wire : r.token \in Attempts
    BY DEF Base, Typed, Fits, Requests
  <1>5. \/ UNCHANGED <<lease, grant>>
        \/ Keeps /\ UNCHANGED grant
        \/ \E r \in wire : Grants(r)
    BY DEF Frame, Local, Drops, Fades, Rests, ServedAs, serverVars
  <1> QED BY <1>1, <1>2, <1>3, <1>4, <1>5 DEF Lock!Next

(* What a step of the synchronous lock may do to the state of a handle.    *)
LEMMA EndedStep ==
    ASSUME IInv, [Next]_vars, NEW a \in Attempts, state[a] \in Terminal
    PROVE  state'[a] \in {state[a], "UNKNOWN"}
  <1>0. state \in [Attempts -> {"NONE", "ACQUIRED", "ENTERED"} \cup Terminal]
    BY DEF IInv, TypeOK
  <1>1. ASSUME NEW b \in Attempts, NEW t \in UsersOf[b], ThreadStep(b, t)
        PROVE  state'[a] \in {state[a], "UNKNOWN"}
    <2>0. t \in Threads
      BY NameAssumption DEF Threads
    <2>1. CASE TryAcquire(b, t) \/ AcquireReply(b, t) \/ AcquireAgain(b, t)
               \/ ReconcileAcquire(b, t)
      <3>1. op[b][t].pc \in AcquirePoints \/ attempt[b] = "new"
        BY <2>1 DEF TryAcquire, AcquireReply, AcquireAgain, ReconcileAcquire,
                    Replied, At, AcquirePoints
      <3>2. state[b] = "NONE"
        BY <2>0, <3>1 DEF IInv, ControlInv, GrantInv
      <3>3. state' = state \/ state' = [state EXCEPT ![b] = "ACQUIRED"]
        BY <2>1 DEF TryAcquire, AcquireReply, AcquireAgain, ReconcileAcquire,
                    NewHandle, EndAttempt
      <3> QED BY <1>0, <3>2, <3>3 DEF Terminal
    <2>2. CASE \/ \E d \in RenewTimes : Renew(b, t, d)
               \/ IsHeld(b, t) \/ ReleaseCheck(b, t) \/ StopReady(b, t)
      BY <2>2 DEF Renew, IsHeld, ReleaseCheck, StopReady, handleVars
    <2>3. CASE StartWorker(b, t) \/ StartWorkerFails(b, t) \/ Release(b, t)
               \/ Exit(b, t) \/ StopJoin(b, t)
      BY <2>3 DEF StartWorker, StartWorkerFails, Release, Exit, BeginStop, StopJoin
    <2>4. CASE ProofReply(b, t) \/ EnterReply(b, t)
      <3>1. state' = [state EXCEPT ![b] = AfterProof(state[b], Status(b, t))]
        BY <1>0, <2>4 DEF ProofReply, EnterReply
      <3> QED BY <1>0, <3>1 DEF AfterProof
    <2>5. CASE Enter(b, t)
      BY <1>0, <2>5 DEF Enter, Terminal
    <2>6. CASE StopExpires(b, t)
      BY <1>0, <2>6 DEF StopExpires
    <2>7. CASE ReleaseReply(b, t)
      <3>1. state' = state \/ state' = [state EXCEPT ![b] = AfterRelease(state[b], Status(b, t))]
        BY <1>0, <2>7 DEF ReleaseReply
      <3> QED BY <1>0, <3>1 DEF AfterRelease
    <2>8. CASE ReconcileRelease(b, t)
      BY <1>0, <2>8 DEF ReconcileRelease
    <2> QED BY <1>1, <2>1, <2>2, <2>3, <2>4, <2>5, <2>6, <2>7, <2>8 DEF ThreadStep
  <1>2. ASSUME NEW b \in Attempts, WorkerStep(b)
        PROVE  state'[a] \in {state[a], "UNKNOWN"}
    <2>1. \/ state' = state
          \/ state' = [state EXCEPT ![b] = AfterProof(state[b], Status(b, Worker))]
          \/ state' = [state EXCEPT ![b] = "UNKNOWN"]
      BY <1>0, <1>2 DEF WorkerStep, WorkerWakes, WorkerReply, WorkerCrash
    <2> QED BY <1>0, <2>1 DEF AfterProof
  <1>3. ASSUME NEW b \in Attempts, NEW t \in Threads, NetworkStep(b, t)
        PROVE  UNCHANGED state
    BY <1>3 DEF NetworkStep, TimeOut, Refuse, handleVars
  <1>4. ASSUME NEW r \in wire, Serve(r)
        PROVE  UNCHANGED state
    BY <1>4 DEF Serve, handleVars
  <1>5. ASSUME NEW b \in Attempts, Crash(b)
        PROVE  UNCHANGED state
    BY <1>5 DEF Crash
  <1>6. CASE Tick \/ LoseKey \/ Overwrite
    BY <1>6, FadeFrame, TypeOKTyped DEF Fades, IInv
  <1>7. CASE UNCHANGED vars
    BY <1>7 DEF vars, handleVars
  <1> QED BY <1>1, <1>2, <1>3, <1>4, <1>5, <1>6, <1>7 DEF Next

-----------------------------------------------------------------------------
(* An entered handle is attended to                                        *)

\* What a step of thread t must not do: leave an entered handle alone.
Hands(a, t) ==
    /\ \A b \in Attempts \ {a} :
          attempt'[b] = attempt[b] /\ state'[b] = state[b] /\ scope'[b] = scope[b]
    /\ attempt'[a] = "handle" /\ state'[a] = "ENTERED" =>
          \/ scope'[a] # Nobody
          \/ op'[a][t].pc \in Attending
          \/ /\ attempt[a] = "handle" /\ state[a] = "ENTERED" /\ scope'[a] = scope[a]
             /\ op[a][t].pc \notin Attending

(* Every step of a thread hands the handle over or ends it.                *)
LEMMA ThreadHands ==
    ASSUME TypeOK, NEW a \in Attempts, NEW t \in UsersOf[a], ThreadStep(a, t)
    PROVE  Hands(a, t)
  <1> USE DEF Replied, At, Goto, Call, Idle, serverVars, handleVars, timerVars
  <1>0. /\ state \in [Attempts -> {"NONE", "ACQUIRED", "ENTERED"} \cup Terminal]
        /\ attempt \in [Attempts -> {"new", "running", "none", "error", "handle", "crashed"}]
        /\ scope \in [Attempts -> UserThreads \cup {Nobody}]
        /\ op \in [Attempts -> [Threads -> [pc : Points, reply : Replies]]]
        /\ t \in Threads /\ t # Nobody
    <2>1. t \in UserThreads
      BY NameAssumption
    <2>2. t \in Threads /\ t # Nobody
      BY <2>1, NameAssumption DEF Threads
    <2> QED BY <2>2 DEF TypeOK
  <1>1. CASE TryAcquire(a, t)
    BY <1>0, <1>1 DEF TryAcquire, Hands
  <1>2. CASE AcquireReply(a, t) \/ AcquireAgain(a, t) \/ ReconcileAcquire(a, t)
    <2>1. op[a][t].pc \notin Attending /\ UNCHANGED scope
      BY <1>2 DEF AcquireReply, AcquireAgain, ReconcileAcquire, Attending
    <2>2. \/ UNCHANGED <<attempt, state>>
          \/ attempt' = [attempt EXCEPT ![a] = "none"] /\ UNCHANGED state
          \/ attempt' = [attempt EXCEPT ![a] = "error"] /\ UNCHANGED state
          \/ /\ attempt' = [attempt EXCEPT ![a] = "handle"]
             /\ state' = [state EXCEPT ![a] = "ACQUIRED"]
      BY <1>2 DEF AcquireReply, AcquireAgain, ReconcileAcquire, NewHandle, EndAttempt
    <2> QED BY <1>0, <2>1, <2>2 DEF Hands
  <1>3. CASE (\E d \in RenewTimes : Renew(a, t, d)) \/ IsHeld(a, t)
    <2>1. op[a][t].pc \notin Attending /\ UNCHANGED <<scope, attempt, state>>
      BY <1>3 DEF Renew, IsHeld, Attending
    <2> QED BY <2>1 DEF Hands
  <1>4. CASE ProofReply(a, t) \/ EnterReply(a, t)
    <2>1. state' = [state EXCEPT ![a] = AfterProof(state[a], Status(a, t))] /\ UNCHANGED attempt
      BY <1>0, <1>4 DEF ProofReply, EnterReply
    <2>2. \A b \in Attempts \ {a} : state'[b] = state[b] /\ attempt'[b] = attempt[b]
      BY <1>0, <2>1
    <2>3. state'[a] = "ENTERED" => state[a] = "ENTERED" /\ Status(a, t) \in {"RENEWED", "HELD"}
      BY <1>0, <2>1 DEF AfterProof, Terminal
    <2>4. CASE ProofReply(a, t)
      <3>1. op[a][t].pc \notin Attending /\ UNCHANGED scope
        BY <2>4 DEF ProofReply, Attending
      <3> QED BY <2>1, <2>2, <2>3, <3>1 DEF Hands
    <2>5. CASE EnterReply(a, t)
      <3>1. state'[a] = "ENTERED" => Proved(a, t)
        BY <2>3 DEF Proved, Terminal
      <3>2. CASE Proved(a, t) /\ AutoRenew
        <4>1. op' = [op EXCEPT ![a][t] = [pc |-> "starting", reply |-> NoReply]] /\ UNCHANGED scope
          BY <2>5, <3>2 DEF EnterReply
        <4>2. op'[a][t].pc = "starting"
          BY <1>0, <4>1
        <4> QED BY <2>2, <4>1, <4>2 DEF Hands, Attending
      <3>3. CASE Proved(a, t) /\ ~AutoRenew
        <4>1. scope' = [scope EXCEPT ![a] = t]
          BY <2>5, <3>3 DEF EnterReply
        <4> QED BY <1>0, <2>2, <4>1 DEF Hands
      <3>4. CASE ~Proved(a, t)
        <4>1. UNCHANGED scope
          BY <2>5, <3>4 DEF EnterReply
        <4> QED BY <2>2, <3>1, <3>4, <4>1 DEF Hands
      <3> QED BY <3>2, <3>3, <3>4
    <2> QED BY <1>4, <2>4, <2>5
  <1>5. CASE Enter(a, t)
    <2>1. /\ state' = [state EXCEPT ![a] = "ENTERED"] /\ UNCHANGED <<attempt, scope>>
          /\ op' = [op EXCEPT ![a][t] = [pc |-> "enterProof", reply |-> NoReply]]
      BY <1>5 DEF Enter
    <2>2. op'[a][t].pc = "enterProof"
      BY <1>0, <2>1
    <2> QED BY <1>0, <2>1, <2>2 DEF Hands, Attending
  <1>6. CASE StartWorker(a, t)
    <2>1. /\ UNCHANGED <<attempt, state>>
          /\ \/ state[a] \in Terminal /\ UNCHANGED scope
             \/ scope' = [scope EXCEPT ![a] = t]
      BY <1>6 DEF StartWorker
    <2> QED BY <1>0, <2>1 DEF Hands, Terminal
  <1>7. CASE StartWorkerFails(a, t)
    <2>1. UNCHANGED <<attempt, state, scope>>
      BY <1>7 DEF StartWorkerFails
    <2>2. op'[a][t].pc \in {"relCheck", "stopJoin"}
      BY <1>0, <1>7 DEF StartWorkerFails
    <2> QED BY <2>1, <2>2 DEF Hands, Attending
  <1>8. CASE Release(a, t) \/ Exit(a, t)
    <2>1. BeginStop(a, t) /\ (UNCHANGED scope \/ scope' = [scope EXCEPT ![a] = Nobody])
      BY <1>8 DEF Release, Exit
    <2>2. UNCHANGED <<attempt, state>>
      BY <2>1 DEF BeginStop
    <2>3. op'[a][t].pc \in {"relCheck", "stopReady", "stopJoin"}
      BY <1>0, <2>1 DEF BeginStop
    <2> QED BY <1>0, <2>1, <2>2, <2>3 DEF Hands, Attending
  <1>9. CASE StopReady(a, t)
    <2>1. UNCHANGED <<attempt, state, scope>> /\ op'[a][t].pc = "stopJoin"
      BY <1>0, <1>9 DEF StopReady
    <2> QED BY <2>1 DEF Hands, Attending
  <1>10. CASE StopJoin(a, t)
    <2>1. UNCHANGED <<attempt, state, scope>>
      BY <1>10 DEF StopJoin
    <2>2. op[a][t].pc = "stopRaise" \/ op'[a][t].pc = "relCheck"
      BY <1>0, <1>10 DEF StopJoin
    <2> QED BY <2>1, <2>2 DEF Hands, Attending
  <1>11. CASE StopExpires(a, t)
    <2>1. state' = [state EXCEPT ![a] = "UNKNOWN"] /\ UNCHANGED <<attempt, scope>>
      BY <1>11 DEF StopExpires
    <2> QED BY <1>0, <2>1 DEF Hands
  <1>12. CASE ReleaseCheck(a, t)
    <2>1. UNCHANGED <<attempt, state, scope>>
      BY <1>12 DEF ReleaseCheck
    <2>2. state[a] \in Terminal \/ op'[a][t].pc = "release"
      BY <1>0, <1>12 DEF ReleaseCheck, SendRelease
    <2> QED BY <2>1, <2>2 DEF Hands, Attending, Terminal
  <1>13. CASE ReleaseReply(a, t)
    <2>1. UNCHANGED <<attempt, scope>>
      BY <1>13 DEF ReleaseReply
    <2>2. \/ UNCHANGED state /\ op'[a][t].pc = "reconcileRelease"
          \/ state' = [state EXCEPT ![a] = AfterRelease(state[a], Status(a, t))]
      BY <1>0, <1>13 DEF ReleaseReply
    <2> QED BY <1>0, <2>1, <2>2 DEF Hands, Attending, AfterRelease, Terminal
  <1>14. CASE ReconcileRelease(a, t)
    <2>1. UNCHANGED <<attempt, scope>>
      BY <1>14 DEF ReconcileRelease
    <2>2. \/ UNCHANGED state /\ op'[a][t].pc = "repeatRelease"
          \/ UNCHANGED state /\ state[a] \in Terminal
          \/ state' = [state EXCEPT ![a] = "LOST"]
          \/ state' = [state EXCEPT ![a] = "UNKNOWN"]
      BY <1>0, <1>14 DEF ReconcileRelease, SendRelease
    <2> QED BY <1>0, <2>1, <2>2 DEF Hands, Attending, Terminal
  <1> QED BY <1>1, <1>2, <1>3, <1>4, <1>5, <1>6, <1>7, <1>8, <1>9, <1>10, <1>11, <1>12,
             <1>13, <1>14 DEF ThreadStep

(* Nobody else takes an entered handle from the thread that attends to it. *)
LEMMA AttendedStep ==
    ASSUME IInv, EnteredIsAttended, [Next]_vars
    PROVE  EnteredIsAttended'
  <1>0. /\ state \in [Attempts -> {"NONE", "ACQUIRED", "ENTERED"} \cup Terminal]
        /\ attempt \in [Attempts -> {"new", "running", "none", "error", "handle", "crashed"}]
        /\ op \in [Attempts -> [Threads -> [pc : Points, reply : Replies]]]
        /\ scope \in [Attempts -> UserThreads \cup {Nobody}]
    BY DEF IInv, TypeOK
  <1>1. \A b \in Attempts : UsersOf[b] \subseteq Threads /\ Worker \notin UsersOf[b]
    BY NameAssumption DEF Threads
  <1>2. ASSUME NEW a \in Attempts, NEW t \in UsersOf[a], ThreadStep(a, t)
        PROVE  EnteredIsAttended'
    <2>1. Hands(a, t)
      BY <1>2, ThreadHands DEF IInv
    <2>2. \A b \in Attempts, u \in Threads : b # a \/ u # t => op'[b][u] = op[b][u]
      <3>1. t \in UserThreads
        BY NameAssumption
      <3> QED BY <1>2, <3>1, IInvBase, LocalStep DEF Local, Moves
    <2> QED BY <1>1, <2>1, <2>2 DEF Hands, EnteredIsAttended
  <1>3. ASSUME \A b \in Attempts : attempt'[b] = "handle" /\ state'[b] = "ENTERED" =>
                  /\ attempt[b] = "handle" /\ state[b] = "ENTERED" /\ scope'[b] = scope[b]
                  /\ \A u \in UsersOf[b] : op'[b][u].pc = op[b][u].pc
        PROVE  EnteredIsAttended'
    BY <1>3 DEF EnteredIsAttended
  <1>4. ASSUME NEW a \in Attempts, WorkerStep(a)
        PROVE  EnteredIsAttended'
    <2>1. /\ UNCHANGED <<attempt, scope>>
          /\ \/ state' = state
             \/ state' = [state EXCEPT ![a] = AfterProof(state[a], Status(a, Worker))]
             \/ state' = [state EXCEPT ![a] = "UNKNOWN"]
      BY <1>0, <1>4 DEF WorkerStep, WorkerWakes, WorkerReply, WorkerCrash
    <2>2. op' = op \/ \E pc : op' = [op EXCEPT ![a][Worker] = [pc |-> pc, reply |-> NoReply]]
      BY <1>4 DEF WorkerStep, WorkerWakes, WorkerReply, WorkerCrash, Call, Goto
    <2>3. \A b \in Attempts : state'[b] = "ENTERED" => state[b] = "ENTERED"
      BY <1>0, <2>1 DEF AfterProof, Terminal
    <2>4. \A b \in Attempts : \A u \in UsersOf[b] : op'[b][u].pc = op[b][u].pc
      <3>1. ASSUME NEW spot, op' = [op EXCEPT ![a][Worker] = spot]
            PROVE  \A b \in Attempts : \A u \in Threads \ {Worker} : op'[b][u] = op[b][u]
        BY <1>0, <3>1
      <3> QED BY <1>1, <2>2, <3>1
    <2> QED BY <2>1, <2>3, <2>4, <1>3
  <1>5. ASSUME NEW a \in Attempts, NEW t \in Threads, NetworkStep(a, t)
        PROVE  EnteredIsAttended'
    <2>1. UNCHANGED handleVars
      BY <1>5 DEF NetworkStep, TimeOut, Refuse
    <2>2. \E reply : op' = [op EXCEPT ![a][t] = [pc |-> @.pc, reply |-> reply]]
      BY <1>5 DEF NetworkStep, TimeOut, Refuse
    <2>3. \A b \in Attempts, u \in Threads : op'[b][u].pc = op[b][u].pc
      BY <1>0, <2>2
    <2> QED BY <1>1, <2>1, <2>3, <1>3 DEF handleVars
  <1>6. ASSUME NEW r \in wire, Serve(r)
        PROVE  EnteredIsAttended'
    <2>1. UNCHANGED handleVars
      BY <1>6 DEF Serve
    <2>2. \A b \in Attempts, u \in Threads : op'[b][u].pc = op[b][u].pc
      <3>1. PICK reply \in Replies : ServedAs(r, reply)
        BY <1>6, ServeFrame, TypeOKTyped DEF IInv
      <3>2. ASSUME NEW b \in Attempts, NEW u \in Threads
            PROVE  op'[b][u].pc = op[b][u].pc
        <4>1. op'[b][u] = op[b][u] \/ op'[b][u] = [pc |-> op[b][u].pc, reply |-> reply]
          BY <3>1 DEF ServedAs, Answered
        <4> QED BY <4>1
      <3> QED BY <3>2
    <2> QED BY <1>1, <2>1, <2>2, <1>3 DEF handleVars
  <1>7. ASSUME NEW a \in Attempts, Crash(a)
        PROVE  EnteredIsAttended'
    <2>1. /\ attempt' = [attempt EXCEPT ![a] = "crashed"] /\ UNCHANGED state
          /\ \A b \in Attempts \ {a} : op'[b] = op[b] /\ scope'[b] = scope[b]
      BY <1>0, <1>7 DEF Crash
    <2> QED BY <1>0, <2>1, <1>3
  <1>8. CASE Tick \/ LoseKey \/ Overwrite \/ UNCHANGED vars
    <2>1. UNCHANGED <<attempt, state, scope, op>>
      BY <1>8 DEF Tick, LoseKey, Overwrite, vars, handleVars
    <2> QED BY <2>1, <1>3
  <1> QED BY <1>2, <1>4, <1>5, <1>6, <1>7, <1>8 DEF Next

-----------------------------------------------------------------------------
(* The inductive invariant holds in every state the lock, its handles and  *)
(* the scripts in flight can reach.                                        *)
THEOREM Invariance == Spec => []IInv
  <1>1. IInv /\ [Next]_vars => IInv'
    BY IInvStep
  <1> QED BY <1>1, IInvInit, PTL DEF Spec

(* The variables keep their types: a reply that arrives late, a crash or a *)
(* lost key leaves no component outside the states the code handles.       *)
THEOREM TypeCorrect == Spec => []TypeOK
  <1>1. IInv => TypeOK
    BY DEF IInv
  <1> QED BY <1>1, Invariance, PTL

(* A fencing token identifies one handle of try_acquire, whichever way the *)
(* handle learned it, for any number of attempts, threads and faults.      *)
THEOREM FencingCorrect == Spec => []FenceIdentifiesHandle
  <1>1. IInv => FenceIdentifiesHandle
    BY DEF IInv, GrantInv, FenceIdentifiesHandle
  <1> QED BY <1>1, Invariance, PTL

(* A handle in the state LOST does not hold the lease, whichever thread    *)
(* noticed the loss and however late its reply was.                        *)
THEOREM LossCorrect == Spec => []LostForGood
  <1>1. IInv => LostForGood
    BY DEF IInv, LossInv, LostForGood
  <1> QED BY <1>1, Invariance, PTL

(* An entered handle is delivered, or its lease is given back, or it has   *)
(* ended: also when the renewal thread cannot be started.                  *)
THEOREM EnteredAttended == Spec => []EnteredIsAttended
  <1>1. Init => EnteredIsAttended
    BY DEF Init, EnteredIsAttended
  <1>2. IInv /\ EnteredIsAttended /\ [Next]_vars => EnteredIsAttended'
    BY AttendedStep
  <1> QED BY <1>1, <1>2, Invariance, PTL DEF Spec

(* An attempt whose try_acquire returned None holds nothing and cannot     *)
(* come to hold the lease by a call that is still on its way.              *)
THEOREM NoneCorrect == Spec => []NoneHoldsNothing
  <1>1. IInv => NoneHoldsNothing
    <2> SUFFICES ASSUME IInv, NEW a \in Attempts, attempt[a] = "none"
                 PROVE  lease.owner # a /\ \A r \in wire : r.token = a => r.kind # "acquire"
      BY DEF NoneHoldsNothing
    <2>1. grant[a] = 0 /\ NoAcquire(a)
      BY DEF IInv, AcquireInv
    <2> QED BY <2>1 DEF IInv, GrantInv, NoAcquire
  <1> QED BY <1>1, Invariance, PTL

(* The server issues fencing tokens in increasing order and never two to   *)
(* an owner token, also after one of the two persistent keys was lost.     *)
THEOREM FencingMonotone == Spec => GrantsIncrease
  <1>1. ASSUME IInv, [Next]_vars
        PROVE  [\A a \in Attempts : grant'[a] # grant[a] =>
                   /\ grant[a] = 0
                   /\ \A b \in Attempts : grant[b] < grant'[a]]_vars
    <2>1. Base /\ Frame
      BY <1>1, IInvBase, StepFrame
    <2> QED BY <2>1, FrameGrants
  <1> QED BY <1>1, Invariance, PTL DEF Spec, GrantsIncrease

(* A handle that ended stays ended and UNKNOWN is final, although several  *)
(* threads and the worker apply their replies to it in any order.          *)
THEOREM EndingFinal == Spec => EndedStaysEnded
  <1>1. ASSUME IInv, [Next]_vars
        PROVE  [\A a \in Attempts : state[a] \in Terminal =>
                   state'[a] \in {state[a], "UNKNOWN"}]_vars
    BY <1>1, EndedStep DEF IInv
  <1> QED BY <1>1, Invariance, PTL DEF Spec, EndedStaysEnded

(* A step that ends a live lease early executes a release of its handle.   *)
LEMMA OwnerStep ==
    ASSUME Base, [Next]_vars, NEW a \in Attempts, Held(a), lease'.owner \notin {a, Foreign}
    PROVE  \E r \in wire : r.kind = "release" /\ r.token = a /\ r \notin wire'
  <1>0. /\ lease \in [owner : Attempts \cup {Nobody, Foreign}, fence : Nat, ttl : Nat]
        /\ lease.owner = a /\ a # Nobody /\ a # Foreign /\ lease.ttl > 0
        /\ lease' # lease
    BY NameAssumption DEF Base, Typed, Fits, Held
  <1>1. ASSUME NEW r \in wire, Serve(r)
        PROVE  r.kind = "release" /\ r.token = a /\ r \notin wire'
    <2>1. ~ServeGrant(r)
      BY <1>0 DEF ServeGrant, LeasePresent
    <2>2. ~ServeNoGrant(r) /\ ~ServeProbe(r) /\ ~ServeReconcile(r)
      BY <1>0 DEF ServeNoGrant, ServeProbe, ServeReconcile, serverVars
    <2>3. ~ServeRenew(r)
      BY <1>0 DEF ServeRenew
    <2>4. ServeRelease(r)
      BY <1>1, <2>1, <2>2, <2>3 DEF Serve
    <2> QED BY <1>0, <2>4 DEF ServeRelease, Answer, Owns, Held
  <1>2. ASSUME NEW b \in Attempts, NEW t \in UsersOf[b], ThreadStep(b, t)
        PROVE  FALSE
    <2>1. t \in UserThreads
      BY NameAssumption
    <2> QED BY <1>0, <1>2, <2>1, LocalStep DEF Local, serverVars
  <1>3. ASSUME NEW b \in Attempts, WorkerStep(b)
        PROVE  FALSE
    BY <1>0, <1>3 DEF WorkerStep, WorkerWakes, WorkerReply, WorkerCrash, serverVars
  <1>4. ASSUME NEW b \in Attempts, NEW t \in Threads, NetworkStep(b, t)
        PROVE  FALSE
    BY <1>0, <1>4 DEF NetworkStep, TimeOut, Refuse, serverVars
  <1>5. ASSUME NEW b \in Attempts, Crash(b)
        PROVE  FALSE
    BY <1>0, <1>5 DEF Crash, serverVars
  <1>6. ~Tick /\ ~LoseKey /\ ~Overwrite
    BY <1>0 DEF Tick, LoseKey, Overwrite
  <1>7. ~UNCHANGED vars
    BY <1>0 DEF vars, serverVars
  <1> QED BY <1>1, <1>2, <1>3, <1>4, <1>5, <1>6, <1>7 DEF Next

(* A live lease is ended early only by the execution of a release call of  *)
(* its own handle: for any number of owners and calls in flight.           *)
THEOREM OwnerEnds == Spec => OnlyOwnerEndsLease
  <1>1. ASSUME IInv, [Next]_vars
        PROVE  [\A a \in Attempts : Held(a) /\ lease'.owner \notin {a, Foreign} =>
                   \E r \in wire : r.kind = "release" /\ r.token = a /\ r \notin wire']_vars
    BY <1>1, IInvBase, OwnerStep
  <1> QED BY <1>1, Invariance, PTL DEF Spec, OnlyOwnerEndsLease

(* The Redis lock implements the fenced lock of FencedLock.                *)
THEOREM Refinement == Spec => ImplementsFencedLock
  <1>1. Init => Lock!Init
    BY NameAssumption DEF Init, Lock!Init, NoLease
  <1>2. IInv /\ [Next]_vars => [Lock!Next]_(Lock!vars)
    BY IInvBase, StepFrame, FrameLock
  <1> QED BY <1>1, <1>2, Invariance, PTL DEF Spec, ImplementsFencedLock, Lock!Spec

-----------------------------------------------------------------------------
(* The minimum lease.  The record of an owner outlives its minimum lease   *)
(* because every call that sets its lifetime asks for at least what is     *)
(* left of it.  A caller that renews for less gives up the rest, so the    *)
(* renewals are assumed to be no shorter than the minimum lease.           *)

LongRenewals == \A d \in RenewTimes : MinLease <= d

MinInv ==
    /\ \A a \in Attempts : lease.owner = a => minLeft[a] <= lease.ttl
    /\ \A r \in wire :
          /\ r.kind = "release" => minLeft[r.token] <= r.ttl
          /\ r.kind \in {"acquire", "renew"} => MinLease <= r.ttl
    /\ MinimumLeaseKept

\* The lifetime that a call of a asks for when it is sent.
Sized(r) ==
    /\ r.kind = "release" => r.ttl = minLeft[r.token]
    /\ r.kind = "acquire" => r.ttl = LeaseTime
    /\ r.kind = "renew" => r.ttl \in RenewTimes \cup {LeaseTime}

\* A step of the threads of a: a call on the wire was there before or is a
\* new one of a, and the minimum lease begins again with an acquire call.
Carries(a) ==
    \A r \in wire' :
        \/ \E q \in wire : q.token = r.token /\ q.kind = r.kind /\ q.ttl = r.ttl
        \/ r.token = a /\ Sized(r)

Times(a) ==
    /\ UNCHANGED serverVars
    /\ Carries(a)
    /\ \/ minLeft' = minLeft
       \/ /\ minLeft' = [minLeft EXCEPT ![a] = MinLease]
          /\ attempt[a] = "new" \/ \E t \in Threads : At(a, t, "sleep")
          /\ \A r \in wire' \ wire : r.kind # "release"

(* A thread that sends a call adds that call to the wire.                  *)
LEMMA CallCarries ==
    ASSUME NEW a, NEW t, NEW pc, NEW kind, NEW token, NEW ttl,
           Call(a, t, pc, kind, token, ttl),
           kind = "release" => ttl = minLeft[a],
           kind = "acquire" => ttl = LeaseTime,
           kind = "renew" => ttl \in RenewTimes \cup {LeaseTime}
    PROVE  Carries(a) /\ \A r \in wire' \ wire : r.kind = kind
  BY DEF Call, Carries, Sized

(* Calls that nobody waits for any more keep their content.                *)
LEMMA OrphanCarries ==
    ASSUME Typed, NEW a \in Attempts, NEW R \in SUBSET wire, NEW Q \in SUBSET wire,
           wire' = R \/ wire' = R \cup Orphaned(Q)
    PROVE  Carries(a)
  <1> SUFFICES ASSUME NEW r \in wire', r \notin wire
               PROVE  \E q \in wire : q.token = r.token /\ q.kind = r.kind /\ q.ttl = r.ttl
    BY DEF Carries
  <1>1. PICK q \in Q : r = [q EXCEPT !.from = Nobody]
    BY DEF Orphaned
  <1>2. q \in Requests
    BY DEF Typed, Fits
  <1> QED BY <1>1, <1>2 DEF Requests

(* Every step of an application thread is of that kind.                    *)
LEMMA ThreadTimes ==
    ASSUME Typed, NEW a \in Attempts, NEW t \in Threads, ThreadStep(a, t)
    PROVE  Times(a)
  <1>w. wire' = wire => Carries(a)
    BY DEF Carries
  <1>1. CASE TryAcquire(a, t) \/ AcquireAgain(a, t)
    <2>1. CASE /\ SendAcquire(a, t) /\ UNCHANGED serverVars
               /\ attempt[a] = "new" \/ At(a, t, "sleep")
      <3>1. Carries(a) /\ \A r \in wire' \ wire : r.kind = "acquire"
        BY <2>1, CallCarries DEF SendAcquire
      <3> QED BY <2>1, <3>1 DEF Times, SendAcquire
    <2>2. CASE EndAttempt(a, t, "none") /\ UNCHANGED <<serverVars, minLeft>>
      BY <1>w, <2>2 DEF Times, EndAttempt
    <2> QED BY <1>1, <2>1, <2>2 DEF TryAcquire, AcquireAgain
  <1>2. CASE AcquireReply(a, t)
    <2>1. UNCHANGED <<serverVars, minLeft>>
      BY <1>2 DEF AcquireReply, timerVars
    <2>2. Carries(a)
      <3>1. CASE Call(a, t, "reconcileAcquire", "reconcile", 0, 0)
        BY <3>1, CallCarries
      <3> QED BY <1>2, <1>w, <3>1 DEF AcquireReply, NewHandle, EndAttempt
    <2> QED BY <2>1, <2>2 DEF Times
  <1>3. CASE ReconcileAcquire(a, t)
    BY <1>3, <1>w DEF ReconcileAcquire, NewHandle, EndAttempt, Times, timerVars
  <1>4. ASSUME NEW d \in RenewTimes, Renew(a, t, d)
        PROVE  Times(a)
    <2>1. Carries(a)
      BY <1>4, CallCarries DEF Renew
    <2> QED BY <1>4, <2>1 DEF Renew, Times, timerVars
  <1>5. CASE IsHeld(a, t)
    <2>1. Carries(a)
      BY <1>5, CallCarries DEF IsHeld
    <2> QED BY <1>5, <2>1 DEF IsHeld, Times, timerVars
  <1>6. CASE Enter(a, t)
    <2>1. Carries(a)
      BY <1>6, CallCarries DEF Enter
    <2> QED BY <1>6, <2>1 DEF Enter, Times, timerVars
  <1>7. CASE ProofReply(a, t) \/ EnterReply(a, t) \/ StartWorker(a, t)
             \/ StartWorkerFails(a, t) \/ StopReady(a, t) \/ StopJoin(a, t)
             \/ StopExpires(a, t)
    BY <1>7, <1>w DEF ProofReply, EnterReply, StartWorker, StartWorkerFails,
                      StopReady, StopJoin, StopExpires, Times, timerVars
  <1>8. CASE Release(a, t) \/ Exit(a, t)
    BY <1>8, <1>w DEF Release, Exit, BeginStop, Times, timerVars
  <1>9. CASE ReleaseCheck(a, t) \/ ReleaseReply(a, t) \/ ReconcileRelease(a, t)
    <2>1. UNCHANGED <<serverVars, minLeft>>
      BY <1>9 DEF ReleaseCheck, ReleaseReply, ReconcileRelease, timerVars
    <2>2. CASE \E pc \in {"release", "repeatRelease"} : SendRelease(a, t, pc)
      BY <2>1, <2>2, CallCarries DEF SendRelease, Times
    <2>3. CASE Call(a, t, "reconcileRelease", "reconcile", 0, 0)
      BY <2>1, <2>3, CallCarries DEF Times
    <2>4. CASE wire' = wire
      BY <2>1, <2>4, <1>w DEF Times
    <2> QED BY <1>9, <2>2, <2>3, <2>4
            DEF ReleaseCheck, ReleaseReply, ReconcileRelease
  <1> QED BY <1>1, <1>2, <1>3, <1>4, <1>5, <1>6, <1>7, <1>8, <1>9 DEF ThreadStep

(* So is a call that is given up, with the thread or the process that made *)
(* it or without.                                                          *)
LEMMA NetworkTimes ==
    ASSUME Typed, NEW a \in Attempts, NEW t \in Threads, NetworkStep(a, t)
    PROVE  Times(a)
  <1>1. /\ wire \ CallsOf(a, t) \in SUBSET wire /\ CallsOf(a, t) \in SUBSET wire
        /\ \/ wire' = wire \ CallsOf(a, t)
           \/ wire' = (wire \ CallsOf(a, t)) \cup Orphaned(CallsOf(a, t))
    BY DEF NetworkStep, TimeOut, Refuse, CallsOf
  <1>2. Carries(a)
    BY <1>1, OrphanCarries
  <1> QED BY <1>2 DEF NetworkStep, TimeOut, Refuse, Times, timerVars

(* The worker and a crash.                                                 *)
LEMMA WorkerTimes ==
    ASSUME Typed, NEW a \in Attempts, WorkerStep(a) \/ Crash(a)
    PROVE  Times(a)
  <1>1. CASE WorkerWakes(a)
    <2>1. Carries(a)
      <3>1. CASE Call(a, Worker, "renew", "renew", fence[a], LeaseTime)
        BY <3>1, CallCarries
      <3> QED BY <1>1, <3>1 DEF WorkerWakes, Carries
    <2> QED BY <1>1, <2>1 DEF WorkerWakes, Times, timerVars
  <1>2. CASE WorkerReply(a)
    BY <1>2 DEF WorkerReply, Times, Carries, timerVars
  <1>3. CASE WorkerCrash(a)
    <2>1. /\ wire \ CallsOf(a, Worker) \in SUBSET wire
          /\ CallsOf(a, Worker) \in SUBSET wire
      BY DEF CallsOf
    <2>2. Carries(a)
      BY <1>3, <2>1, OrphanCarries DEF WorkerCrash
    <2> QED BY <1>3, <2>2 DEF WorkerCrash, Times, timerVars
  <1>4. CASE Crash(a)
    <2> DEFINE R == {r \in wire : r.token # a}
               Q == {r \in wire : r.token = a}
    <2>1. R \in SUBSET wire /\ Q \in SUBSET wire /\ wire' = R \cup Orphaned(Q)
      BY <1>4 DEF Crash
    <2>2. Carries(a)
      BY <2>1, OrphanCarries
    <2> QED BY <1>4, <2>2 DEF Crash, Times, timerVars
  <1> QED BY <1>1, <1>2, <1>3, <1>4 DEF WorkerStep

(* The steps of the clients keep the minimum lease.                        *)
LEMMA MinClient ==
    ASSUME Base, MinInv, LongRenewals, NEW a \in Attempts, Times(a)
    PROVE  MinInv'
  <1>0. /\ minLeft \in [Attempts -> 0 .. MinLease] /\ MinLease \in Nat
        /\ \A r \in wire : r.token \in Attempts
        /\ MinLease <= LeaseTime
        /\ UNCHANGED <<lease, grant>>
    BY TimeAssumption DEF Base, Typed, Fits, Requests, Times, serverVars
  <1>1. CASE minLeft' = minLeft
    <2>1. ASSUME NEW r \in wire'
          PROVE  /\ r.kind = "release" => minLeft[r.token] <= r.ttl
                 /\ r.kind \in {"acquire", "renew"} => MinLease <= r.ttl
      <3>1. CASE \E q \in wire : q.token = r.token /\ q.kind = r.kind /\ q.ttl = r.ttl
        BY <3>1 DEF MinInv
      <3>2. CASE r.token = a /\ Sized(r)
        BY <1>0, <3>2 DEF Sized, LongRenewals
      <3> QED BY <3>1, <3>2 DEF Times, Carries
    <2> QED BY <1>0, <1>1, <2>1 DEF MinInv, MinimumLeaseKept
  <1>2. CASE /\ minLeft' = [minLeft EXCEPT ![a] = MinLease]
             /\ attempt[a] = "new" \/ \E t \in Threads : At(a, t, "sleep")
             /\ \A r \in wire' \ wire : r.kind # "release"
    <2>1. grant[a] = 0 /\ lease.owner # a
      BY <1>2 DEF Base, AcquireInv, GrantInv
    <2>2. \A b \in Attempts \ {a} : minLeft'[b] = minLeft[b]
      BY <1>0, <1>2
    <2>3. ASSUME NEW r \in wire'
          PROVE  /\ r.kind = "release" => minLeft'[r.token] <= r.ttl
                 /\ r.kind \in {"acquire", "renew"} => MinLease <= r.ttl
      <3>1. r.kind = "release" => r \in wire /\ r.token # a
        BY <1>2, <2>1 DEF Base, GrantInv
      <3>2. r.kind \in {"acquire", "renew"} => MinLease <= r.ttl
        BY <1>0 DEF Times, Carries, MinInv, Sized, LongRenewals
      <3> QED BY <1>0, <2>2, <3>1, <3>2 DEF MinInv
    <2> QED BY <1>0, <2>1, <2>2, <2>3 DEF MinInv, MinimumLeaseKept
  <1> QED BY <1>1, <1>2 DEF Times

(* So do the scripts.                                                      *)
LEMMA MinServe ==
    ASSUME Base, MinInv, NEW r \in wire, Serve(r)
    PROVE  MinInv'
  <1>0. /\ minLeft \in [Attempts -> 0 .. MinLease] /\ MinLease \in Nat
        /\ r \in Requests /\ r.token \in Attempts
        /\ lease \in [owner : Attempts \cup {Nobody, Foreign}, fence : Nat, ttl : Nat]
        /\ grant \in [Attempts -> Nat]
        /\ Nobody \notin Attempts /\ Foreign \notin Attempts /\ Foreign # Nobody
        /\ UNCHANGED minLeft
    BY TimeAssumption, NameAssumption DEF Base, Typed, Fits, Requests, Serve, timerVars
  <1>1. wire' \subseteq wire
    BY DEF Serve, ServeGrant, ServeNoGrant, ServeRenew, ServeProbe, ServeReconcile,
           ServeRelease, Answer
  <1>2. ASSUME /\ \A b \in Attempts : lease'.owner = b => minLeft[b] <= lease'.ttl
               /\ \A b \in Attempts : grant'[b] > 0 /\ lease'.owner \notin {b, Foreign} =>
                     minLeft[b] = 0
        PROVE  MinInv'
    BY <1>0, <1>1, <1>2 DEF MinInv, MinimumLeaseKept
  <1>3. CASE UNCHANGED <<lease, grant>>
    BY <1>2, <1>3 DEF MinInv, MinimumLeaseKept
  <1>4. CASE ServeGrant(r)
    <2>1. /\ lease.owner = Nobody
          /\ lease'.owner = r.token /\ lease'.ttl = r.ttl /\ MinLease <= r.ttl
          /\ \A b \in Attempts \ {r.token} : grant'[b] = grant[b]
      BY <1>0, <1>4 DEF ServeGrant, LeasePresent, MinInv
    <2>2. \A b \in Attempts \ {r.token} : grant[b] > 0 => minLeft[b] = 0
      BY <1>0, <2>1 DEF MinInv, MinimumLeaseKept
    <2>3. minLeft[r.token] <= r.ttl
      <3>1. minLeft[r.token] \in 0 .. MinLease /\ r.ttl \in Nat
        BY <1>0 DEF Requests
      <3> QED BY <1>0, <2>1, <3>1
    <2> QED BY <1>2, <2>1, <2>2, <2>3
  <1>5. CASE ServeRenew(r) /\ Owns(r)
    <2>1. /\ lease.owner = r.token /\ lease'.owner = r.token /\ lease'.ttl = r.ttl
          /\ MinLease <= r.ttl /\ grant' = grant
      BY <1>0, <1>5 DEF ServeRenew, Owns, Held, MinInv
    <2>2. minLeft[r.token] <= r.ttl
      <3>1. minLeft[r.token] \in 0 .. MinLease /\ r.ttl \in Nat
        BY <1>0 DEF Requests
      <3> QED BY <1>0, <2>1, <3>1
    <2> QED BY <1>2, <2>1, <2>2 DEF MinInv, MinimumLeaseKept
  <1>6. CASE ServeRelease(r) /\ Owns(r)
    <2>1. lease.owner = r.token /\ grant' = grant /\ minLeft[r.token] <= r.ttl
      BY <1>6 DEF ServeRelease, Owns, Held, MinInv
    <2>2. CASE r.ttl = 0
      <3>1. lease' = NoLease /\ minLeft[r.token] = 0
        <4>1. minLeft[r.token] \in 0 .. MinLease
          BY <1>0
        <4> QED BY <1>0, <1>6, <2>1, <2>2, <4>1 DEF ServeRelease
      <3>2. \A b \in Attempts : grant[b] > 0 => minLeft[b] = 0
        BY <1>0, <2>1, <3>1 DEF MinInv, MinimumLeaseKept
      <3> QED BY <1>0, <1>2, <2>1, <3>1, <3>2 DEF NoLease
    <2>3. CASE r.ttl # 0
      <3>1. lease'.owner = r.token /\ lease'.ttl = r.ttl
        BY <1>0, <1>6, <2>1, <2>3 DEF ServeRelease
      <3> QED BY <1>2, <2>1, <3>1 DEF MinInv, MinimumLeaseKept
    <2> QED BY <2>2, <2>3
  <1> QED BY <1>3, <1>4, <1>5, <1>6
          DEF Serve, ServeNoGrant, ServeProbe, ServeReconcile, ServeRenew,
              ServeRelease, serverVars

(* So do the clock and the faults of the server.                           *)
LEMMA MinFade ==
    ASSUME Base, MinInv, Tick \/ LoseKey \/ Overwrite
    PROVE  MinInv'
  <1>0. /\ minLeft \in [Attempts -> 0 .. MinLease] /\ MinLease \in Nat
        /\ \A r \in wire : r.token \in Attempts /\ r.ttl \in Nat
        /\ lease \in [owner : Attempts \cup {Nobody, Foreign}, fence : Nat, ttl : Nat]
        /\ Nobody \notin Attempts /\ Foreign \notin Attempts /\ Foreign # Nobody
    BY TimeAssumption, NameAssumption DEF Base, Typed, Fits, Requests
  <1>1. CASE Tick
    <2>0. UNCHANGED <<grant, wire>>
      BY <1>1 DEF Tick
    <2>1. ASSUME NEW b \in Attempts
          PROVE  /\ minLeft'[b] = Down(minLeft[b])
                 /\ \A n \in Nat : minLeft[b] <= n => minLeft'[b] <= n
                 /\ \A n \in Nat : minLeft[b] <= n /\ n # 0 => minLeft'[b] <= n - 1
                 /\ minLeft[b] = 0 => minLeft'[b] = 0
      <3>1. minLeft[b] \in 0 .. MinLease /\ minLeft'[b] = Down(minLeft[b])
        BY <1>0, <1>1 DEF Tick
      <3> QED BY <1>0, <3>1 DEF Down
    <2>2. \A r \in wire : r.kind = "release" => minLeft'[r.token] <= r.ttl
      BY <1>0, <2>1 DEF MinInv
    <2>3. ASSUME NEW b \in Attempts, lease'.owner = b
          PROVE  minLeft'[b] <= lease'.ttl
      <3>1. lease.owner = b /\ lease.ttl # 0 /\ lease'.ttl = lease.ttl - 1
        BY <1>0, <1>1, <2>3 DEF Tick, NoLease
      <3> QED BY <1>0, <2>1, <3>1 DEF MinInv
    <2>4. ASSUME NEW b \in Attempts, grant[b] > 0, lease'.owner \notin {b, Foreign}
          PROVE  minLeft'[b] = 0
      <3>1. CASE lease.owner = b
        <4>1. lease.ttl = 0
          BY <1>0, <1>1, <2>4, <3>1 DEF Tick
        <4>2. minLeft[b] = 0
          <5>1. minLeft[b] \in 0 .. MinLease /\ minLeft[b] <= 0
            BY <1>0, <3>1, <4>1 DEF MinInv
          <5> QED BY <1>0, <5>1
        <4> QED BY <2>1, <4>2
      <3>2. CASE lease.owner # b
        <4>1. lease.owner # Foreign
          BY <1>1, <2>4 DEF Tick
        <4> QED BY <2>1, <2>4, <3>2, <4>1 DEF MinInv, MinimumLeaseKept
      <3> QED BY <3>1, <3>2
    <2> QED BY <1>0, <2>0, <2>2, <2>3, <2>4 DEF MinInv, MinimumLeaseKept
  <1>2. CASE LoseKey
    BY <1>2 DEF LoseKey, MinInv, MinimumLeaseKept, timerVars
  <1>3. CASE Overwrite
    <2>1. lease'.owner = Foreign /\ UNCHANGED <<grant, wire, minLeft>>
      BY <1>3 DEF Overwrite, timerVars
    <2> QED BY <1>0, <2>1 DEF MinInv, MinimumLeaseKept
  <1> QED BY <1>1, <1>2, <1>3

(* Nobody else gets the lock before the minimum lease of its last owner is *)
(* over, for every number of owners and however their calls are delayed,   *)
(* lost or executed late, if no caller renews for less than that.          *)
THEOREM MinimumCorrect ==
    ASSUME LongRenewals
    PROVE  Spec => []MinimumLeaseKept
  <1>1. Init => MinInv
    <2> SUFFICES ASSUME Init
                 PROVE  MinInv
      OBVIOUS
    <2>1. lease.owner = Nobody /\ wire = {} /\ \A a \in Attempts : minLeft[a] = 0
      BY DEF Init, NoLease
    <2> QED BY <2>1, NameAssumption DEF MinInv, MinimumLeaseKept
  <1>2. IInv /\ MinInv /\ [Next]_vars => MinInv'
    <2> SUFFICES ASSUME IInv, MinInv, [Next]_vars
                 PROVE  MinInv'
      OBVIOUS
    <2>0. Base /\ Typed /\ UserThreads \subseteq Threads
      BY IInvBase DEF Base, Threads
    <2>1. ASSUME NEW a \in Attempts, Times(a)
          PROVE  MinInv'
      BY <2>0, <2>1, MinClient
    <2>2. ASSUME NEW a \in Attempts, NEW t \in UsersOf[a], ThreadStep(a, t)
          PROVE  MinInv'
      BY <2>0, <2>1, <2>2, ThreadTimes, NameAssumption
    <2>3. ASSUME NEW a \in Attempts, WorkerStep(a) \/ Crash(a)
          PROVE  MinInv'
      BY <2>0, <2>1, <2>3, WorkerTimes
    <2>4. ASSUME NEW a \in Attempts, NEW t \in Threads, NetworkStep(a, t)
          PROVE  MinInv'
      BY <2>0, <2>1, <2>4, NetworkTimes
    <2>5. CASE \E r \in wire : Serve(r)
      BY <2>0, <2>5, MinServe
    <2>6. CASE Tick \/ LoseKey \/ Overwrite
      BY <2>0, <2>6, MinFade
    <2>7. CASE UNCHANGED vars
      BY <2>7 DEF vars, serverVars, timerVars, MinInv, MinimumLeaseKept
    <2> QED BY <2>2, <2>3, <2>4, <2>5, <2>6, <2>7 DEF Next
  <1>3. MinInv => MinimumLeaseKept
    BY DEF MinInv
  <1> QED BY <1>1, <1>2, <1>3, Invariance, PTL DEF Spec

-----------------------------------------------------------------------------
(* A handle that one thread uses.  Its release is sent when its worker has *)
(* ended, and a renewal that can still be executed has made the handle     *)
(* UNKNOWN or LOST, so that no release was sent at all.  When threads      *)
(* share a handle neither is so: the renewal of one may be on its way when *)
(* another one releases.                                                   *)

OneUser == \A a \in Attempts : \A t, u \in UsersOf[a] : t = u

ReleasePoints == {"release", "reconcileRelease", "repeatRelease"}
RenewPoints   == {"renew", "enterProof"}

\* The threads of a handle, and its worker.
Placed(a) ==
    /\ \A t \in Threads : ~At(a, t, "idle") => t \in UsersOf[a] \cup {Worker}
    /\ op[a][Worker].pc \in {"idle", "renew"}
    /\ At(a, Worker, "renew") => worker[a] = "running"

\* There is no worker before the body and none when the release is sent.
Ending(a) ==
    /\ state[a] \in {"NONE", "ACQUIRED"} => worker[a] = "none"
    /\ \A t \in Threads :
          /\ op[a][t].pc \in {"enterProof", "relCheck"} \cup ReleasePoints =>
                worker[a] = "none"
          /\ op[a][t].pc \in ReleasePoints => state[a] \notin Terminal
          /\ op[a][t].pc \in {"enterProof", "starting"} =>
                state[a] \notin {"NONE", "ACQUIRED"}
          /\ At(a, t, "starting") => worker[a] = "starting"
    /\ state[a] = "RELEASED" =>
          /\ worker[a] = "none"
          /\ \A t \in Threads : op[a][t].pc \in {"idle", "relCheck"}
          /\ \A r \in wire : r.token = a => r.kind # "renew"

\* A renewal that nobody waits for is known to be in doubt.
Late(a) ==
    \A r \in wire : r.token = a /\ r.kind = "renew" /\ r.from = Nobody =>
        \/ attempt[a] = "crashed"
        \/ state[a] \in {"LOST", "UNKNOWN"}
        \/ \E t \in Threads : op[a][t].pc \in RenewPoints /\ Status(a, t) = "UNCERTAIN"

Solo(a) == Placed(a) /\ Ending(a) /\ Late(a)

(* No renewal is on its way when the release is.                           *)
LEMMA NoRenewal ==
    ASSUME IInv, OneUser, NEW a \in Attempts, Solo(a), NEW t \in UsersOf[a],
           \/ op[a][t].pc \in ReleasePoints
           \/ At(a, t, "relCheck") /\ state[a] \notin Terminal,
           NEW r \in wire, r.token = a, r.kind = "renew"
    PROVE  FALSE
  <1>0. /\ t \in Threads /\ Worker \in Threads /\ Nobody \notin Threads /\ t # Worker
        /\ r.from \in Threads \cup {Nobody}
    BY NameAssumption DEF Threads, IInv, TypeOK, Requests
  <1>1. /\ worker[a] = "none" /\ state[a] \notin Terminal /\ attempt[a] = "handle"
        /\ At(a, Worker, "idle")
    BY <1>0 DEF Solo, Ending, Placed, At, ReleasePoints, IInv, ControlInv, AcquirePoints
  <1>2. \A u \in Threads : op[a][u].pc \notin RenewPoints
    <2> SUFFICES ASSUME NEW u \in Threads, op[a][u].pc \in RenewPoints
                 PROVE  FALSE
      OBVIOUS
    <2>1. u \in UsersOf[a] \cup {Worker} /\ u # Worker
      BY <1>1 DEF Solo, Placed, At, RenewPoints
    <2>2. u = t
      BY <2>1 DEF OneUser
    <2> QED BY <2>2 DEF At, RenewPoints, ReleasePoints
  <1>3. CASE r.from = Nobody
    BY <1>1, <1>2, <1>3 DEF Solo, Late, Terminal
  <1>4. CASE r.from # Nobody
    BY <1>0, <1>2, <1>4 DEF IInv, WireInv, Expects, RenewPoints
  <1> QED BY <1>3, <1>4

\* A step that leaves handle a alone.
Aside(a) ==
    /\ \A t \in Threads : op'[a][t] = op[a][t]
    /\ state'[a] = state[a] /\ attempt'[a] = attempt[a] /\ worker'[a] = worker[a]
    /\ \A r \in wire' : r.token = a => r \in wire

(* The steps of the threads of one handle leave every other handle alone.  *)
LEMMA OthersAside ==
    ASSUME Typed, NEW a \in Attempts, NEW b \in Attempts \ {a},
           \/ \E t \in Threads : Local(b, t)
           \/ \E T \in SUBSET Threads : Drops(b, T)
    PROVE  Aside(a)
  <1>1. ASSUME NEW t \in Threads, Local(b, t)
        PROVE  Aside(a)
    <2>1. PICK pc \in Places : Moves(b, t, pc) /\ Sends(b, t, pc) /\ Flows(b, t, pc)
      BY <1>1 DEF Local
    <2>2. \A r \in wire' : r.token = a => r \in wire
      BY <2>1 DEF Sends
    <2>3. state'[a] = state[a]
      BY <1>1 DEF Local, Learns
    <2> QED BY <2>1, <2>2, <2>3 DEF Aside, Moves, Flows
  <1>2. ASSUME NEW T \in SUBSET Threads, Drops(b, T)
        PROVE  Aside(a)
    <2>1. ASSUME NEW r \in wire', r.token = a
          PROVE  r \in wire
      <3>1. ASSUME NEW q \in wire, q.token = b, r = [q EXCEPT !.from = Nobody]
            PROVE  FALSE
        <4>1. q \in Requests
          BY DEF Typed, Fits
        <4> QED BY <2>1, <3>1, <4>1 DEF Requests
      <3> QED BY <1>2, <3>1 DEF Drops
    <2> QED BY <1>2, <2>1 DEF Aside, Drops
  <1> QED BY <1>1, <1>2

(* Such a step keeps the invariant of the handle.                          *)
LEMMA SoloOther ==
    ASSUME NEW a \in Attempts, Solo(a), Aside(a)
    PROVE  Solo(a)'
  <1>0. Worker \in Threads
    BY DEF Threads
  <1>1. Placed(a)' /\ Ending(a)'
    BY <1>0 DEF Solo, Placed, Ending, At, Aside
  <1>2. Late(a)'
    BY DEF Solo, Late, Status, Aside
  <1> QED BY <1>1, <1>2 DEF Solo

(* A step of the thread of a handle, or of its worker.                     *)
LEMMA SoloMove ==
    ASSUME IInv, OneUser, NEW a \in Attempts, Solo(a),
           NEW t \in UsersOf[a] \cup {Worker}, NEW pc, Moves(a, t, pc),
           \A r \in wire' : r.token = a /\ r.kind = "renew" => r \in wire \/ r.from # Nobody,
           attempt[a] # "crashed",
           state[a] \in {"LOST", "UNKNOWN"} => state'[a] \in {"LOST", "UNKNOWN"},
           op[a][t].pc \in RenewPoints /\ Status(a, t) = "UNCERTAIN" =>
               state'[a] \in {"LOST", "UNKNOWN"},
           state'[a] \in {"NONE", "ACQUIRED"} => worker'[a] = "none",
           pc \in {"enterProof", "relCheck"} \cup ReleasePoints => worker'[a] = "none",
           pc \in ReleasePoints => state'[a] \notin Terminal,
           pc \in {"enterProof", "starting"} => state'[a] \notin {"NONE", "ACQUIRED"},
           pc = "starting" => worker'[a] = "starting",
           state[a] \notin {"NONE", "ACQUIRED"} => state'[a] \notin {"NONE", "ACQUIRED"},
           t = Worker =>
               /\ worker[a] = "running"
               /\ pc \in {"idle", "renew"} /\ (pc = "renew" => worker'[a] = "running"),
           t # Worker => worker'[a] = worker[a] \/ At(a, Worker, "idle"),
           state'[a] = "RELEASED" =>
               /\ t # Worker /\ worker'[a] = "none" /\ pc \in {"idle", "relCheck"}
               /\ At(a, Worker, "idle")
               /\ \A r \in wire' : r.token = a => r.kind # "renew"
    PROVE  Solo(a)'
  <1>0. /\ t \in Threads /\ Worker \in Threads /\ Worker \notin UsersOf[a]
        /\ op'[a][t].pc = pc
        /\ \A u \in Threads : u # t => op'[a][u] = op[a][u]
    BY NameAssumption DEF Threads, Moves
  <1>1. Placed(a)'
    BY <1>0 DEF Solo, Placed, At
  <1>2. ASSUME NEW u \in Threads, u # t
        PROVE  /\ op'[a][u].pc \in {"enterProof", "relCheck"} \cup ReleasePoints =>
                     worker'[a] = "none"
               /\ op'[a][u].pc \in ReleasePoints => state'[a] \notin Terminal
               /\ op'[a][u].pc \notin {"enterProof", "starting"}
    <2>1. CASE t = Worker
      <3>1. op[a][u].pc \notin {"enterProof", "relCheck", "starting"} \cup ReleasePoints
        BY <2>1 DEF Solo, Ending, At
      <3> QED BY <1>0, <1>2, <3>1
    <2>2. CASE t # Worker
      <3>1. op[a][u].pc \in {"idle", "renew"}
        BY <1>2, <2>2 DEF Solo, Placed, OneUser, At
      <3> QED BY <1>0, <1>2, <3>1 DEF ReleasePoints
    <2> QED BY <2>1, <2>2
  <1>3. ASSUME state'[a] = "RELEASED", NEW u \in Threads
        PROVE  op'[a][u].pc \in {"idle", "relCheck"}
    BY <1>0, <1>3 DEF Solo, Placed, OneUser, At
  <1>4. Ending(a)'
    BY <1>0, <1>2, <1>3 DEF Ending, At
  <1>5. Late(a)'
    BY <1>0 DEF Solo, Late, Status
  <1> QED BY <1>1, <1>4, <1>5 DEF Solo

(* A step of the thread that uses the handle.                              *)
LEMMA SoloThread ==
    ASSUME IInv, OneUser, NEW a \in Attempts, Solo(a), NEW t \in UsersOf[a],
           ThreadStep(a, t), [Next]_vars
    PROVE  Solo(a)'
  <1>0. /\ t \in Threads /\ t # Worker /\ t # Nobody /\ Worker \in Threads
        /\ t \in UsersOf[a] \cup {Worker} /\ t \in UserThreads
    BY NameAssumption DEF Threads
  <1>1. /\ state[a] \in Terminal => state'[a] \in {state[a], "UNKNOWN"}
        /\ state[a] \in {"LOST", "UNKNOWN"} => state'[a] \in {"LOST", "UNKNOWN"}
    BY EndedStep DEF Terminal
  <1>2. PICK pc \in Places : Moves(a, t, pc)
    BY <1>0, IInvBase, LocalStep DEF Local
  <1>3. op'[a][t].pc = pc
    BY <1>2 DEF Moves
  <1>4. /\ state \in [Attempts -> {"NONE", "ACQUIRED", "ENTERED"} \cup Terminal]
        /\ worker \in [Attempts -> {"none", "starting", "running", "exited"}]
        /\ op \in [Attempts -> [Threads -> Ops(Points)]]
    BY DEF IInv, TypeOK, Ops
  <1>5. \A q : Goto(a, t, q) => pc = q
    <2> SUFFICES ASSUME NEW q, Goto(a, t, q)
                 PROVE  pc = q
      OBVIOUS
    <2>1. op'[a][t] = [pc |-> q, reply |-> NoReply]
      BY <1>0, <1>4 DEF Goto
    <2> QED BY <1>3, <2>1
  <1>6. ASSUME NEW q, NEW k, NEW f, NEW l, Call(a, t, q, k, f, l)
        PROVE  /\ pc = q
               /\ \A r \in wire' : r \in wire \/ (r.kind = k /\ r.from = t)
    <2>1. Goto(a, t, q)
      BY <1>6 DEF Call, Goto
    <2> QED BY <1>5, <1>6, <2>1 DEF Call
  <1>7. At(a, Worker, "idle") \/ worker[a] = "running"
    BY DEF Solo, Placed, At
  <1> HIDE DEF Solo
  <1>10. CASE TryAcquire(a, t) \/ AcquireReply(a, t) \/ AcquireAgain(a, t)
              \/ ReconcileAcquire(a, t)
    <2>1. /\ attempt[a] \in {"new", "running"} /\ state[a] = "NONE" /\ worker[a] = "none"
      <3>1. op[a][t].pc \in AcquirePoints \/ attempt[a] = "new"
        BY <1>10 DEF TryAcquire, AcquireReply, AcquireAgain, ReconcileAcquire,
                     Replied, At, AcquirePoints
      <3> QED BY <1>0, <3>1 DEF IInv, ControlInv, GrantInv
    <2>2. state'[a] \in {"NONE", "ACQUIRED"} /\ worker' = worker
      BY <1>4, <1>10, <2>1 DEF TryAcquire, AcquireReply, AcquireAgain, ReconcileAcquire,
                         NewHandle, EndAttempt
    <2>3. /\ pc \in {"acquire", "sleep", "reconcileAcquire", "idle"}
          /\ \A r \in wire' : r \in wire \/ r.kind # "renew"
      BY <1>5, <1>6, <1>10
         DEF TryAcquire, AcquireReply, AcquireAgain, ReconcileAcquire, SendAcquire,
             NewHandle, EndAttempt
    <2>4. op[a][t].pc \notin RenewPoints
      BY <1>0, <2>1 DEF IInv, ControlInv, RenewPoints, AcquirePoints
    <2> QED BY <1>0, <1>1, <1>2, <2>1, <2>2, <2>3, <2>4, SoloMove DEF ReleasePoints
  <1>11. CASE (\E d \in RenewTimes : Renew(a, t, d)) \/ IsHeld(a, t)
    <2>1. /\ attempt[a] = "handle" /\ state[a] \notin Terminal /\ At(a, t, "idle")
          /\ UNCHANGED <<state, worker>>
      BY <1>11 DEF Renew, IsHeld, Idle, handleVars
    <2>2. /\ pc \in {"renew", "probe"}
          /\ \A r \in wire' : r \in wire \/ r.from = t
      BY <1>6, <1>11 DEF Renew, IsHeld
    <2>3. state[a] \in {"NONE", "ACQUIRED"} => worker[a] = "none"
      BY DEF Solo, Ending
    <2> QED BY <1>0, <1>1, <1>2, <2>1, <2>2, <2>3, SoloMove
            DEF ReleasePoints, RenewPoints, At, Terminal
  <1>12. CASE Enter(a, t)
    <2>1. /\ attempt[a] = "handle" /\ state[a] = "ACQUIRED" /\ At(a, t, "idle")
          /\ state'[a] = "ENTERED" /\ worker' = worker
      BY <1>4, <1>12 DEF Enter, Idle
    <2>2. /\ pc = "enterProof"
          /\ \A r \in wire' : r \in wire \/ r.from = t
      BY <1>6, <1>12 DEF Enter
    <2>3. worker[a] = "none"
      BY <2>1 DEF Solo, Ending
    <2> QED BY <1>0, <1>1, <1>2, <2>1, <2>2, <2>3, SoloMove
            DEF ReleasePoints, RenewPoints, At, Terminal
  <1>13. CASE ProofReply(a, t)
    <2>1. /\ op[a][t].pc \in {"renew", "probe"} /\ attempt[a] = "handle"
          /\ state'[a] = AfterProof(state[a], Status(a, t))
          /\ worker' = worker /\ wire' = wire /\ pc = "idle"
      BY <1>0, <1>4, <1>5, <1>13
         DEF ProofReply, Replied, At, IInv, ControlInv, AcquirePoints
    <2>2. /\ state[a] \in {"NONE", "ACQUIRED"} => worker[a] = "none"
          /\ state[a] # "RELEASED"
      BY <1>0, <2>1 DEF Solo, Ending
    <2>3. /\ state'[a] \in {state[a], "LOST", "UNKNOWN"}
          /\ Status(a, t) = "UNCERTAIN" => state'[a] \in {"LOST", "UNKNOWN"}
      BY <2>1, <2>2 DEF AfterProof, Terminal
    <2> QED BY <1>0, <1>1, <1>2, <2>1, <2>2, <2>3, SoloMove DEF ReleasePoints
  <1>14. CASE EnterReply(a, t)
    <2>1. /\ op[a][t].pc = "enterProof" /\ attempt[a] = "handle"
          /\ state'[a] = AfterProof(state[a], Status(a, t))
          /\ wire' = wire /\ pc \in {"idle", "starting"}
          /\ worker' = worker \/ worker' = [worker EXCEPT ![a] = "starting"]
          /\ pc = "starting" => worker'[a] = "starting"
      BY <1>0, <1>4, <1>5, <1>14
         DEF EnterReply, Replied, At, IInv, ControlInv, AcquirePoints
    <2>2. state[a] \notin {"NONE", "ACQUIRED", "RELEASED"} /\ worker[a] = "none"
      BY <1>0, <2>1 DEF Solo, Ending
    <2>3. /\ state'[a] \in {state[a], "LOST", "UNKNOWN"}
          /\ Status(a, t) = "UNCERTAIN" => state'[a] \in {"LOST", "UNKNOWN"}
      BY <2>1, <2>2 DEF AfterProof, Terminal
    <2> QED BY <1>0, <1>1, <1>2, <1>7, <2>1, <2>2, <2>3, SoloMove DEF ReleasePoints
  <1>15. CASE StartWorker(a, t) \/ StartWorkerFails(a, t)
    <2>1. /\ op[a][t].pc = "starting" /\ attempt[a] = "handle"
          /\ wire' = wire /\ state' = state
          /\ pc \in {"stopRaise", "idle", "relCheck", "stopJoin"}
          /\ worker'[a] \in {"none", "running"}
          /\ pc = "relCheck" => worker'[a] = "none"
      BY <1>0, <1>4, <1>5, <1>15
         DEF StartWorker, StartWorkerFails, At, IInv, ControlInv, AcquirePoints
    <2>2. state[a] \notin {"NONE", "ACQUIRED", "RELEASED"} /\ worker[a] = "starting"
      BY <1>0, <2>1 DEF Solo, Ending, At
    <2> QED BY <1>0, <1>1, <1>2, <1>7, <2>1, <2>2, SoloMove DEF ReleasePoints, RenewPoints
  <1>16. CASE Release(a, t) \/ Exit(a, t)
    <2>1. /\ op[a][t].pc = "idle" /\ attempt[a] = "handle"
          /\ wire' = wire /\ state' = state /\ worker' = worker
          /\ pc \in {"relCheck", "stopReady", "stopJoin"}
          /\ pc = "relCheck" <=> worker[a] = "none"
      BY <1>0, <1>4, <1>5, <1>16 DEF Release, Exit, BeginStop, Idle, At
    <2>2. /\ state[a] \in {"NONE", "ACQUIRED"} => worker[a] = "none"
          /\ state[a] = "RELEASED" => /\ worker[a] = "none"
                                      /\ \A r \in wire : r.token = a => r.kind # "renew"
      BY DEF Solo, Ending
    <2> QED BY <1>0, <1>1, <1>2, <1>7, <2>1, <2>2, SoloMove DEF ReleasePoints, RenewPoints
  <1>17. CASE StopReady(a, t) \/ StopJoin(a, t) \/ StopExpires(a, t)
    <2>1. /\ op[a][t].pc \in {"stopReady", "stopJoin", "stopRaise"} /\ attempt[a] = "handle"
          /\ wire' = wire /\ state'[a] \in {state[a], "UNKNOWN"}
          /\ pc \in {"relCheck", "idle", "stopJoin"}
          /\ worker' = worker \/ (worker[a] # "running" /\ worker'[a] = "none")
          /\ pc = "relCheck" => worker'[a] = "none"
      BY <1>0, <1>4, <1>5, <1>17
         DEF StopReady, StopJoin, StopExpires, At, IInv, ControlInv, AcquirePoints, handleVars
    <2>2. /\ state[a] \in {"NONE", "ACQUIRED"} => worker[a] = "none"
          /\ state[a] # "RELEASED"
      BY <1>0, <2>1 DEF Solo, Ending
    <2> QED BY <1>0, <1>1, <1>2, <1>7, <2>1, <2>2, SoloMove DEF ReleasePoints, RenewPoints
  <1>18. CASE ReleaseCheck(a, t)
    <2>1. /\ op[a][t].pc = "relCheck" /\ attempt[a] = "handle"
          /\ UNCHANGED <<state, worker>>
          /\ \A r \in wire' : r \in wire \/ r.kind = "release"
          /\ pc = "idle" \/ (pc = "release" /\ state[a] \notin Terminal)
      <3>1. /\ op[a][t].pc = "relCheck"
            /\ UNCHANGED <<state, worker>>
        BY <1>18 DEF ReleaseCheck, At, handleVars
      <3>2. attempt[a] = "handle"
        BY <1>0, <3>1 DEF IInv, ControlInv, AcquirePoints
      <3>3. CASE Goto(a, t, "idle") /\ UNCHANGED wire
        BY <1>5, <3>1, <3>2, <3>3
      <3>4. CASE state[a] \notin Terminal /\ SendRelease(a, t, "release")
        BY <1>6, <3>1, <3>2, <3>4 DEF SendRelease
      <3> QED BY <1>18, <3>3, <3>4 DEF ReleaseCheck
    <2>2. /\ worker[a] = "none"
          /\ state[a] = "RELEASED" => \A r \in wire : r.token = a => r.kind # "renew"
      BY <1>0, <2>1 DEF Solo, Ending
    <2> QED BY <1>0, <1>1, <1>2, <1>7, <2>1, <2>2, SoloMove
            DEF ReleasePoints, RenewPoints, Terminal
  <1>19. CASE ReleaseReply(a, t) \/ ReconcileRelease(a, t)
    <2>1. /\ op[a][t].pc \in ReleasePoints /\ attempt[a] = "handle"
      BY <1>0, <1>19 DEF ReleaseReply, ReconcileRelease, Replied, At, IInv, ControlInv,
                         AcquirePoints, ReleasePoints
    <2>2. /\ worker[a] = "none" /\ state[a] \notin Terminal
          /\ \A r \in wire : r.token = a => r.kind # "renew"
      <3>1. worker[a] = "none" /\ state[a] \notin Terminal
        BY <1>0, <2>1 DEF Solo, Ending
      <3> QED BY <2>1, <3>1, NoRenewal
    <2>3. /\ worker' = worker
          /\ \A r \in wire' : r \in wire \/ r.kind # "renew"
          /\ pc = "idle" \/ (pc \in ReleasePoints /\ state' = state)
          /\ state'[a] \in {state[a], "RELEASED", "LOST", "UNKNOWN"}
      <3>1. CASE ReleaseReply(a, t)
        BY <1>4, <1>5, <1>6, <3>1 DEF ReleaseReply, AfterRelease, ReleasePoints
      <3>2. CASE ReconcileRelease(a, t)
        BY <1>4, <1>5, <1>6, <3>2 DEF ReconcileRelease, SendRelease, ReleasePoints
      <3> QED BY <1>19, <3>1, <3>2
    <2> QED BY <1>0, <1>1, <1>2, <1>7, <2>1, <2>2, <2>3, SoloMove
            DEF ReleasePoints, RenewPoints, Terminal
  <1> QED BY <1>10, <1>11, <1>12, <1>13, <1>14, <1>15, <1>16, <1>17, <1>18, <1>19
          DEF ThreadStep

(* A step of the worker.                                                   *)
LEMMA SoloWorker ==
    ASSUME IInv, OneUser, NEW a \in Attempts, Solo(a), WorkerStep(a), [Next]_vars
    PROVE  Solo(a)'
  <1>0. /\ Worker \in Threads /\ Worker # Nobody /\ Worker \in UsersOf[a] \cup {Worker}
    BY NameAssumption DEF Threads
  <1>1. /\ state[a] \in Terminal => state'[a] \in {state[a], "UNKNOWN"}
        /\ state[a] \in {"LOST", "UNKNOWN"} => state'[a] \in {"LOST", "UNKNOWN"}
    BY EndedStep DEF Terminal
  <1>2. /\ state \in [Attempts -> {"NONE", "ACQUIRED", "ENTERED"} \cup Terminal]
        /\ worker \in [Attempts -> {"none", "starting", "running", "exited"}]
        /\ op \in [Attempts -> [Threads -> Ops(Points)]]
    BY DEF IInv, TypeOK, Ops
  <1>3. Typed /\ Base
    BY IInvBase DEF Base
  <1>4. worker[a] = "running"
    BY DEF WorkerStep, WorkerWakes, WorkerReply, WorkerCrash, Replied, Solo, Placed, At
  <1>5. /\ state[a] \notin {"NONE", "ACQUIRED", "RELEASED"}
        /\ attempt[a] = "handle"
    BY <1>0, <1>4 DEF Solo, Ending, IInv, ControlInv
  <1> HIDE DEF Solo
  <1>6. CASE WorkerWakes(a) /\ Leaves(a) /\ UNCHANGED <<wire, op>>
    <2>1. /\ op'[a] = op[a] /\ state' = state /\ attempt' = attempt /\ wire' = wire
          /\ worker'[a] = "exited" /\ At(a, Worker, "idle")
      BY <1>2, <1>6 DEF WorkerWakes, Leaves
    <2>2. Placed(a)'
      BY <2>1 DEF Solo, Placed, At
    <2>3. Ending(a)'
      BY <1>4, <1>5, <2>1 DEF Solo, Ending, At
    <2>4. Late(a)'
      BY <2>1 DEF Solo, Late, Status
    <2> QED BY <2>2, <2>3, <2>4 DEF Solo
  <1>7. CASE WorkerWakes(a) /\ Call(a, Worker, "renew", "renew", fence[a], LeaseTime)
             /\ UNCHANGED worker
    <2>1. Goto(a, Worker, "renew")
      BY <1>7 DEF Call, Goto
    <2>2. Moves(a, Worker, "renew")
      BY <1>0, <1>3, <2>1, GotoMoves DEF Places, Points, IoPoints
    <2>3. /\ state' = state /\ At(a, Worker, "idle")
          /\ \A r \in wire' : r \in wire \/ r.from = Worker
      BY <1>7 DEF WorkerWakes, Call
    <2> QED BY <1>0, <1>1, <1>4, <1>5, <1>7, <2>2, <2>3, SoloMove
            DEF ReleasePoints, RenewPoints, At
  <1>8. CASE WorkerReply(a)
    <2>1. Moves(a, Worker, "idle")
      BY <1>0, <1>3, <1>8, GotoMoves DEF WorkerReply, Places, Points
    <2>2. /\ op[a][Worker].pc = "renew" /\ wire' = wire
          /\ state'[a] = AfterProof(state[a], Status(a, Worker))
      BY <1>2, <1>8 DEF WorkerReply, Replied, At
    <2>3. /\ state'[a] \in {state[a], "LOST", "UNKNOWN"}
          /\ Status(a, Worker) = "UNCERTAIN" => state'[a] \in {"LOST", "UNKNOWN"}
      BY <1>5, <2>2 DEF AfterProof, Terminal
    <2> QED BY <1>0, <1>1, <1>4, <1>5, <2>1, <2>2, <2>3, SoloMove DEF ReleasePoints
  <1>9. CASE WorkerCrash(a)
    <2>1. Moves(a, Worker, "idle")
      BY <1>0, <1>3, <1>9, GotoMoves DEF WorkerCrash, Places, Points
    <2>2. state'[a] = "UNKNOWN" /\ worker'[a] = "exited"
      BY <1>2, <1>9 DEF WorkerCrash, Leaves
    <2>3. Placed(a)'
      BY <1>0, <2>1 DEF Solo, Placed, At, Moves
    <2>4. \A u \in Threads : op'[a][u].pc \notin {"enterProof", "relCheck", "starting"} \cup ReleasePoints
      <3>1. \A u \in Threads : op[a][u].pc \notin {"enterProof", "relCheck", "starting"} \cup ReleasePoints
        BY <1>4 DEF Solo, Ending, At
      <3> QED BY <2>1, <3>1 DEF Moves, ReleasePoints
    <2>5. Ending(a)'
      BY <2>2, <2>4 DEF Ending, At
    <2>6. Late(a)'
      BY <2>2 DEF Late
    <2> QED BY <2>3, <2>5, <2>6 DEF Solo
  <1> QED BY <1>6, <1>7, <1>8, <1>9 DEF WorkerStep, WorkerWakes

(* A call that is given up, or a process that dies.                        *)
LEMMA SoloNetwork ==
    ASSUME IInv, NEW a \in Attempts, Solo(a), NEW t \in Threads, NetworkStep(a, t)
    PROVE  Solo(a)'
  <1>0. /\ UNCHANGED handleVars
        /\ op \in [Attempts -> [Threads -> Ops(Points)]] /\ wire \subseteq Requests
    BY DEF NetworkStep, TimeOut, Refuse, IInv, TypeOK, Ops
  <1>1. PICK s \in {"UNCERTAIN", "ERROR"} :
          /\ op' = [op EXCEPT ![a][t] = [pc |-> op[a][t].pc, reply |-> Reply(s)]]
          /\ op[a][t].pc \in IoPoints
          /\ s = "ERROR" => Refuse(a, t)
          /\ s = "UNCERTAIN" => TimeOut(a, t)
    BY <1>0 DEF NetworkStep, TimeOut, Refuse
  <1>2. [pc |-> op[a][t].pc, reply |-> Reply(s)] \in Ops(Points) /\ Reply(s).status = s
    BY <1>0, ReplyType DEF Ops, Statuses
  <1>3. /\ op'[a][t] = [pc |-> op[a][t].pc, reply |-> Reply(s)]
        /\ \A u \in Threads : u # t => op'[a][u] = op[a][u]
    BY <1>0, <1>1, <1>2, OpUpdate
  <1>4. \A u \in Threads : op'[a][u].pc = op[a][u].pc
    BY <1>3
  <1>5. ASSUME NEW r \in wire'
        PROVE  \/ r \in wire
               \/ \E q \in wire : /\ q.token = a /\ q.from = t /\ q.kind = r.kind
                                  /\ r.token = a /\ r.from = Nobody /\ s = "UNCERTAIN"
    <2>1. CASE s = "ERROR"
      BY <1>1, <2>1 DEF Refuse
    <2>2. CASE s = "UNCERTAIN" /\ r \notin wire
      <3>1. PICK q \in CallsOf(a, t) : r = [q EXCEPT !.from = Nobody]
        BY <1>1, <2>2 DEF TimeOut, Orphaned
      <3>2. q \in Requests
        BY <1>0 DEF CallsOf
      <3> QED BY <2>2, <3>1, <3>2 DEF CallsOf, Requests
    <2> QED BY <2>1, <2>2
  <1>6. Placed(a)'
    <2>1. Worker \in Threads
      BY DEF Threads
    <2> QED BY <1>0, <1>4, <2>1 DEF Solo, Placed, At, handleVars
  <1>7. Ending(a)'
    <2>1. ASSUME state[a] = "RELEASED", NEW r \in wire', r.token = a
          PROVE  r.kind # "renew"
      BY <1>5, <2>1 DEF Solo, Ending
    <2> QED BY <1>0, <1>4, <2>1 DEF Solo, Ending, At, handleVars
  <1>8. Late(a)'
    <2> SUFFICES ASSUME NEW r \in wire', r.token = a, r.kind = "renew", r.from = Nobody
                 PROVE  \/ attempt[a] = "crashed"
                        \/ state[a] \in {"LOST", "UNKNOWN"}
                        \/ \E u \in Threads : /\ op'[a][u].pc \in RenewPoints
                                              /\ op'[a][u].reply.status = "UNCERTAIN"
      BY <1>0 DEF Late, Status, handleVars
    <2>1. CASE r \in wire
      <3>1. CASE \E u \in Threads : op[a][u].pc \in RenewPoints /\ Status(a, u) = "UNCERTAIN"
        <4>1. PICK u \in Threads : op[a][u].pc \in RenewPoints /\ Status(a, u) = "UNCERTAIN"
          BY <3>1
        <4>2. CASE u # t
          BY <1>3, <4>1, <4>2 DEF Status
        <4>3. CASE u = t
          BY <4>1, <4>3 DEF NetworkStep, TimeOut, Refuse
        <4> QED BY <4>2, <4>3
      <3> QED BY <2>1, <3>1 DEF Solo, Late
    <2>2. CASE \E q \in wire : /\ q.token = a /\ q.from = t /\ q.kind = r.kind
                               /\ s = "UNCERTAIN"
      <3>1. t # Nobody
        BY NameAssumption DEF Threads
      <3>2. op[a][t].pc \in RenewPoints
        BY <2>2, <3>1 DEF IInv, WireInv, Expects, RenewPoints
      <3> QED BY <1>2, <1>3, <2>2, <3>2
    <2> QED BY <1>5, <2>1, <2>2
  <1> QED BY <1>6, <1>7, <1>8 DEF Solo

\* A process that dies does not use its handle any more.
LEMMA SoloCrash ==
    ASSUME IInv, NEW a \in Attempts, Solo(a), Crash(a)
    PROVE  Solo(a)'
  <1>0. /\ op \in [Attempts -> [Threads -> Ops(Points)]] /\ wire \subseteq Requests
        /\ attempt'[a] = "crashed" /\ worker'[a] = "none" /\ state' = state
        /\ Worker \in Threads
    BY DEF Crash, IInv, TypeOK, Ops, Threads
  <1>1. \A u \in Threads : op'[a][u].pc = "idle"
    BY <1>0 DEF Crash
  <1>2. ASSUME NEW r \in wire'
        PROVE  r \in wire \/ \E q \in wire : q.token = r.token /\ q.kind = r.kind
    BY <1>0 DEF Crash, Orphaned, Requests
  <1>3. Placed(a)' /\ Late(a)'
    BY <1>0, <1>1 DEF Placed, Late, At
  <1>4. Ending(a)'
    BY <1>0, <1>1, <1>2 DEF Solo, Ending, At, ReleasePoints
  <1> QED BY <1>3, <1>4 DEF Solo

(* A script that is executed.                                              *)
LEMMA SoloServe ==
    ASSUME IInv, NEW a \in Attempts, Solo(a), NEW r \in wire, Serve(r)
    PROVE  Solo(a)'
  <1>0. Base /\ Typed
    BY IInvBase DEF Base
  <1>1. PICK reply \in Replies : ServedAs(r, reply)
    BY <1>0, ServeFrame
  <1>2. /\ wire' \subseteq wire /\ UNCHANGED <<attempt, state, worker>>
        /\ \A u \in Threads :
              \/ op'[a][u] = op[a][u]
              \/ /\ a = r.token /\ u = r.from
                 /\ op'[a][u] = [pc |-> op[a][u].pc, reply |-> reply]
    BY <1>1 DEF ServedAs, Answered
  <1>3. ASSUME NEW u \in Threads
        PROVE  op'[a][u].pc = op[a][u].pc
    <2>1. CASE op'[a][u] = [pc |-> op[a][u].pc, reply |-> reply]
      BY <2>1
    <2> QED BY <1>2, <2>1
  <1>4. Placed(a)' /\ Ending(a)'
    <2>1. Worker \in Threads
      BY DEF Threads
    <2>2. Placed(a)'
      BY <1>2, <1>3, <2>1 DEF Solo, Placed, At
    <2>3. Ending(a)'
      BY <1>2, <1>3 DEF Solo, Ending, At
    <2> QED BY <2>2, <2>3
  <1>5. ASSUME NEW u \in Threads, Status(a, u) = "UNCERTAIN"
        PROVE  op'[a][u] = op[a][u]
    <2>1. u # Nobody
      BY NameAssumption DEF Threads
    <2>2. ~(a = r.token /\ u = r.from)
      BY <1>5, <2>1 DEF IInv, WireInv
    <2> QED BY <1>2, <2>2
  <1>6. Late(a)'
    BY <1>2, <1>5 DEF Solo, Late, Status
  <1> QED BY <1>4, <1>6 DEF Solo

SoloInv == \A a \in Attempts : Solo(a)

(* Every step keeps the invariant of every handle.                         *)
LEMMA SoloStep ==
    ASSUME IInv, OneUser, SoloInv, [Next]_vars
    PROVE  SoloInv'
  <1> SUFFICES ASSUME NEW a \in Attempts
               PROVE  Solo(a)'
    BY DEF SoloInv
  <1>0. /\ Base /\ Typed /\ Solo(a)
        /\ UserThreads \subseteq Threads /\ Worker \in Threads
    BY IInvBase DEF Base, SoloInv, Threads
  <1>1. ASSUME NEW b \in Attempts, NEW t \in UsersOf[b], ThreadStep(b, t)
        PROVE  Solo(a)'
    <2>1. CASE b = a
      BY <1>0, <1>1, <2>1, SoloThread
    <2>2. CASE b # a
      <3>1. t \in UserThreads
        BY NameAssumption
      <3>2. Local(b, t)
        BY <1>0, <1>1, <3>1, LocalStep
      <3>3. Aside(a)
        BY <1>0, <2>2, <3>1, <3>2, OthersAside
      <3> QED BY <1>0, <3>3, SoloOther
    <2> QED BY <2>1, <2>2
  <1>2. ASSUME NEW b \in Attempts, WorkerStep(b)
        PROVE  Solo(a)'
    <2>1. CASE b = a
      BY <1>0, <1>2, <2>1, SoloWorker
    <2>2. CASE b # a
      <3>1. CASE WorkerReply(b) \/ (WorkerWakes(b) /\ ~UNCHANGED op)
        <4>1. Local(b, Worker)
          BY <1>0, <3>1, WorkerLocal
        <4>2. Aside(a)
          BY <1>0, <2>2, <4>1, OthersAside
        <4> QED BY <1>0, <4>2, SoloOther
      <3>2. CASE WorkerWakes(b) /\ UNCHANGED op
        <4>1. /\ state' = state /\ attempt' = attempt /\ worker'[a] = worker[a]
              /\ \A r \in wire' : r.token = a => r \in wire
          BY <1>0, <2>2, <3>2 DEF WorkerWakes, Leaves, Call, Typed, Fits
        <4>2. Aside(a)
          BY <3>2, <4>1 DEF Aside
        <4> QED BY <1>0, <4>2, SoloOther
      <3>3. CASE WorkerCrash(b)
        <4>1. Drops(b, {Worker}) /\ {Worker} \in SUBSET Threads
          BY <1>0, <3>3, WorkerCrashDrops
        <4>2. Aside(a)
          BY <1>0, <2>2, <4>1, OthersAside
        <4> QED BY <1>0, <4>2, SoloOther
      <3> QED BY <1>2, <3>1, <3>2, <3>3 DEF WorkerStep
    <2> QED BY <2>1, <2>2
  <1>3. ASSUME NEW b \in Attempts, NEW t \in Threads, NetworkStep(b, t)
        PROVE  Solo(a)'
    <2>1. CASE b = a
      BY <1>0, <1>3, <2>1, SoloNetwork
    <2>2. CASE b # a
      <3>1. Drops(b, {t}) /\ {t} \in SUBSET Threads
        BY <1>0, <1>3, NetworkDrops
      <3>2. Aside(a)
        BY <1>0, <2>2, <3>1, OthersAside
      <3> QED BY <1>0, <3>2, SoloOther
    <2> QED BY <2>1, <2>2
  <1>4. ASSUME NEW b \in Attempts, Crash(b)
        PROVE  Solo(a)'
    <2>1. CASE b = a
      BY <1>0, <1>4, <2>1, SoloCrash
    <2>2. CASE b # a
      <3>1. Drops(b, Threads)
        BY <1>0, <1>4, CrashDrops
      <3>2. Aside(a)
        BY <1>0, <2>2, <3>1, OthersAside
      <3> QED BY <1>0, <3>2, SoloOther
    <2> QED BY <2>1, <2>2
  <1>5. ASSUME NEW r \in wire, Serve(r)
        PROVE  Solo(a)'
    BY <1>0, <1>5, SoloServe
  <1>6. CASE Tick \/ LoseKey \/ Overwrite
    <2>1. Aside(a)
      BY <1>0, <1>6, FadeFrame DEF Fades, Aside
    <2> QED BY <1>0, <2>1, SoloOther
  <1>7. CASE UNCHANGED vars
    <2>1. Aside(a)
      BY <1>7 DEF vars, handleVars, Aside
    <2> QED BY <1>0, <2>1, SoloOther
  <1> QED BY <1>1, <1>2, <1>3, <1>4, <1>5, <1>6, <1>7 DEF Next

(* The invariant of the handles that one thread uses.                      *)
LEMMA SoloInvariance ==
    ASSUME OneUser
    PROVE  Spec => []SoloInv
  <1>1. Init => SoloInv
    <2> SUFFICES ASSUME Init, NEW a \in Attempts
                 PROVE  Solo(a)
      BY DEF SoloInv
    <2>1. /\ wire = {} /\ state[a] = "NONE" /\ worker[a] = "none"
          /\ \A t \in Threads : op[a][t].pc = "idle"
          /\ Worker \in Threads
      BY DEF Init, Threads
    <2> QED BY <2>1 DEF Solo, Placed, Ending, Late, At, ReleasePoints
  <1>2. IInv /\ SoloInv /\ [Next]_vars => SoloInv'
    BY SoloStep
  <1> QED BY <1>1, <1>2, Invariance, PTL DEF Spec

(* A release is sent when the worker has ended and when no renewal of the  *)
(* handle can be executed any more, for every handle that one thread uses: *)
(* _stop_worker joins the worker, and a renewal in doubt forbids release.  *)
THEOREM ReleaseLast ==
    ASSUME OneUser
    PROVE  Spec => []ReleaseAfterRenewal
  <1>1. IInv /\ SoloInv => ReleaseAfterRenewal
    <2> SUFFICES ASSUME IInv, SoloInv, NEW r \in wire, r.kind = "release", r.from # Nobody
                 PROVE  /\ worker[r.token] = "none"
                        /\ \A q \in wire : q.token = r.token => q.kind # "renew"
      BY DEF ReleaseAfterRenewal
    <2> DEFINE a == r.token
               t == r.from
    <2>1. a \in Attempts /\ t \in Threads /\ Solo(a)
      BY DEF IInv, TypeOK, Requests, SoloInv
    <2>2. op[a][t].pc \in ReleasePoints
      BY <2>1 DEF IInv, WireInv, Expects, ReleasePoints
    <2>3. worker[a] = "none" /\ t \in UsersOf[a]
      BY <2>1, <2>2 DEF Solo, Ending, Placed, ReleasePoints, At
    <2> QED BY <2>1, <2>2, <2>3, NoRenewal
  <1> QED BY <1>1, Invariance, SoloInvariance, PTL

\* The server confirmed a release of handle a.
Confirmed(a, t) ==
    op[a][t].pc \in ReleasePoints /\ Status(a, t) \in {"DELETED", "MIN_TTL_APPLIED"}

Freed(a) == state[a] = "RELEASED" \/ \E t \in Threads : Confirmed(a, t)

\* A release asks for the minimum lease at most, and what it set stays.
SoonInv ==
    /\ \A r \in wire : r.kind = "release" => r.ttl <= MinLease
    /\ \A a \in Attempts : Freed(a) /\ lease.owner = a => lease.ttl <= MinLease

(* A handle is RELEASED only on the word of the server.                    *)
LEMMA ClientFreed ==
    ASSUME IInv, NEW b \in Attempts, NEW a \in Attempts, Freed(a)',
           \/ \E t \in UsersOf[b] : ThreadStep(b, t)
           \/ WorkerStep(b) \/ Crash(b)
           \/ \E t \in Threads : NetworkStep(b, t)
    PROVE  Freed(a)
  <1>0. /\ Base /\ Typed /\ UserThreads \subseteq Threads /\ Worker \in Threads
        /\ state \in [Attempts -> {"NONE", "ACQUIRED", "ENTERED"} \cup Terminal]
    BY IInvBase DEF Base, Threads, Typed, Fits
  <1>1. ASSUME NEW t \in Threads,
               \/ \E T \in SUBSET Threads : Drops(b, T)
               \/ \E u \in Threads : Local(b, u),
               op'[a][t].pc \in ReleasePoints,
               op'[a][t].reply.status \in {"DELETED", "MIN_TTL_APPLIED"}
        PROVE  Confirmed(a, t)
    <2>1. NoReply.status = "NONE"
      BY DEF NoReply, Reply
    <2>2. op'[a][t] = op[a][t]
      <3>1. ASSUME NEW T \in SUBSET Threads, Drops(b, T)
            PROVE  op'[a][t] = op[a][t]
        BY <1>1, <3>1 DEF Drops
      <3>2. ASSUME NEW u \in Threads, Local(b, u)
            PROVE  op'[a][t] = op[a][t]
        <4>1. PICK pc \in Places : Moves(b, u, pc)
          BY <3>2 DEF Local
        <4>2. CASE a = b /\ t = u
          <5>1. op'[a][t].reply = NoReply
            BY <4>1, <4>2 DEF Moves
          <5> QED BY <1>1, <2>1, <5>1
        <4> QED BY <4>1, <4>2 DEF Moves
      <3> QED BY <1>1, <3>1, <3>2
    <2> QED BY <1>1, <2>2 DEF Confirmed, Status
  <1>2. ASSUME \/ \E T \in SUBSET Threads : Drops(b, T)
               \/ \E u \in Threads : Local(b, u),
               state'[a] = "RELEASED" => Freed(a)
        PROVE  Freed(a)
    BY <1>1, <1>2 DEF Freed, Confirmed, Status
  <1>3. ASSUME NEW t \in UsersOf[b], ThreadStep(b, t)
        PROVE  Freed(a)
    <2>0. t \in Threads /\ t \in UserThreads
      BY <1>0, NameAssumption
    <2>1. Local(b, t)
      BY <1>0, <1>3, <2>0, LocalStep
    <2> SUFFICES ASSUME state'[a] = "RELEASED", state[a] # "RELEASED"
                 PROVE  Freed(a)
      BY <1>2, <2>0, <2>1 DEF Freed
    <2>2. a = b
      BY <2>1 DEF Local, Learns
    <2>3. CASE ReleaseReply(b, t)
      <3>1. /\ op[b][t].pc \in ReleasePoints
            /\ state'[b] = AfterRelease(state[b], Status(b, t))
        BY <1>0, <2>2, <2>3 DEF ReleaseReply, Replied, At, ReleasePoints
      <3> QED BY <2>0, <2>2, <3>1 DEF AfterRelease, Freed, Confirmed
    <2>4. CASE ProofReply(b, t) \/ EnterReply(b, t)
      <3>1. state'[b] = AfterProof(state[b], Status(b, t))
        BY <1>0, <2>4 DEF ProofReply, EnterReply
      <3> QED BY <2>2, <3>1 DEF AfterProof
    <2>5. CASE ~ReleaseReply(b, t) /\ ~ProofReply(b, t) /\ ~EnterReply(b, t)
      BY <1>0, <1>3, <2>2, <2>5
         DEF ThreadStep, TryAcquire, AcquireReply, AcquireAgain, ReconcileAcquire,
             NewHandle, EndAttempt, Renew, IsHeld, Enter, StartWorker,
             StartWorkerFails, Release, Exit, BeginStop, StopReady, StopJoin,
             StopExpires, ReleaseCheck, ReconcileRelease, handleVars
    <2> QED BY <2>3, <2>4, <2>5
  <1>4. ASSUME WorkerStep(b)
        PROVE  Freed(a)
    <2>1. \/ state'[a] = state[a]
          \/ state'[a] = AfterProof(state[a], Status(a, Worker))
          \/ state'[a] = "UNKNOWN"
      BY <1>0, <1>4 DEF WorkerStep, WorkerWakes, WorkerReply, WorkerCrash
    <2>2. state'[a] = "RELEASED" => Freed(a)
      BY <2>1 DEF AfterProof, Freed
    <2>3. CASE WorkerReply(b) \/ (WorkerWakes(b) /\ ~UNCHANGED op)
      BY <1>0, <1>2, <2>2, <2>3, WorkerLocal
    <2>4. CASE WorkerWakes(b) /\ UNCHANGED op
      BY <2>2, <2>4 DEF Freed, Confirmed, Status
    <2>5. CASE WorkerCrash(b)
      <3>1. {Worker} \in SUBSET Threads /\ Drops(b, {Worker})
        BY <1>0, <2>5, WorkerCrashDrops
      <3> QED BY <1>2, <2>2, <3>1
    <2> QED BY <1>4, <2>3, <2>4, <2>5 DEF WorkerStep
  <1>5. ASSUME Crash(b)
        PROVE  Freed(a)
    <2>1. state' = state /\ Drops(b, Threads)
      BY <1>0, <1>5, CrashDrops DEF Crash
    <2> QED BY <1>2, <2>1 DEF Freed
  <1>6. ASSUME NEW t \in Threads, NetworkStep(b, t)
        PROVE  Freed(a)
    <2>1. state' = state /\ Drops(b, {t}) /\ {t} \in SUBSET Threads
      BY <1>0, <1>6, NetworkDrops DEF NetworkStep, TimeOut, Refuse, handleVars
    <2> QED BY <1>2, <2>1 DEF Freed
  <1> QED BY <1>3, <1>4, <1>5, <1>6

(* The server confirms a release when it has executed it.                  *)
LEMMA ServeFreed ==
    ASSUME IInv, NEW r \in wire, Serve(r), NEW a \in Attempts, Freed(a)'
    PROVE  Freed(a) \/ (a = r.token /\ ServeRelease(r) /\ Owns(r))
  <1>0. Typed /\ state' = state
    BY TypeOKTyped DEF IInv, Serve, handleVars
  <1> SUFFICES ASSUME NEW t \in Threads, Confirmed(a, t)', ~Confirmed(a, t)
               PROVE  a = r.token /\ ServeRelease(r) /\ Owns(r)
    BY <1>0 DEF Freed
  <1>1. PICK reply \in Replies : ServedAs(r, reply)
    BY <1>0, ServeFrame
  <1>2. a = r.token /\ t = r.from
    BY <1>1 DEF ServedAs, Answered, Confirmed, Status
  <1>3. t # Nobody
    BY NameAssumption DEF Threads
  <1>4. op \in [Attempts -> [Threads -> Spots]]
    BY <1>0 DEF Typed, Fits, Spots
  <1>5. ASSUME NEW x, Answer(r, x)
        PROVE  op'[a][t].reply = x
    BY <1>2, <1>3, <1>4, <1>5 DEF Answer
  <1>6. \A s : Reply(s).status = s
    BY DEF Reply
  <1>7. op'[a][t].reply.status \in {"DELETED", "MIN_TTL_APPLIED"}
    BY DEF Confirmed, Status
  <1>8. ServeRelease(r) /\ Owns(r)
    <2>1. ~ServeGrant(r)
      BY <1>5, <1>7 DEF ServeGrant
    <2>2. ~ServeNoGrant(r)
      BY <1>5, <1>6, <1>7 DEF ServeNoGrant
    <2>3. ~ServeRenew(r) /\ ~ServeProbe(r)
      BY <1>5, <1>6, <1>7 DEF ServeRenew, ServeProbe, NotOwned
    <2>4. ~ServeReconcile(r)
      BY <1>5, <1>6, <1>7 DEF ServeReconcile
    <2>5. ServeRelease(r)
      BY <2>1, <2>2, <2>3, <2>4 DEF Serve
    <2> QED BY <1>5, <1>6, <1>7, <2>5 DEF ServeRelease, NotOwned
  <1> QED BY <1>2, <1>8

(* Every step keeps a release from being undone.                           *)
LEMMA SoonStep ==
    ASSUME IInv, OneUser, SoloInv, SoonInv, [Next]_vars
    PROVE  SoonInv'
  <1>0. /\ Base /\ Typed /\ UserThreads \subseteq Threads
        /\ MinLease \in Nat /\ minLeft \in [Attempts -> 0 .. MinLease]
        /\ wire \subseteq Requests
        /\ lease \in [owner : Attempts \cup {Nobody, Foreign}, fence : Nat, ttl : Nat]
        /\ Nobody \notin Attempts /\ Foreign \notin Attempts
    <2>1. Base /\ Typed
      BY IInvBase DEF Base
    <2>2. MinLease \in Nat /\ UserThreads \subseteq Threads
      BY TimeAssumption DEF Threads
    <2> QED BY <2>1, <2>2, NameAssumption DEF Typed, Fits
  <1>1. ASSUME NEW a \in Attempts,
               \/ \E t \in UsersOf[a] : ThreadStep(a, t)
               \/ WorkerStep(a) \/ Crash(a)
               \/ \E t \in Threads : NetworkStep(a, t)
        PROVE  SoonInv'
    <2>1. Times(a)
      BY <1>0, <1>1, ThreadTimes, WorkerTimes, NetworkTimes, NameAssumption
    <2>2. ASSUME NEW r \in wire', r.kind = "release"
          PROVE  r.ttl <= MinLease
      <3>1. CASE \E q \in wire : q.token = r.token /\ q.kind = r.kind /\ q.ttl = r.ttl
        BY <2>2, <3>1 DEF SoonInv
      <3>2. CASE r.token = a /\ Sized(r)
        <4>1. r.ttl = minLeft[a] /\ minLeft[a] \in 0 .. MinLease
          BY <1>0, <2>2, <3>2 DEF Sized
        <4> QED BY <1>0, <4>1
      <3> QED BY <2>1, <3>1, <3>2 DEF Times, Carries
    <2>3. lease' = lease
      BY <2>1 DEF Times, serverVars
    <2>4. \A b \in Attempts : Freed(b)' => Freed(b)
      BY <1>1, ClientFreed
    <2> QED BY <2>2, <2>3, <2>4 DEF SoonInv
  <1>2. ASSUME NEW r \in wire, Serve(r)
        PROVE  SoonInv'
    <2>0. r \in Requests /\ r.token \in Attempts
      BY <1>0 DEF Requests
    <2>1. wire' \subseteq wire
      BY <1>2 DEF Serve, ServeGrant, ServeNoGrant, ServeRenew, ServeProbe,
                  ServeReconcile, ServeRelease, Answer
    <2> SUFFICES ASSUME NEW a \in Attempts, Freed(a)', lease'.owner = a
                 PROVE  lease'.ttl <= MinLease
      BY <2>1 DEF SoonInv
    <2>2. CASE ServeRelease(r) /\ Owns(r)
      <3>1. CASE r.ttl = 0
        BY <1>0, <2>2, <3>1 DEF ServeRelease, NoLease
      <3>2. CASE r.ttl # 0
        <4>1. lease'.ttl = r.ttl
          BY <1>0, <2>2, <3>2 DEF ServeRelease
        <4> QED BY <2>2, <4>1 DEF SoonInv, ServeRelease
      <3> QED BY <3>1, <3>2
    <2>3. CASE ~(ServeRelease(r) /\ Owns(r))
      <3>1. Freed(a)
        BY <1>2, <2>3, ServeFreed
      <3>2. attempt[a] = "handle" \/ state[a] = "RELEASED"
        BY <3>1 DEF Freed, Confirmed, ReleasePoints, IInv, ControlInv, AcquirePoints
      <3>3. grant[a] > 0
        BY <3>2 DEF IInv, GrantInv
      <3>4. CASE lease' = lease
        BY <3>1, <3>4 DEF SoonInv
      <3>5. CASE ServeGrant(r)
        <4>1. lease'.owner = r.token /\ r.kind = "acquire"
          BY <3>5 DEF ServeGrant
        <4>2. grant[r.token] = 0
          BY <4>1 DEF IInv, AcquireInv
        <4> QED BY <3>3, <4>1, <4>2
      <3>6. CASE ServeRenew(r) /\ Owns(r)
        <4>1. r.token = a /\ r.kind = "renew"
          BY <1>0, <3>6 DEF ServeRenew, Owns, Held
        <4>2. Solo(a)
          BY DEF SoloInv
        <4>3. state[a] # "RELEASED"
          BY <4>1, <4>2 DEF Solo, Ending
        <4>4. PICK t \in Threads : op[a][t].pc \in ReleasePoints
          BY <3>1, <4>3 DEF Freed, Confirmed
        <4>5. t \in UsersOf[a]
          BY <4>2, <4>4 DEF Solo, Placed, At, ReleasePoints
        <4> QED BY <4>1, <4>2, <4>4, <4>5, NoRenewal
      <3> QED BY <1>2, <2>3, <3>4, <3>5, <3>6
              DEF Serve, ServeNoGrant, ServeRenew, ServeProbe, ServeReconcile,
                  ServeRelease, serverVars
    <2> QED BY <2>2, <2>3
  <1>3. CASE Tick \/ LoseKey \/ Overwrite
    <2>1. UNCHANGED <<wire, op, state>>
      BY <1>0, <1>3, FadeFrame DEF Fades
    <2>2. \A a \in Attempts : Freed(a)' <=> Freed(a)
      BY <2>1 DEF Freed, Confirmed, Status
    <2>3. lease'.owner \in Attempts => lease'.owner = lease.owner /\ lease'.ttl <= lease.ttl
      BY <1>0, <1>3 DEF Tick, LoseKey, Overwrite, NoLease
    <2>4. lease.ttl \in Nat /\ (lease'.owner \in Attempts => lease'.ttl \in Int)
      BY <1>0, <1>3 DEF Tick, LoseKey, Overwrite, NoLease
    <2> QED BY <1>0, <2>1, <2>2, <2>3, <2>4 DEF SoonInv
  <1>4. CASE UNCHANGED vars
    <2>1. UNCHANGED <<wire, op, state, lease>>
      BY <1>4 DEF vars, handleVars, serverVars
    <2> QED BY <2>1 DEF SoonInv, Freed, Confirmed, Status
  <1> QED BY <1>1, <1>2, <1>3, <1>4 DEF Next

(* A handle that says RELEASED leaves its record behind for the minimum    *)
(* lease at most, for every handle that one thread uses: neither a late    *)
(* renewal nor a second grant makes the record last longer.                *)
THEOREM ReleaseLasts ==
    ASSUME OneUser
    PROVE  Spec => []ReleasedSoonFree
  <1>1. Init => SoonInv
    <2> SUFFICES ASSUME Init
                 PROVE  SoonInv
      OBVIOUS
    <2>1. wire = {} /\ lease.owner = Nobody
      BY DEF Init, NoLease
    <2> QED BY <2>1, NameAssumption DEF SoonInv
  <1>2. IInv /\ SoloInv /\ SoonInv /\ [Next]_vars => SoonInv'
    BY SoonStep
  <1>3. SoonInv => ReleasedSoonFree
    BY DEF SoonInv, Freed, ReleasedSoonFree
  <1> QED BY <1>1, <1>2, <1>3, Invariance, SoloInvariance, PTL DEF Spec

-----------------------------------------------------------------------------
(* The asyncio lock.  Base is inductive for it as well.  What it adds is   *)
(* about the tasks of a handle: the cleanup task is the only one that      *)
(* releases and its creator waits for it, and the handle of an elector is  *)
(* used by one task at a time, from the acquire call to the cleanup.       *)

Cancels  == {"none", "deaf", "pending", "kept", "lost"}
Cleanups == {"none", "running", "stopping", "ok", "raised", "cancelled"}
Runs     == {"none", "elector", "value", "error", "cancelled", "raised"} \cup LeaseResults

AsyncTypes ==
    /\ worker \in [Attempts -> {"none", "running", "woken", "stopping", "exited", "cancelled"}]
    /\ cleanup \in [Attempts -> Cleanups]
    /\ cancel \in [Attempts -> [Tasks -> Cancels]]
    /\ run \in [Attempts -> Runs]

\* Where the tasks of a handle may be.
Seated(a) ==
    /\ \A t \in Threads : ~At(a, t, "idle") => t \in UsersOf[a] \cup {Worker, Cleanup}
    /\ \A t \in UsersOf[a] : op[a][t].pc \notin {"relCheck"} \cup ReleasePoints
    /\ op[a][Worker].pc \in {"idle", "renew"}
    /\ At(a, Worker, "renew") => worker[a] \notin {"none", "exited", "cancelled"}
    /\ op[a][Cleanup].pc \in {"idle", "relCheck"} \cup ReleasePoints
    /\ cleanup[a] \in {"running", "stopping"} <=> ~At(a, Cleanup, "idle")
    /\ attempt[a] # "handle" =>
          worker[a] = "none" /\ cleanup[a] = "none" /\ scope[a] = Nobody
    /\ cleanup[a] = "running" => \E t \in UsersOf[a] : At(a, t, "waitCleanup")
    /\ cleanup[a] = "stopping" =>
          state[a] = "UNKNOWN" \/ \E t \in UsersOf[a] : At(a, t, "waitCleanup")

\* The tasks of an elector's handle one after the other.
Single(a) ==
    /\ \A t, u \in UsersOf[a] : ~At(a, t, "idle") /\ ~At(a, u, "idle") => t = u
    /\ state[a] \in {"NONE", "ACQUIRED"} =>
          /\ worker[a] = "none" /\ cleanup[a] = "none" /\ scope[a] = Nobody
          /\ \A t \in UsersOf[a] : op[a][t].pc \in {"idle"} \cup AcquirePoints
    /\ scope[a] # Nobody =>
          cleanup[a] = "none" /\ \A t \in UsersOf[a] : At(a, t, "idle")
    /\ \A t \in UsersOf[a] :
          /\ op[a][t].pc \notin {"renew", "probe"}
          /\ At(a, t, "enterProof") => worker[a] = "none"
          /\ op[a][t].pc \in {"enterProof", "waitRenew", "waitRenewUntil"} =>
                cleanup[a] = "none"
          /\ At(a, t, "waitCleanup") => cleanup[a] # "none"
    /\ cleanup[a] # "none" => worker[a] \in {"none", "exited"}
    /\ cleanup[a] = "ok" => state[a] = "RELEASED"
    /\ run[a] \in LeaseResults => cleanup[a] = "ok"

Elector(a) == run[a] # "none" => Single(a)

AsyncInv ==
    /\ Base
    /\ AsyncTypes
    /\ \A a \in Attempts : Seated(a) /\ Elector(a)

\* Nothing that the tasks of b depend on changes.
Same(b) ==
    /\ \A t \in Threads : op'[b][t].pc = op[b][t].pc
    /\ state'[b] = state[b] /\ attempt'[b] = attempt[b] /\ worker'[b] = worker[b]
    /\ scope'[b] = scope[b] /\ cleanup'[b] = cleanup[b] /\ run'[b] = run[b]

(* The tasks of a handle in such a step.                                   *)
LEMMA SameKeeps ==
    ASSUME NEW b \in Attempts, Seated(b), Elector(b), Same(b)
    PROVE  Seated(b)' /\ Elector(b)'
  <1>0. /\ UsersOf[b] \subseteq Threads /\ Worker \in Threads /\ Cleanup \in Threads
    BY NameAssumption, CleanupAssumption DEF Threads
  <1>1. Seated(b)'
    BY <1>0 DEF Seated, Same, At
  <1>2. Single(b) /\ run[b] # "none" => Single(b)'
    BY <1>0 DEF Single, Same, At
  <1> QED BY <1>1, <1>2 DEF Elector, Same

\* A step of handle a that leaves the others alone and is all right for a.
Kept(a) ==
    /\ Typed' /\ AsyncTypes' /\ Frame
    /\ Seated(a)' /\ Elector(a)'
    /\ \A b \in Attempts \ {a} : Same(b)

(* Who the tasks of a handle are.                                          *)
LEMMA TaskNames ==
    ASSUME NEW a \in Attempts
    PROVE  /\ UsersOf[a] \subseteq Threads /\ UsersOf[a] \subseteq UserThreads
           /\ UsersOf[a] \subseteq Tasks
           /\ Worker \in Threads /\ Worker \notin UsersOf[a] /\ Worker # Nobody
           /\ Cleanup \in Threads /\ Cleanup \notin UsersOf[a] /\ Cleanup # Worker
           /\ Cleanup # Nobody /\ Nobody \notin UsersOf[a] /\ Nobody \notin Threads
  BY NameAssumption, CleanupAssumption DEF Threads, Tasks

(* The types, when the keys and the fencing tokens stay as they are.       *)
LEMMA TypedKeep ==
    ASSUME Typed, UNCHANGED <<serverVars, fence, timerVars>>,
           wire' \subseteq Requests,
           op' \in [Attempts -> [Threads -> Spots]],
           attempt' \in [Attempts -> {"new", "running", "none", "error", "handle", "crashed"}],
           state' \in [Attempts -> {"NONE", "ACQUIRED", "ENTERED"} \cup Terminal],
           scope' \in [Attempts -> UserThreads \cup {Nobody}],
           worker' \in [Attempts -> {"none", "running", "woken", "stopping", "exited", "cancelled"}],
           stop' \in [Attempts -> BOOLEAN]
    PROVE  Typed'
  <1>1. worker' \in [Attempts -> {"none", "starting", "running", "woken", "stopping", "exited", "cancelled"}]
    OBVIOUS
  <1> QED BY <1>1 DEF Typed, Fits, Spots, serverVars, timerVars

(* A step of one user task of a handle.                                    *)
LEMMA SeatedMove ==
    ASSUME NEW a \in Attempts, NEW t \in UsersOf[a], NEW pc,
           Seated(a), op'[a][t].pc = pc,
           \A u \in Threads \ {t} : op'[a][u].pc = op[a][u].pc,
           pc \notin {"relCheck"} \cup ReleasePoints,
           cleanup'[a] = cleanup[a],
           At(a, t, "waitCleanup") =>
               cleanup[a] # "running" /\ (cleanup[a] = "stopping" => state'[a] = "UNKNOWN"),
           state[a] = "UNKNOWN" => state'[a] = "UNKNOWN",
           worker'[a] = worker[a] \/ (attempt[a] = "handle" /\ worker'[a] = "running"),
           scope'[a] = scope[a] \/ attempt[a] = "handle",
           attempt[a] = "handle" => attempt'[a] = "handle"
    PROVE  Seated(a)'
  <1>0. /\ t \in Threads /\ UsersOf[a] \subseteq Threads /\ Worker \in Threads
        /\ Cleanup \in Threads /\ t # Worker /\ t # Cleanup
    BY TaskNames
  <1>1. /\ cleanup[a] = "running" => \E u \in UsersOf[a] : op'[a][u].pc = "waitCleanup"
        /\ cleanup[a] = "stopping" =>
              state'[a] = "UNKNOWN" \/ \E u \in UsersOf[a] : op'[a][u].pc = "waitCleanup"
    <2>1. ASSUME NEW u \in UsersOf[a], op[a][u].pc = "waitCleanup", u # t
          PROVE  op'[a][u].pc = "waitCleanup"
      BY <1>0, <2>1
    <2> QED BY <2>1 DEF Seated, At
  <1>2. /\ \A u \in Threads : op'[a][u].pc # "idle" => u \in UsersOf[a] \cup {Worker, Cleanup}
        /\ \A u \in UsersOf[a] : op'[a][u].pc \notin {"relCheck"} \cup ReleasePoints
    BY <1>0 DEF Seated, At
  <1>3. op'[a][Worker].pc = op[a][Worker].pc /\ op'[a][Cleanup].pc = op[a][Cleanup].pc
    BY <1>0
  <1> QED BY <1>1, <1>2, <1>3 DEF Seated, At

(* The same for the handle of an elector.                                  *)
LEMMA SingleMove ==
    ASSUME NEW a \in Attempts, NEW t \in UsersOf[a], NEW pc,
           op'[a][t].pc = pc,
           \A u \in UsersOf[a] \ {t} : op'[a][u].pc = "idle",
           state'[a] \in {"NONE", "ACQUIRED"} =>
               /\ worker'[a] = "none" /\ cleanup'[a] = "none" /\ scope'[a] = Nobody
               /\ pc \in {"idle"} \cup AcquirePoints,
           scope'[a] # Nobody => cleanup'[a] = "none" /\ pc = "idle",
           pc \notin {"renew", "probe"},
           pc = "enterProof" => worker'[a] = "none",
           pc \in {"enterProof", "waitRenew", "waitRenewUntil"} => cleanup'[a] = "none",
           pc = "waitCleanup" => cleanup'[a] # "none",
           cleanup'[a] # "none" => worker'[a] \in {"none", "exited"},
           cleanup'[a] = "ok" => state'[a] = "RELEASED",
           run'[a] \in LeaseResults => cleanup'[a] = "ok"
    PROVE  Single(a)'
  <1>1. \A u \in UsersOf[a] : op'[a][u].pc = IF u = t THEN pc ELSE "idle"
    OBVIOUS
  <1> QED BY <1>1 DEF Single, At

(* The steps that the asyncio lock shares with the synchronous one.        *)
LEMMA SharedStep ==
    ASSUME AsyncInv, NEW a \in Attempts, NEW t \in UsersOf[a], ThreadStep(a, t),
           UNCHANGED <<worker, scope, cleanup, cancel, run>>
    PROVE  /\ Typed' /\ AsyncTypes' /\ Frame
           /\ \A b \in Attempts \ {a} : Same(b)
           /\ \E pc \in Places : Moves(a, t, pc)
  <1>0. /\ Base /\ Typed /\ AsyncTypes /\ t \in UserThreads /\ t \in Threads
    BY TaskNames DEF AsyncInv, Base
  <1>1. [Next]_vars
    BY DEF Next
  <1>2. Typed'
    <2> DEFINE W == {"none", "starting", "running", "woken", "stopping", "exited", "cancelled"}
    <2>1. Fits(Places, W) /\ Points \subseteq Places
          /\ {"none", "starting", "running", "exited"} \subseteq W
      BY <1>0 DEF Typed, Places
    <2>2. Fits(Places, W)'
      BY <1>1, <2>1, TypeStep
    <2> QED BY <2>2 DEF Typed
  <1>3. Frame
    BY <1>0, <1>1, StepFrame
  <1>4. Local(a, t)
    BY <1>0, LocalStep
  <1>5. ASSUME NEW b \in Attempts \ {a}
        PROVE  Same(b)
    <2>1. Aside(b)
      BY <1>0, <1>4, <1>5, OthersAside
    <2> QED BY <2>1 DEF Aside, Same
  <1> QED BY <1>0, <1>2, <1>3, <1>4, <1>5 DEF AsyncTypes, Local

(* try_acquire.                                                            *)
LEMMA AcquireKept ==
    ASSUME AsyncInv, NEW a \in Attempts, NEW t \in UsersOf[a],
           \/ AsyncTryAcquire(a, t) \/ AsyncAcquireReply(a, t)
           \/ AsyncAcquireAgain(a, t) \/ AsyncReconcileAcquire(a, t)
    PROVE  Kept(a)
  <1>0. /\ Base /\ Typed /\ Seated(a) /\ Elector(a) /\ t \in Threads
        /\ UsersOf[a] \subseteq Threads /\ t # Worker /\ t # Cleanup
        /\ op \in [Attempts -> [Threads -> Spots]]
    BY TaskNames DEF AsyncInv, Base, Typed, Fits, Spots
  <1>1. /\ UNCHANGED <<worker, scope, cleanup, cancel, run>> /\ ThreadStep(a, t)
        /\ op[a][t].pc \in AcquirePoints \/ attempt[a] = "new"
    BY DEF AsyncTryAcquire, AsyncAcquireReply, AsyncAcquireAgain, AsyncReconcileAcquire,
           TryAcquire, AcquireReply, AcquireAgain, ReconcileAcquire, ThreadStep,
           Replied, At, AcquirePoints
  <1>2. PICK pc \in Places : Moves(a, t, pc)
    BY <1>1, SharedStep
  <1>3. pc \in {"idle"} \cup AcquirePoints
    <2>1. \A q : Goto(a, t, q) => op'[a][t].pc = q
      BY <1>0 DEF Goto
    <2>2. \E q \in {"idle"} \cup AcquirePoints : Goto(a, t, q)
      BY DEF AsyncTryAcquire, AsyncAcquireReply, AsyncAcquireAgain, AsyncReconcileAcquire,
             TryAcquire, AcquireReply, AcquireAgain, ReconcileAcquire, SendAcquire,
             NewHandle, EndAttempt, Call, Goto, AcquirePoints
    <2> QED BY <1>2, <2>1, <2>2 DEF Moves
  <1>4. /\ state[a] = "NONE" /\ attempt[a] \in {"new", "running"}
        /\ \A u \in Threads \ {t} : op[a][u].pc = "idle"
    BY <1>0, <1>1 DEF Base, ControlInv, GrantInv, At, AcquirePoints
  <1>5. state'[a] \in {"NONE", "ACQUIRED"}
    BY <1>0, <1>4 DEF AsyncTryAcquire, AsyncAcquireReply, AsyncAcquireAgain,
           AsyncReconcileAcquire, TryAcquire, AcquireReply, AcquireAgain,
           ReconcileAcquire, NewHandle, EndAttempt, Typed, Fits
  <1>6. /\ worker[a] = "none" /\ cleanup[a] = "none" /\ scope[a] = Nobody
    BY <1>0, <1>4 DEF Seated
  <1>7. op'[a][t].pc = pc /\ \A u \in Threads \ {t} : op'[a][u].pc = op[a][u].pc
    BY <1>2 DEF Moves
  <1>8. Seated(a)'
    BY <1>0, <1>1, <1>3, <1>4, <1>6, <1>7, SeatedMove DEF ReleasePoints, AcquirePoints
  <1>9. Elector(a)'
    <2> SUFFICES ASSUME run[a] # "none"
                 PROVE  Single(a)'
      BY <1>1 DEF Elector
    <2>1. run[a] \notin LeaseResults
      BY <1>0, <1>6 DEF Elector, Single
    <2> QED BY <1>0, <1>1, <1>3, <1>4, <1>5, <1>6, <1>7, <2>1, SingleMove DEF AcquirePoints
  <1> QED BY <1>1, <1>8, <1>9, SharedStep DEF Kept

(* renew, is_held, __aenter__ and their replies.                           *)
LEMMA ProofKept ==
    ASSUME AsyncInv, NEW a \in Attempts, NEW t \in UsersOf[a],
           \/ \E d \in RenewTimes : AsyncRenew(a, t, d)
           \/ AsyncIsHeld(a, t) \/ AsyncProofReply(a, t) \/ AsyncEnter(a, t)
    PROVE  Kept(a)
  <1>0. /\ Base /\ Typed /\ Seated(a) /\ Elector(a) /\ t \in Threads
        /\ UsersOf[a] \subseteq Threads /\ t # Worker /\ t # Cleanup
        /\ op \in [Attempts -> [Threads -> Spots]]
    BY TaskNames DEF AsyncInv, Base, Typed, Fits, Spots
  <1>1. /\ UNCHANGED <<worker, scope, cleanup, cancel, run, attempt>> /\ ThreadStep(a, t)
        /\ op[a][t].pc \in {"idle", "renew", "probe"}
    BY DEF AsyncRenew, AsyncIsHeld, AsyncProofReply, AsyncEnter, Renew, IsHeld, ProofReply,
           Enter, Idle, ThreadStep, Replied, At, handleVars
  <1>2. PICK pc \in Places : Moves(a, t, pc)
    BY <1>1, SharedStep
  <1>3. \A q : Goto(a, t, q) => pc = q
    <2>1. \A q : Goto(a, t, q) => op'[a][t].pc = q
      BY <1>0 DEF Goto
    <2> QED BY <1>2, <2>1 DEF Moves
  <1>4. pc \in {"idle", "renew", "probe", "enterProof"}
    <2>1. \E q \in {"idle", "renew", "probe", "enterProof"} : Goto(a, t, q)
      BY DEF AsyncRenew, AsyncIsHeld, AsyncProofReply, AsyncEnter, Renew, IsHeld,
             ProofReply, Enter, Call, Goto
    <2> QED BY <1>3, <2>1
  <1>5. op'[a][t].pc = pc /\ \A u \in Threads \ {t} : op'[a][u].pc = op[a][u].pc
    BY <1>2 DEF Moves
  <1>6. Seated(a)'
    <2>1. state[a] = "UNKNOWN" => state'[a] = "UNKNOWN"
      BY <1>0 DEF AsyncRenew, AsyncIsHeld, AsyncProofReply, AsyncEnter, Renew, IsHeld,
             ProofReply, Enter, AfterProof, Terminal, handleVars, Typed, Fits
    <2> QED BY <1>0, <1>1, <1>4, <1>5, <2>1, SeatedMove DEF ReleasePoints, At
  <1>7. Elector(a)'
    <2> SUFFICES ASSUME run[a] # "none"
                 PROVE  Single(a)'
      BY <1>1 DEF Elector
    <2>1. Single(a)
      BY <1>0 DEF Elector
    <2>2. AsyncEnter(a, t)
      BY <2>1 DEF AsyncRenew, AsyncIsHeld, AsyncProofReply, ProofReply, Plain, Single,
                  Replied, At
    <2>3. /\ state[a] = "ACQUIRED" /\ attempt[a] = "handle" /\ state'[a] = "ENTERED"
          /\ pc = "enterProof"
      BY <1>0, <1>3, <2>2 DEF AsyncEnter, Enter, Idle, Call, Goto, Typed, Fits
    <2>4. /\ worker[a] = "none" /\ cleanup[a] = "none" /\ scope[a] = Nobody
          /\ \A u \in UsersOf[a] : op[a][u].pc \in {"idle"} \cup AcquirePoints
      BY <2>1, <2>3 DEF Single
    <2>5. \A u \in UsersOf[a] : op[a][u].pc = "idle"
      BY <1>0, <2>3, <2>4 DEF Base, ControlInv
    <2>6. run[a] \notin LeaseResults
      BY <2>1, <2>4 DEF Single
    <2> QED BY <1>0, <1>1, <1>5, <2>3, <2>4, <2>5, <2>6, SingleMove
  <1> QED BY <1>1, <1>6, <1>7, SharedStep DEF Kept

\* The calls of the tasks T of a are given up.
Loses(a, T) ==
    \A r \in wire' :
        \/ r \in wire /\ (r.token # a \/ r.from \notin T)
        \/ \E q \in wire : /\ q.token = a /\ q.from \in T
                           /\ r = [q EXCEPT !.from = Nobody]

(* What a cancelled task leaves on the wire.                               *)
LEMMA AbandonLoses ==
    ASSUME Typed, NEW a \in Attempts, NEW t, NEW T, t \in T,
           \A u \in T \ {t} : Quiet(a, u),
           Abandon(a, t) \/ (wire' = wire /\ Quiet(a, t))
    PROVE  Loses(a, T) /\ wire' \subseteq Requests
  <1>1. Loses(a, T)
    <2>1. CASE Abandon(a, t)
      BY <2>1 DEF Abandon, Loses, CallsOf, Orphaned, Quiet
    <2>2. CASE wire' = wire /\ Quiet(a, t)
      BY <2>2 DEF Loses, Quiet
    <2> QED BY <2>1, <2>2
  <1>2. wire' \subseteq Requests
    <2>1. wire \subseteq Requests /\ CallsOf(a, t) \in SUBSET Requests
      BY DEF Typed, Fits, CallsOf
    <2> QED BY <2>1, OrphanType DEF Abandon
  <1> QED BY <1>1, <1>2

(* Tasks of a handle that stop waiting for a call, or wait for a task.     *)
LEMMA TaskDrops ==
    ASSUME Base, NEW a \in Attempts, NEW T \in SUBSET Threads, Loses(a, T),
           UNCHANGED <<serverVars, fence, attempt>>, attempt[a] = "handle",
           \A b \in Attempts, u \in Threads :
               \/ op'[b][u] = op[b][u]
               \/ /\ b = a /\ u \in T
                  /\ op'[b][u].pc \in Waits \cup {"relCheck", "idle"}
                  /\ op'[b][u].reply = NoReply,
           state' = state \/ state' = [state EXCEPT ![a] = "UNKNOWN"],
           \A b \in Attempts \ {a} : worker'[b] = worker[b]
    PROVE  Frame
  <1>1. NoReply.status = "NONE"
    BY DEF NoReply, Reply
  <1>2. /\ \A b \in Attempts \ {a} : state'[b] = state[b]
        /\ state'[a] = state[a] \/ state'[a] = "UNKNOWN"
    BY DEF Base, Typed, Fits
  <1>3. \A b \in Attempts, u \in Threads :
          \/ op'[b][u] = op[b][u]
          \/ /\ b = a /\ u \in T
             /\ \/ op'[b][u].pc \in {op[b][u].pc, "idle"}
                \/ /\ op'[b][u].pc \in Waits \cup {"relCheck"}
                   /\ attempt[a] = "handle" /\ attempt'[a] = "handle"
             /\ op'[b][u].reply.status \in {"NONE", "UNCERTAIN", "ERROR"}
    BY <1>1
  <1>4. Drops(a, T)
    BY <1>2, <1>3 DEF Drops, Loses
  <1> QED BY <1>4 DEF Frame

\* A run that ends without a result.
RunFails(a) ==
    run' = [run EXCEPT ![a] = IF @ = "none" THEN @ ELSE "raised"]

\* What the first half of _await_cleanup does.
Gives(a, t) ==
    /\ Moves(a, t, "idle") /\ UNCHANGED cleanup /\ RunFails(a)
    /\ state' = state \/ state' = [state EXCEPT ![a] = "UNKNOWN"]

Joins(a, t) ==
    /\ Moves(a, t, "waitCleanup") /\ cleanup[a] # "none"
    /\ UNCHANGED <<state, cleanup, run>>

Starts(a, t) ==
    /\ op'[a][t] = [pc |-> "waitCleanup", reply |-> NoReply]
    /\ op'[a][Cleanup] = [pc |-> "relCheck", reply |-> NoReply]
    /\ \A b \in Attempts, u \in Threads :
          b # a \/ u \notin {t, Cleanup} => op'[b][u] = op[b][u]
    /\ cleanup[a] = "none" /\ cleanup' = [cleanup EXCEPT ![a] = "running"]
    /\ UNCHANGED <<state, run>>

Awaits(a, t) ==
    /\ Gives(a, t) \/ Joins(a, t) \/ Starts(a, t)
    /\ op' \in [Attempts -> [Threads -> Spots]]
    /\ cancel' \in [Attempts -> [Tasks -> Cancels]]

(* A call that returns.                                                    *)
LEMMA ReturnsShape ==
    ASSUME Typed, AsyncTypes, NEW a \in Attempts, NEW t \in UsersOf[a],
           NEW ok \in BOOLEAN, NEW c \in Cancels, Returns(a, t, ok, c)
    PROVE  /\ Moves(a, t, "idle") /\ op' \in [Attempts -> [Threads -> Spots]]
           /\ cancel' \in [Attempts -> [Tasks -> Cancels]]
           /\ RunEnds(a, ok /\ c # "kept")
  <1>0. t \in Threads /\ t \in Tasks
    BY TaskNames
  <1>1. Goto(a, t, "idle") /\ "idle" \in Places
    BY DEF Returns, Places, Points
  <1>2. Moves(a, t, "idle")
    BY <1>0, <1>1, GotoMoves
  <1>3. op' \in [Attempts -> [Threads -> Ops(Places)]]
    BY <1>0, <1>1, GotoType DEF Typed
  <1>4. cancel' \in [Attempts -> [Tasks -> Cancels]]
    BY <1>0 DEF Returns, AsyncTypes, Cancels
  <1> QED BY <1>2, <1>3, <1>4 DEF Returns, Ops, Spots

(* A run whose call fails.                                                 *)
LEMMA RunFailure ==
    ASSUME AsyncTypes, NEW a \in Attempts, RunEnds(a, FALSE)
    PROVE  RunFails(a)
  BY DEF RunEnds, RunFails, AsyncTypes

(* The first half of _await_cleanup is one of these three.  Only a plain   *)
(* handle can meet a cleanup task that has ended.                          *)
LEMMA AwaitShape ==
    ASSUME Typed, AsyncTypes, NEW a \in Attempts, NEW t \in UsersOf[a], NEW c \in Cancels,
           AwaitCleanup(a, t, c), run[a] # "none" => cleanup[a] = "none"
    PROVE  Awaits(a, t)
  <1>0. /\ t \in Threads /\ t \in Tasks /\ Cleanup \in Threads /\ t # Cleanup
        /\ op \in [Attempts -> [Threads -> Spots]]
    BY TaskNames DEF Typed, Fits, Spots
  <1>1. CASE /\ Returns(a, t, FALSE, c) /\ UNCHANGED cleanup
             /\ state' = state \/ state' = [state EXCEPT ![a] = "UNKNOWN"]
    <2>1. RunFails(a)
      <3>1. RunEnds(a, FALSE /\ c # "kept")
        BY <1>1 DEF Returns
      <3>2. RunEnds(a, FALSE)
        BY <3>1 DEF RunEnds
      <3> QED BY <3>2, RunFailure
    <2> QED BY <1>1, <2>1, ReturnsShape DEF Awaits, Gives
  <1>2. CASE /\ cleanup[a] # "none" /\ Goto(a, t, "waitCleanup")
             /\ cancel' = [cancel EXCEPT ![a][t] = c]
             /\ UNCHANGED <<state, cleanup, run>>
    <2>1. "waitCleanup" \in Places
      BY DEF Places, Waits
    <2>2. Moves(a, t, "waitCleanup") /\ op' \in [Attempts -> [Threads -> Ops(Places)]]
      BY <1>0, <1>2, <2>1, GotoMoves, GotoType DEF Typed
    <2>3. cancel' \in [Attempts -> [Tasks -> Cancels]]
      BY <1>0, <1>2 DEF AsyncTypes
    <2> QED BY <1>2, <2>2, <2>3 DEF Awaits, Joins, Ops, Spots
  <1>3. CASE /\ cleanup[a] = "none" /\ cleanup' = [cleanup EXCEPT ![a] = "running"]
             /\ op' = [op EXCEPT
                         ![a][t]       = [pc |-> "waitCleanup", reply |-> NoReply],
                         ![a][Cleanup] = [pc |-> "relCheck", reply |-> NoReply]]
             /\ cancel' = [cancel EXCEPT ![a][t] = c]
             /\ UNCHANGED <<state, run>>
    <2> DEFINE x == [pc |-> "waitCleanup", reply |-> NoReply]
               y == [pc |-> "relCheck", reply |-> NoReply]
    <2>1. x \in Spots /\ y \in Spots
      BY ReplyType DEF NoReply, Spots, Statuses, Places, Waits, Points
    <2> HIDE DEF x, y
    <2>2. op' = [op EXCEPT ![a][t] = x, ![a][Cleanup] = y]
      BY <1>3 DEF x, y
    <2>3. /\ op' \in [Attempts -> [Threads -> Spots]]
          /\ op'[a][t] = x /\ op'[a][Cleanup] = y
          /\ \A b \in Attempts, u \in Threads :
                b # a \/ u \notin {t, Cleanup} => op'[b][u] = op[b][u]
      BY <1>0, <2>1, <2>2
    <2>4. cancel' \in [Attempts -> [Tasks -> Cancels]]
      BY <1>0, <1>3 DEF AsyncTypes
    <2> QED BY <1>3, <2>3, <2>4 DEF Awaits, Starts, x, y
  <1>4. CASE cleanup[a] \in CleanupEnded /\ Settle(a, t, c)
    <2>0. PICK ok \in BOOLEAN : ok = (cleanup[a] = "ok")
      OBVIOUS
    <2>1. Returns(a, t, ok, c) /\ UNCHANGED cleanup /\ run[a] = "none"
          /\ run \in [Attempts -> Runs]
      BY <1>4, <2>0 DEF Settle, CleanupEnded, AsyncTypes
    <2>2. RunFails(a)
      <3>1. RunEnds(a, ok /\ c # "kept")
        BY <2>1 DEF Returns
      <3> QED BY <2>1, <3>1 DEF RunEnds, RunFails
    <2>3. state' = state \/ state' = [state EXCEPT ![a] = "UNKNOWN"]
      BY <1>4 DEF Settle, Typed, Fits
    <2> QED BY <2>1, <2>2, <2>3, ReturnsShape DEF Awaits, Gives
  <1> QED BY <1>1, <1>2, <1>3, <1>4 DEF AwaitCleanup

(* The second half of _stop_renew_task ends in that, or gives up.          *)
LEMMA RenewShape ==
    ASSUME Typed, AsyncTypes, NEW a \in Attempts, NEW t \in UsersOf[a], NEW c \in Cancels,
           RenewSettled(a, t, c), run[a] # "none" => cleanup[a] = "none"
    PROVE  Awaits(a, t) /\ (worker[a] = "exited" \/ Gives(a, t))
  <1>1. CASE worker[a] = "exited" /\ AwaitCleanup(a, t, c)
    BY <1>1, AwaitShape
  <1>2. CASE /\ Returns(a, t, FALSE, c) /\ UNCHANGED cleanup
             /\ state' = [state EXCEPT ![a] = "UNKNOWN"]
    <2>1. RunEnds(a, FALSE /\ c # "kept")
      BY <1>2 DEF Returns
    <2>2. RunEnds(a, FALSE)
      BY <2>1 DEF RunEnds
    <2>3. RunFails(a)
      BY <2>2, RunFailure
    <2> QED BY <1>2, <2>3, ReturnsShape DEF Awaits, Gives
  <1> QED BY <1>1, <1>2 DEF RenewSettled

(* A step that ends in the first half of _await_cleanup.                   *)
LEMMA AwaitKept ==
    ASSUME AsyncInv, NEW a \in Attempts, NEW t \in UsersOf[a], Awaits(a, t),
           attempt[a] = "handle", ~At(a, t, "waitCleanup"),
           Abandon(a, t) \/ (wire' = wire /\ Quiet(a, t)),
           UNCHANGED <<serverVars, attempt, fence, timerVars, worker>>,
           stop' \in [Attempts -> BOOLEAN],
           scope' = scope \/ scope' = [scope EXCEPT ![a] = Nobody],
           run[a] # "none" =>
               /\ cleanup[a] = "none" /\ (worker[a] \in {"none", "exited"} \/ Gives(a, t))
               /\ state[a] \notin {"NONE", "ACQUIRED"} /\ scope'[a] = Nobody
               /\ \A u \in UsersOf[a] \ {t} : At(a, u, "idle")
    PROVE  Kept(a)
  <1>0. /\ Base /\ Typed /\ AsyncTypes /\ Seated(a) /\ Elector(a) /\ t \in Threads
        /\ UsersOf[a] \subseteq Threads /\ t # Worker /\ t # Cleanup
        /\ Worker \in Threads /\ Cleanup \in Threads /\ Cleanup # Worker
        /\ Cleanup \notin UsersOf[a]
        /\ state \in [Attempts -> {"NONE", "ACQUIRED", "ENTERED"} \cup Terminal]
        /\ attempt \in [Attempts -> {"new", "running", "none", "error", "handle", "crashed"}]
        /\ scope \in [Attempts -> UserThreads \cup {Nobody}]
        /\ worker \in [Attempts -> {"none", "running", "woken", "stopping", "exited", "cancelled"}]
        /\ cleanup \in [Attempts -> Cleanups] /\ run \in [Attempts -> Runs]
    BY TaskNames DEF AsyncInv, Base, Typed, Fits, AsyncTypes
  <1>1. /\ state' = state \/ state' = [state EXCEPT ![a] = "UNKNOWN"]
        /\ op' \in [Attempts -> [Threads -> Spots]]
    BY DEF Awaits, Gives, Joins, Starts
  <1>2. PICK T \in SUBSET Threads :
          /\ t \in T /\ \A u \in T \ {t} : Quiet(a, u)
          /\ \A b \in Attempts, u \in Threads :
               \/ op'[b][u] = op[b][u]
               \/ /\ b = a /\ u \in T
                  /\ op'[b][u].pc \in Waits \cup {"relCheck", "idle"}
                  /\ op'[b][u].reply = NoReply
    <2>1. CASE Gives(a, t) \/ Joins(a, t)
      <3>1. PICK pc \in {"idle", "waitCleanup"} : Moves(a, t, pc)
        BY <2>1 DEF Gives, Joins
      <3>2. /\ op'[a][t].pc = pc /\ op'[a][t].reply = NoReply
            /\ \A b \in Attempts, u \in Threads : b # a \/ u # t => op'[b][u] = op[b][u]
        BY <3>1 DEF Moves
      <3>3. {t} \in SUBSET Threads /\ pc \in Waits \cup {"relCheck", "idle"}
        BY <1>0 DEF Waits
      <3> QED BY <3>2, <3>3
    <2>2. CASE Starts(a, t)
      <3>1. Quiet(a, Cleanup)
        <4>1. op[a][Cleanup].pc = "idle"
          BY <1>0, <2>2 DEF Starts, Seated, At
        <4> QED BY <1>0, <4>1, NoCall DEF Base, IoPoints
      <3>2. /\ op'[a][t].pc = "waitCleanup" /\ op'[a][t].reply = NoReply
            /\ op'[a][Cleanup].pc = "relCheck" /\ op'[a][Cleanup].reply = NoReply
            /\ \A b \in Attempts, u \in Threads :
                 b # a \/ u \notin {t, Cleanup} => op'[b][u] = op[b][u]
        BY <2>2 DEF Starts
      <3>3. {t, Cleanup} \in SUBSET Threads /\ "waitCleanup" \in Waits
        BY <1>0 DEF Waits
      <3> QED BY <3>1, <3>2, <3>3
    <2> QED BY <2>1, <2>2 DEF Awaits
  <1>3. Loses(a, T) /\ wire' \subseteq Requests
    BY <1>0, <1>2, AbandonLoses
  <1>4. Frame
    BY <1>0, <1>1, <1>2, <1>3, TaskDrops
  <1>5. Typed'
    <2>1. state' \in [Attempts -> {"NONE", "ACQUIRED", "ENTERED"} \cup Terminal]
      BY <1>0, <1>1 DEF Terminal
    <2>2. scope' \in [Attempts -> UserThreads \cup {Nobody}]
      BY <1>0
    <2> QED BY <1>0, <1>1, <1>3, <2>1, <2>2, TypedKeep
  <1>6. AsyncTypes'
    <2>1. cleanup' \in [Attempts -> Cleanups]
      BY <1>0 DEF Awaits, Gives, Joins, Starts, Cleanups
    <2>2. run' \in [Attempts -> Runs]
      BY <1>0 DEF Awaits, Gives, Joins, Starts, RunFails, Runs
    <2> QED BY <1>0, <2>1, <2>2 DEF AsyncTypes, Awaits
  <1>7. ASSUME NEW b \in Attempts \ {a}
        PROVE  Same(b)
    <2>1. \A u \in Threads : op'[b][u] = op[b][u]
      BY <1>2
    <2>2. state'[b] = state[b] /\ scope'[b] = scope[b]
      BY <1>0, <1>1
    <2>3. cleanup'[b] = cleanup[b] /\ run'[b] = run[b]
      BY <1>0 DEF Awaits, Gives, Joins, Starts, RunFails
    <2> QED BY <2>1, <2>2, <2>3 DEF Same
  <1>8. CASE Gives(a, t) \/ Joins(a, t)
    <2>1. PICK pc \in {"idle", "waitCleanup"} :
            Moves(a, t, pc) /\ (Gives(a, t) => pc = "idle")
      BY <1>8 DEF Gives, Joins
    <2>2. op'[a][t].pc = pc /\ \A u \in Threads \ {t} : op'[a][u].pc = op[a][u].pc
      BY <2>1 DEF Moves
    <2>3. cleanup' = cleanup
      BY <1>8 DEF Gives, Joins
    <2>4. Seated(a)'
      <3>1. state[a] = "UNKNOWN" => state'[a] = "UNKNOWN"
        BY <1>0, <1>1
      <3> QED BY <1>0, <2>1, <2>2, <2>3, <3>1, SeatedMove DEF ReleasePoints
    <2>5. Elector(a)'
      <3> SUFFICES ASSUME run'[a] # "none"
                   PROVE  Single(a)'
        BY DEF Elector
      <3>1. run[a] # "none"
        BY <1>0, <1>8 DEF Gives, Joins, RunFails
      <3>2. Gives(a, t) /\ pc = "idle"
        BY <1>8, <2>1, <3>1 DEF Joins
      <3>3. run'[a] \notin LeaseResults
        BY <1>0, <3>2 DEF Gives, RunFails, LeaseResults
      <3>4. state'[a] \notin {"NONE", "ACQUIRED"}
        BY <1>0, <1>1, <3>1
      <3>5. \A u \in UsersOf[a] \ {t} : op'[a][u].pc = "idle"
        BY <1>0, <2>2, <3>1 DEF At
      <3> QED BY <2>2, <2>3, <3>1, <3>2, <3>3, <3>4, <3>5, SingleMove
    <2> QED BY <1>4, <1>5, <1>6, <1>7, <2>4, <2>5 DEF Kept
  <1>9. CASE Starts(a, t)
    <2>1. /\ op'[a][t].pc = "waitCleanup" /\ op'[a][Cleanup].pc = "relCheck"
          /\ \A u \in Threads \ {t, Cleanup} : op'[a][u].pc = op[a][u].pc
          /\ cleanup[a] = "none" /\ cleanup'[a] = "running"
          /\ state' = state /\ run' = run
      BY <1>0, <1>9 DEF Starts
    <2>2. /\ op'[a][Worker].pc = op[a][Worker].pc
          /\ \A u \in UsersOf[a] \ {t} : op'[a][u].pc = op[a][u].pc
      BY <1>0, <2>1
    <2>3. Seated(a)'
      BY <1>0, <2>1, <2>2 DEF Seated, At, ReleasePoints
    <2>4. Elector(a)'
      <3> SUFFICES ASSUME run[a] # "none"
                   PROVE  Single(a)'
        BY <2>1 DEF Elector
      <3>1. run[a] \notin LeaseResults
        BY <1>0, <2>1 DEF Elector, Single
      <3>2. \A u \in UsersOf[a] \ {t} : op'[a][u].pc = "idle"
        BY <2>2 DEF At
      <3>3. worker[a] \in {"none", "exited"}
        BY <2>1 DEF Gives
      <3> QED BY <2>1, <3>1, <3>2, <3>3, SingleMove
    <2> QED BY <1>4, <1>5, <1>6, <1>7, <2>3, <2>4 DEF Kept
  <1> QED BY <1>8, <1>9 DEF Awaits

(* A step of one user task that leaves the cleanup task alone.             *)
LEMMA MoveKept ==
    ASSUME AsyncInv, NEW a \in Attempts, NEW t \in UsersOf[a],
           NEW pc \in {"idle", "waitRenew", "waitRenewUntil"}, Goto(a, t, pc),
           attempt[a] = "handle", Frame, wire' \subseteq Requests,
           UNCHANGED <<serverVars, attempt, fence, timerVars, cleanup>>,
           \E s \in {"ENTERED"} \cup Terminal : state' = state \/ state' = [state EXCEPT ![a] = s],
           stop' \in [Attempts -> BOOLEAN],
           worker' = worker \/ worker' = [worker EXCEPT ![a] = "running"],
           \E n \in {t, Nobody} : scope' = scope \/ scope' = [scope EXCEPT ![a] = n],
           cancel' \in [Attempts -> [Tasks -> Cancels]],
           \E r \in Runs : run' = run \/ run' = [run EXCEPT ![a] = r],
           run[a] = "none" => run'[a] = "none",
           At(a, t, "waitCleanup") =>
               cleanup[a] # "running" /\ (cleanup[a] = "stopping" => state'[a] = "UNKNOWN"),
           state[a] = "UNKNOWN" => state'[a] = "UNKNOWN",
           run[a] # "none" =>
               /\ \A u \in UsersOf[a] \ {t} : At(a, u, "idle")
               /\ state'[a] \notin {"NONE", "ACQUIRED"}
               /\ scope'[a] # Nobody => cleanup[a] = "none" /\ pc = "idle"
               /\ pc # "idle" => cleanup[a] = "none"
               /\ cleanup[a] # "none" => worker'[a] \in {"none", "exited"}
               /\ cleanup[a] = "ok" => state'[a] = "RELEASED"
               /\ run'[a] \in LeaseResults => cleanup[a] = "ok"
    PROVE  Kept(a)
  <1>0. /\ Base /\ Typed /\ AsyncTypes /\ Seated(a) /\ Elector(a) /\ t \in Threads
        /\ UsersOf[a] \subseteq Threads /\ t \in UserThreads
        /\ state \in [Attempts -> {"NONE", "ACQUIRED", "ENTERED"} \cup Terminal]
        /\ attempt \in [Attempts -> {"new", "running", "none", "error", "handle", "crashed"}]
        /\ scope \in [Attempts -> UserThreads \cup {Nobody}]
        /\ worker \in [Attempts -> {"none", "running", "woken", "stopping", "exited", "cancelled"}]
        /\ run \in [Attempts -> Runs]
    BY TaskNames DEF AsyncInv, Base, Typed, Fits, AsyncTypes
  <1>1. pc \in Places
    BY DEF Places, Points, Waits
  <1>2. Moves(a, t, pc) /\ op' \in [Attempts -> [Threads -> Spots]]
    <2>1. op' \in [Attempts -> [Threads -> Ops(Places)]]
      BY <1>0, <1>1, GotoType DEF Typed
    <2> QED BY <1>0, <1>1, <2>1, GotoMoves DEF Ops, Spots
  <1>3. op'[a][t].pc = pc /\ \A u \in Threads \ {t} : op'[a][u].pc = op[a][u].pc
    BY <1>2 DEF Moves
  <1>4. /\ state' \in [Attempts -> {"NONE", "ACQUIRED", "ENTERED"} \cup Terminal]
        /\ scope' \in [Attempts -> UserThreads \cup {Nobody}]
        /\ worker' \in [Attempts -> {"none", "running", "woken", "stopping", "exited", "cancelled"}]
        /\ run' \in [Attempts -> Runs]
        /\ \A b \in Attempts \ {a} : /\ state'[b] = state[b] /\ scope'[b] = scope[b]
                                     /\ worker'[b] = worker[b] /\ run'[b] = run[b]
    <2>1. /\ state' \in [Attempts -> {"NONE", "ACQUIRED", "ENTERED"} \cup Terminal]
          /\ \A b \in Attempts \ {a} : state'[b] = state[b]
      BY <1>0
    <2>2. /\ scope' \in [Attempts -> UserThreads \cup {Nobody}]
          /\ \A b \in Attempts \ {a} : scope'[b] = scope[b]
      BY <1>0
    <2>3. /\ worker' \in [Attempts -> {"none", "running", "woken", "stopping", "exited", "cancelled"}]
          /\ \A b \in Attempts \ {a} : worker'[b] = worker[b]
      BY <1>0
    <2>4. run' \in [Attempts -> Runs] /\ \A b \in Attempts \ {a} : run'[b] = run[b]
      BY <1>0
    <2> QED BY <2>1, <2>2, <2>3, <2>4
  <1>5. Typed' /\ AsyncTypes'
    BY <1>0, <1>2, <1>4, TypedKeep DEF AsyncTypes
  <1>6. ASSUME NEW b \in Attempts \ {a}
        PROVE  Same(b)
    BY <1>2, <1>4 DEF Same, Moves
  <1>7. Seated(a)'
    BY <1>0, <1>3, SeatedMove DEF ReleasePoints
  <1>8. Elector(a)'
    <2> SUFFICES ASSUME run[a] # "none"
                 PROVE  Single(a)'
      BY DEF Elector
    <2>1. \A u \in UsersOf[a] \ {t} : op'[a][u].pc = "idle"
      BY <1>0, <1>3 DEF At
    <2> QED BY <1>3, <2>1, SingleMove
  <1> QED BY <1>5, <1>6, <1>7, <1>8 DEF Kept

(* Such a step when the task learns nothing.                               *)
LEMMA MoveFrame ==
    ASSUME AsyncInv, NEW a \in Attempts, NEW t \in UsersOf[a],
           NEW pc \in {"idle", "waitRenew", "waitRenewUntil"}, Goto(a, t, pc),
           attempt[a] = "handle",
           Abandon(a, t) \/ (wire' = wire /\ Quiet(a, t)),
           UNCHANGED <<serverVars, attempt, fence>>,
           state' = state \/ state' = [state EXCEPT ![a] = "UNKNOWN"],
           worker' = worker \/ worker' = [worker EXCEPT ![a] = "running"]
    PROVE  Frame /\ wire' \subseteq Requests
  <1>0. /\ Base /\ Typed /\ t \in Threads /\ {t} \in SUBSET Threads
        /\ pc \in Places /\ pc \in Waits \cup {"relCheck", "idle"}
        /\ worker \in [Attempts -> {"none", "running", "woken", "stopping", "exited", "cancelled"}]
    BY TaskNames DEF AsyncInv, Base, Places, Points, Waits, AsyncTypes
  <1>1. Moves(a, t, pc)
    BY <1>0, GotoMoves
  <1>2. Loses(a, {t}) /\ wire' \subseteq Requests
    <2>1. t \in {t} /\ \A u \in {t} \ {t} : Quiet(a, u)
      OBVIOUS
    <2> QED BY <1>0, <2>1, AbandonLoses
  <1>3. \A b \in Attempts, u \in Threads :
               \/ op'[b][u] = op[b][u]
               \/ /\ b = a /\ u \in {t}
                  /\ op'[b][u].pc \in Waits \cup {"relCheck", "idle"}
                  /\ op'[b][u].reply = NoReply
    <2>1. op'[a][t].pc = pc /\ op'[a][t].reply = NoReply
      BY <1>1 DEF Moves
    <2> QED BY <1>0, <1>1, <2>1 DEF Moves
  <1>4. \A b \in Attempts \ {a} : worker'[b] = worker[b]
    BY <1>0
  <1> QED BY <1>0, <1>2, <1>3, <1>4, TaskDrops

(* What a task that waits in one of these places knows.                    *)
LEMMA WaitingFacts ==
    ASSUME AsyncInv, NEW a \in Attempts, NEW t \in UsersOf[a],
           op[a][t].pc \in Waits \cup {"enterProof", "renew", "probe"}
    PROVE  /\ attempt[a] = "handle"
           /\ run[a] # "none" =>
                 /\ state[a] \notin {"NONE", "ACQUIRED"} /\ scope[a] = Nobody
                 /\ \A u \in UsersOf[a] \ {t} : At(a, u, "idle")
                 /\ op[a][t].pc \notin {"renew", "probe"}
                 /\ At(a, t, "enterProof") => worker[a] = "none"
                 /\ ~At(a, t, "waitCleanup") => cleanup[a] = "none"
                 /\ At(a, t, "waitCleanup") => cleanup[a] # "none"
                 /\ cleanup[a] # "none" => worker[a] \in {"none", "exited"}
                 /\ cleanup[a] = "ok" => state[a] = "RELEASED"
                 /\ run[a] \in LeaseResults => cleanup[a] = "ok"
  <1>0. /\ Base /\ Seated(a) /\ Elector(a) /\ t \in Threads
    BY TaskNames DEF AsyncInv
  <1>1. attempt[a] = "handle"
    BY <1>0 DEF Base, ControlInv, AcquirePoints, Waits
  <1>2. ASSUME run[a] # "none"
        PROVE  /\ state[a] \notin {"NONE", "ACQUIRED"} /\ scope[a] = Nobody
               /\ \A u \in UsersOf[a] \ {t} : At(a, u, "idle")
    BY <1>0, <1>2 DEF Elector, Single, At, Waits, AcquirePoints
  <1> QED BY <1>0, <1>1, <1>2 DEF Elector, Single, At, Waits

(* A renew or is_held call that is cancelled.                              *)
LEMMA CancelProofKept ==
    ASSUME AsyncInv, NEW a \in Attempts, NEW t \in UsersOf[a], CancelProof(a, t)
    PROVE  Kept(a)
  <1>0. /\ attempt[a] = "handle" /\ run[a] = "none" /\ t \in UserThreads
        /\ AsyncTypes /\ Typed
    BY WaitingFacts, TaskNames DEF CancelProof, AsyncInv, Base
  <1>1. /\ Goto(a, t, "idle") /\ Abandon(a, t) /\ ~At(a, t, "waitCleanup")
        /\ UNCHANGED <<serverVars, attempt, fence, timerVars, cleanup, state, worker,
                       scope, stop, cancel, run>>
    BY DEF CancelProof, handleVars, At
  <1>2. Frame /\ wire' \subseteq Requests
    BY <1>0, <1>1, MoveFrame
  <1>3. stop' \in [Attempts -> BOOLEAN] /\ cancel' \in [Attempts -> [Tasks -> Cancels]]
        /\ run' \in [Attempts -> Runs]
    BY <1>0, <1>1 DEF AsyncTypes, Typed, Fits
  <1> QED BY <1>0, <1>1, <1>2, <1>3, MoveKept DEF Runs

(* __aenter__ when its proof has arrived.                                  *)
LEMMA EnterReplyKept ==
    ASSUME AsyncInv, NEW a \in Attempts, NEW t \in UsersOf[a], AsyncEnterReply(a, t)
    PROVE  Kept(a)
  <1>0. /\ Base /\ Typed /\ AsyncTypes /\ Seated(a) /\ Elector(a)
        /\ t \in UserThreads /\ t \in Threads
        /\ At(a, t, "enterProof") /\ Status(a, t) # "NONE" /\ ~At(a, t, "waitCleanup")
        /\ UNCHANGED <<serverVars, wire, attempt, fence, stop, timerVars>>
    BY TaskNames DEF AsyncInv, Base, AsyncEnterReply, Replied, At
  <1>1. /\ attempt[a] = "handle" /\ Quiet(a, t)
        /\ run[a] # "none" =>
              /\ state[a] \notin {"NONE", "ACQUIRED"} /\ scope[a] = Nobody
              /\ \A u \in UsersOf[a] \ {t} : At(a, u, "idle")
              /\ worker[a] = "none" /\ cleanup[a] = "none" /\ run[a] \notin LeaseResults
    BY <1>0, WaitingFacts, HandleFacts DEF At
  <1>2. /\ stop' \in [Attempts -> BOOLEAN] /\ cancel \in [Attempts -> [Tasks -> Cancels]]
        /\ run \in [Attempts -> Runs]
        /\ state \in [Attempts -> {"NONE", "ACQUIRED", "ENTERED"} \cup Terminal]
        /\ scope \in [Attempts -> UserThreads \cup {Nobody}]
        /\ worker \in [Attempts -> {"none", "running", "woken", "stopping", "exited", "cancelled"}]
    BY <1>0 DEF AsyncTypes, Typed, Fits
  <1>3. ASSUME Proved(a, t), Goto(a, t, "idle"),
               worker' = [worker EXCEPT ![a] = IF AutoRenew THEN "running" ELSE @],
               scope' = [scope EXCEPT ![a] = t],
               UNCHANGED <<state, cleanup, cancel, run>>
        PROVE  Kept(a)
    <2>1. worker' = worker \/ worker' = [worker EXCEPT ![a] = "running"]
      BY <1>2, <1>3
    <2>2. Frame /\ wire' \subseteq Requests
      BY <1>0, <1>1, <1>3, <2>1, MoveFrame
    <2>3. run' = run /\ cancel' \in [Attempts -> [Tasks -> Cancels]] /\ "none" \in Runs
          /\ state' = state /\ "ENTERED" \in {"ENTERED"} \cup Terminal
      BY <1>2, <1>3 DEF Runs
    <2> QED BY <1>0, <1>1, <1>2, <1>3, <2>1, <2>2, <2>3, MoveKept
  <1>4. ASSUME AwaitCleanup(a, t, "deaf"), UNCHANGED <<worker, scope>>
        PROVE  Kept(a)
    <2>1. Awaits(a, t)
      BY <1>0, <1>1, <1>4, AwaitShape DEF Cancels
    <2> QED BY <1>0, <1>1, <1>2, <1>4, <2>1, AwaitKept
  <1>5. ASSUME ~Proved(a, t), Goto(a, t, "idle"),
               state' = [state EXCEPT ![a] = AfterProof(@, Status(a, t))],
               run' = [run EXCEPT ![a] = IF @ = "elector" THEN "raised" ELSE @],
               UNCHANGED <<worker, scope, cleanup, cancel>>
        PROVE  Kept(a)
    <2> DEFINE s == AfterProof(state[a], Status(a, t))
    <2>1. /\ state' = [state EXCEPT ![a] = s] /\ MayTurn(a, s) /\ s \in Terminal
          /\ worker' = [worker EXCEPT ![a] = worker[a]] /\ "idle" \in Places
      BY <1>0, <1>1, <1>2, <1>5, HandleFacts
         DEF Proved, AfterProof, Terminal, Places, Points
    <2> HIDE DEF s
    <2>2. Local(a, t)
      BY <1>0, <1>1, <1>5, <2>1, HandleMoves DEF AcquirePoints
    <2>3. Frame /\ wire' \subseteq Requests
      BY <1>0, <2>2 DEF Frame, Typed, Fits
    <2>4. state'[a] \notin {"NONE", "ACQUIRED"} /\ (state[a] = "UNKNOWN" => state'[a] = "UNKNOWN")
      <3>1. state[a] = "UNKNOWN" => s = "UNKNOWN"
        BY DEF s, AfterProof, Terminal
      <3> QED BY <1>2, <2>1, <3>1 DEF Terminal
    <2>5. PICK r \in Runs : run' = [run EXCEPT ![a] = r] /\ r \in {run[a], "raised"}
                                  /\ (run[a] = "none" => r = "none")
      BY <1>2, <1>5 DEF Runs
    <2>6. run'[a] = r
      BY <1>2, <2>5
    <2> QED BY <1>0, <1>1, <1>2, <1>5, <2>1, <2>3, <2>4, <2>5, <2>6, MoveKept DEF LeaseResults
  <1> QED BY <1>3, <1>4, <1>5 DEF AsyncEnterReply

(* A cancelled __aenter__.                                                 *)
LEMMA CancelEnterKept ==
    ASSUME AsyncInv, NEW a \in Attempts, NEW t \in UsersOf[a], CancelEnter(a, t)
    PROVE  Kept(a)
  <1>0. /\ Base /\ Typed /\ AsyncTypes /\ t \in UserThreads
        /\ At(a, t, "enterProof") /\ ~At(a, t, "waitCleanup") /\ Abandon(a, t)
        /\ UNCHANGED <<serverVars, attempt, fence, scope, worker, stop, timerVars>>
    BY TaskNames DEF AsyncInv, Base, CancelEnter, At
  <1>1. /\ attempt[a] = "handle"
        /\ run[a] # "none" =>
              /\ state[a] \notin {"NONE", "ACQUIRED"} /\ scope[a] = Nobody
              /\ \A u \in UsersOf[a] \ {t} : At(a, u, "idle")
              /\ worker[a] = "none" /\ cleanup[a] = "none"
    BY <1>0, WaitingFacts DEF At
  <1>2. stop' \in [Attempts -> BOOLEAN]
    BY <1>0 DEF Typed, Fits
  <1>3. Awaits(a, t)
    BY <1>0, <1>1, AwaitShape DEF CancelEnter, Cancels
  <1> QED BY <1>0, <1>1, <1>2, <1>3, AwaitKept

(* A call that has waited for the renewal task.                            *)
LEMMA StopDoneKept ==
    ASSUME AsyncInv, NEW a \in Attempts, NEW t \in UsersOf[a], StopDone(a, t)
    PROVE  Kept(a)
  <1>0. /\ Base /\ Typed /\ AsyncTypes /\ t \in Threads /\ t \in Tasks
        /\ op[a][t].pc \in {"waitRenew", "waitRenewUntil"} /\ ~At(a, t, "waitCleanup")
        /\ UNCHANGED <<serverVars, wire, attempt, fence, scope, worker, stop, timerVars>>
    BY TaskNames DEF AsyncInv, Base, StopDone, At
  <1>1. /\ attempt[a] = "handle" /\ Quiet(a, t)
        /\ run[a] # "none" =>
              /\ state[a] \notin {"NONE", "ACQUIRED"} /\ scope[a] = Nobody
              /\ \A u \in UsersOf[a] \ {t} : At(a, u, "idle")
              /\ cleanup[a] = "none"
    BY <1>0, WaitingFacts, NoCall DEF At, Waits, IoPoints, Base
  <1>2. stop' \in [Attempts -> BOOLEAN]
    BY <1>0 DEF Typed, Fits
  <1>3. Dropped(cancel[a][t]) \in Cancels
    <2>1. cancel[a][t] \in Cancels
      BY <1>0 DEF AsyncTypes
    <2> QED BY <2>1 DEF Dropped, Cancels
  <1>4. Awaits(a, t) /\ (worker[a] = "exited" \/ Gives(a, t))
    BY <1>0, <1>1, <1>3, RenewShape DEF StopDone
  <1> QED BY <1>0, <1>1, <1>2, <1>4, AwaitKept

(* release and __aexit__: stop the renewal task, if there is one.          *)
LEMMA StopRenewKept ==
    ASSUME AsyncInv, NEW a \in Attempts, NEW t \in UsersOf[a], NEW c \in Cancels,
           StopRenewTask(a, t, c), Idle(a, t),
           UNCHANGED <<serverVars, wire, attempt, fence, worker, timerVars>>,
           \/ run[a] = "none" /\ scope' = scope
           \/ scope[a] = t /\ scope' = [scope EXCEPT ![a] = Nobody]
    PROVE  Kept(a)
  <1>0. /\ Base /\ Typed /\ AsyncTypes /\ Elector(a) /\ t \in Threads /\ t \in Tasks
        /\ t \in UserThreads /\ t # Nobody
        /\ attempt[a] = "handle" /\ op[a][t].pc = "idle" /\ ~At(a, t, "waitCleanup")
    BY TaskNames DEF AsyncInv, Base, Idle, At
  <1>1. Quiet(a, t)
    BY <1>0, NoCall DEF IoPoints, Base
  <1>2. /\ scope \in [Attempts -> UserThreads \cup {Nobody}]
        /\ stop \in [Attempts -> BOOLEAN]
    BY <1>0 DEF Typed, Fits
  <1>3. run[a] # "none" =>
          /\ cleanup[a] = "none" /\ state[a] \notin {"NONE", "ACQUIRED"}
          /\ scope'[a] = Nobody /\ \A u \in UsersOf[a] \ {t} : At(a, u, "idle")
          /\ run[a] \notin LeaseResults
    BY <1>0, <1>2 DEF Elector, Single
  <1>4. scope' = scope \/ scope' = [scope EXCEPT ![a] = Nobody]
    OBVIOUS
  <1>5. CASE worker[a] = "none"
    <2>1. AwaitCleanup(a, t, c) /\ stop' = stop
      BY <1>5 DEF StopRenewTask, RenewEnded
    <2>2. Awaits(a, t)
      BY <1>0, <1>3, <2>1, AwaitShape
    <2> QED BY <1>0, <1>1, <1>2, <1>3, <1>4, <1>5, <2>1, <2>2, AwaitKept
  <1>7. CASE worker[a] \in RenewEnded
    <2>1. RenewSettled(a, t, c) /\ stop' = [stop EXCEPT ![a] = TRUE]
      BY <1>7 DEF StopRenewTask, RenewEnded
    <2>2. Awaits(a, t) /\ (worker[a] = "exited" \/ Gives(a, t))
      BY <1>0, <1>3, <2>1, RenewShape
    <2>3. stop' \in [Attempts -> BOOLEAN]
      BY <1>2, <2>1
    <2> QED BY <1>0, <1>1, <1>3, <1>4, <2>2, <2>3, AwaitKept
  <1>6. CASE worker[a] \notin RenewEnded \cup {"none"}
    <2>1. /\ stop' = [stop EXCEPT ![a] = TRUE]
          /\ cancel' = [cancel EXCEPT ![a][t] = c]
          /\ UNCHANGED <<state, cleanup, run>>
      BY <1>6 DEF StopRenewTask
    <2>2. PICK pc \in {"waitRenew", "waitRenewUntil"} : Goto(a, t, pc)
      BY <1>6 DEF StopRenewTask
    <2>3. /\ stop' \in [Attempts -> BOOLEAN]
          /\ cancel' \in [Attempts -> [Tasks -> Cancels]] /\ "none" \in Runs
      BY <1>0, <1>2, <2>1 DEF AsyncTypes, Runs
    <2>4. Frame /\ wire' \subseteq Requests
      BY <1>0, <1>1, <2>1, <2>2, MoveFrame
    <2> QED BY <1>0, <1>3, <1>4, <2>1, <2>2, <2>3, <2>4, MoveKept
  <1> QED BY <1>5, <1>6, <1>7

(* Both operations end in that.                                            *)
LEMMA ReleaseKept ==
    ASSUME AsyncInv, NEW a \in Attempts, NEW t \in UsersOf[a],
           AsyncRelease(a, t) \/ \E c \in BOOLEAN : AsyncExit(a, t, c)
    PROVE  Kept(a)
  <1>1. CASE AsyncRelease(a, t)
    BY <1>1, StopRenewKept DEF AsyncRelease, Plain, Cancels
  <1>2. ASSUME NEW c \in BOOLEAN, AsyncExit(a, t, c)
        PROVE  Kept(a)
    <2>1. PICK k \in {"kept", "none"} : StopRenewTask(a, t, k)
      BY <1>2 DEF AsyncExit
    <2> QED BY <1>2, <2>1, StopRenewKept DEF AsyncExit, Cancels
  <1> QED BY <1>1, <1>2

(* A wait that runs out: the call leaves, and the handle is UNKNOWN.       *)
LEMMA OutlivesKept ==
    ASSUME AsyncInv, NEW a \in Attempts, NEW t \in UsersOf[a],
           RenewOutlives(a, t) \/ CleanupOutlives(a, t)
    PROVE  Kept(a)
  <1>0. /\ Base /\ Typed /\ AsyncTypes /\ t \in Threads /\ t \in Tasks
        /\ op[a][t].pc \in Waits /\ (At(a, t, "waitCleanup") => cleanup[a] = "stopping")
        /\ state' = [state EXCEPT ![a] = "UNKNOWN"]
        /\ Returns(a, t, FALSE, cancel[a][t])
        /\ UNCHANGED <<serverVars, wire, attempt, fence, scope, worker, stop, timerVars, cleanup>>
    BY TaskNames DEF AsyncInv, Base, RenewOutlives, CleanupOutlives, At, Waits
  <1>1. /\ attempt[a] = "handle" /\ Quiet(a, t)
        /\ run[a] # "none" =>
              /\ scope[a] = Nobody
              /\ \A u \in UsersOf[a] \ {t} : At(a, u, "idle")
              /\ ~At(a, t, "waitCleanup") => cleanup[a] = "none"
              /\ cleanup[a] # "none" => worker[a] \in {"none", "exited"}
    BY <1>0, WaitingFacts, NoCall DEF At, Waits, IoPoints, Base
  <1>2. cancel[a][t] \in Cancels
    BY <1>0 DEF AsyncTypes
  <1>3. /\ cancel' \in [Attempts -> [Tasks -> Cancels]] /\ Goto(a, t, "idle")
        /\ RunEnds(a, FALSE /\ cancel[a][t] # "kept")
    BY <1>0, <1>2, ReturnsShape DEF Returns
  <1>4. Frame /\ wire' \subseteq Requests
    BY <1>0, <1>1, <1>3, MoveFrame
  <1>5. PICK r \in Runs : run' = [run EXCEPT ![a] = r] /\ r \notin LeaseResults
                                /\ (run[a] = "none" => r = "none")
    <2>1. RunEnds(a, FALSE)
      BY <1>3 DEF RunEnds
    <2>2. RunFails(a)
      BY <1>0, <2>1, RunFailure
    <2> DEFINE x == IF run[a] = "none" THEN run[a] ELSE "raised"
    <2>3. run' = [run EXCEPT ![a] = x]
      BY <2>2 DEF RunFails
    <2>4. x \in Runs /\ x \notin LeaseResults /\ (run[a] = "none" => x = "none")
      BY DEF Runs, LeaseResults
    <2> QED BY <2>3, <2>4
  <1>6. /\ run'[a] = r /\ state'[a] = "UNKNOWN" /\ stop' \in [Attempts -> BOOLEAN]
    BY <1>0, <1>5 DEF AsyncTypes, Typed, Fits
  <1>7. run[a] # "none" => cleanup[a] # "ok"
    BY <1>0, <1>1
  <1> QED BY <1>0, <1>1, <1>3, <1>4, <1>5, <1>6, <1>7, MoveKept DEF Terminal

(* The wait for the cleanup task ends.                                     *)
LEMMA CleanupDoneKept ==
    ASSUME AsyncInv, NEW a \in Attempts, NEW t \in UsersOf[a], CleanupDone(a, t)
    PROVE  Kept(a)
  <1>0. /\ Base /\ Typed /\ AsyncTypes /\ t \in Threads /\ t \in Tasks
        /\ At(a, t, "waitCleanup") /\ cleanup[a] \in {"ok", "raised", "cancelled"}
        /\ UNCHANGED <<serverVars, wire, attempt, fence, scope, worker, stop, timerVars,
                       cleanup>>
    BY TaskNames DEF AsyncInv, Base, CleanupDone, CleanupEnded, Settle
  <1>1. /\ attempt[a] = "handle" /\ Quiet(a, t)
        /\ run[a] # "none" =>
              /\ state[a] \notin {"NONE", "ACQUIRED"} /\ scope[a] = Nobody
              /\ \A u \in UsersOf[a] \ {t} : At(a, u, "idle")
              /\ cleanup[a] # "none" => worker[a] \in {"none", "exited"}
              /\ cleanup[a] = "ok" => state[a] = "RELEASED"
              /\ run[a] \in LeaseResults => cleanup[a] = "ok"
    BY <1>0, WaitingFacts, NoCall DEF At, Waits, IoPoints, Base
  <1>2. PICK ok \in BOOLEAN : ok = (cleanup[a] = "ok")
    OBVIOUS
  <1>3. cancel[a][t] \in Cancels /\ Returns(a, t, ok, cancel[a][t])
    BY <1>0, <1>2 DEF AsyncTypes, CleanupDone, Settle
  <1>4. /\ cancel' \in [Attempts -> [Tasks -> Cancels]] /\ Goto(a, t, "idle")
        /\ RunEnds(a, ok /\ cancel[a][t] # "kept")
    BY <1>0, <1>3, ReturnsShape DEF Returns
  <1>5. state' = state \/ state' = [state EXCEPT ![a] = "UNKNOWN"]
    BY <1>0 DEF CleanupDone, Settle, Typed, Fits
  <1>6. /\ cleanup[a] = "ok" => state'[a] = state[a]
        /\ state'[a] \in {state[a], "UNKNOWN"} /\ stop' \in [Attempts -> BOOLEAN]
    BY <1>0 DEF CleanupDone, Settle, Typed, Fits
  <1>7. PICK r \in Runs : /\ run' = [run EXCEPT ![a] = r]
                          /\ r \in LeaseResults => ok
                          /\ run[a] = "none" => r = "none"
    BY <1>0, <1>4 DEF RunEnds, Runs, LeaseResults, AsyncTypes
  <1>8. run'[a] = r
    BY <1>0, <1>7 DEF AsyncTypes
  <1>9. Frame /\ wire' \subseteq Requests
    BY <1>0, <1>1, <1>4, <1>5, MoveFrame
  <1> QED BY <1>0, <1>1, <1>2, <1>4, <1>5, <1>6, <1>7, <1>8, <1>9, MoveKept DEF Terminal

(* The release envelope is over: the cleanup task is told to stop.         *)
LEMMA CleanupExpiresKept ==
    ASSUME AsyncInv, NEW a \in Attempts, NEW t \in UsersOf[a], CleanupExpires(a, t)
    PROVE  Kept(a)
  <1>0. /\ Base /\ Typed /\ AsyncTypes /\ Seated(a) /\ Elector(a)
        /\ At(a, t, "waitCleanup") /\ cleanup[a] = "running"
        /\ cleanup' = [cleanup EXCEPT ![a] = "stopping"] /\ UNCHANGED <<vars, cancel, run>>
        /\ cleanup \in [Attempts -> Cleanups]
    BY DEF AsyncInv, Base, CleanupExpires, AsyncTypes
  <1>1. UNCHANGED <<lease, counter, history, grant, wire, attempt, state, fence, scope,
                    worker, stop, minLeft, waitLeft, op, cancel, run>>
    BY <1>0 DEF vars, serverVars, handleVars, timerVars
  <1>2. Typed' /\ Frame
    BY <1>0, <1>1 DEF Typed, Fits, Frame, Rests, serverVars
  <1>3. /\ cleanup' \in [Attempts -> Cleanups] /\ cleanup'[a] = "stopping"
        /\ \A b \in Attempts \ {a} : cleanup'[b] = cleanup[b]
    BY <1>0 DEF Cleanups
  <1>4. AsyncTypes'
    BY <1>0, <1>1, <1>3 DEF AsyncTypes
  <1>5. Seated(a)'
    BY <1>0, <1>1, <1>3 DEF Seated, At
  <1>6. Elector(a)'
    BY <1>0, <1>1, <1>3 DEF Elector, Single, At
  <1>7. \A b \in Attempts \ {a} : Same(b)
    BY <1>1, <1>3 DEF Same
  <1> QED BY <1>2, <1>4, <1>5, <1>6, <1>7 DEF Kept

(* A cancelled try_acquire.                                                *)
LEMMA CancelAcquireKept ==
    ASSUME AsyncInv, NEW a \in Attempts, NEW t \in UsersOf[a], CancelAcquire(a, t)
    PROVE  Kept(a)
  <1>0. /\ Base /\ Typed /\ AsyncTypes /\ Seated(a) /\ Elector(a) /\ t \in Threads
        /\ UsersOf[a] \subseteq Threads /\ t # Worker /\ t # Cleanup
        /\ op[a][t].pc \in AcquirePoints /\ Goto(a, t, "idle") /\ Abandon(a, t)
        /\ attempt' = [attempt EXCEPT ![a] = "error"]
        /\ UNCHANGED <<serverVars, state, fence, scope, worker, stop, timerVars,
                       cleanup, cancel, run>>
        /\ attempt \in [Attempts -> {"new", "running", "none", "error", "handle", "crashed"}]
        /\ "idle" \in Places
    BY TaskNames DEF AsyncInv, Base, Typed, Fits, CancelAcquire, AcquirePoints,
                     Places, Points
  <1>1. /\ state[a] = "NONE" /\ attempt[a] = "running"
        /\ \A u \in Threads \ {t} : op[a][u].pc = "idle"
    BY <1>0 DEF Base, ControlInv, GrantInv, At, AcquirePoints
  <1>2. worker[a] = "none" /\ cleanup[a] = "none" /\ scope[a] = Nobody
    BY <1>0, <1>1 DEF Seated
  <1>3. Moves(a, t, "idle") /\ op' \in [Attempts -> [Threads -> Spots]]
    <2>1. op' \in [Attempts -> [Threads -> Ops(Places)]]
      BY <1>0, GotoType DEF Typed
    <2> QED BY <1>0, <2>1, GotoMoves DEF Ops, Spots
  <1>4. /\ attempt' \in [Attempts -> {"new", "running", "none", "error", "handle", "crashed"}]
        /\ attempt'[a] = "error" /\ \A b \in Attempts \ {a} : attempt'[b] = attempt[b]
    BY <1>0
  <1>5. Loses(a, {t}) /\ wire' \subseteq Requests
    BY <1>0, AbandonLoses
  <1>6. \A u \in Threads : op'[a][u].pc = "idle"
    BY <1>1, <1>3 DEF Moves
  <1>7. Frame
    <2> DEFINE T == {t}
    <2>1. \A b \in Attempts, u \in Threads :
            \/ op'[b][u] = op[b][u]
            \/ b = a /\ u \in T /\ op'[b][u].pc = "idle" /\ op'[b][u].reply.status = "NONE"
      BY <1>3 DEF Moves, NoReply, Reply
    <2>2. T \in SUBSET Threads /\ Loses(a, T)
      BY <1>0, <1>5
    <2> HIDE DEF T
    <2>3. Drops(a, T)
      BY <1>0, <1>1, <1>2, <1>4, <1>6, <2>1, <2>2 DEF Drops, Loses
    <2> QED BY <2>2, <2>3 DEF Frame
  <1>8. Typed' /\ AsyncTypes'
    <2>1. /\ scope' \in [Attempts -> UserThreads \cup {Nobody}] /\ stop' \in [Attempts -> BOOLEAN]
          /\ state' \in [Attempts -> {"NONE", "ACQUIRED", "ENTERED"} \cup Terminal]
      BY <1>0 DEF Typed, Fits
    <2>2. AsyncTypes'
      BY <1>0 DEF AsyncTypes
    <2> QED BY <1>0, <1>3, <1>4, <1>5, <2>1, <2>2, TypedKeep DEF AsyncTypes
  <1>9. ASSUME NEW b \in Attempts \ {a}
        PROVE  Same(b)
    BY <1>0, <1>3, <1>4 DEF Same, Moves
  <1>10. op'[a][t].pc = "idle" /\ \A u \in Threads \ {t} : op'[a][u].pc = op[a][u].pc
    BY <1>0, <1>1, <1>6
  <1>11. Seated(a)'
    <2>1. ~At(a, t, "waitCleanup") /\ attempt[a] # "handle"
      BY <1>0, <1>1 DEF AcquirePoints, At
    <2>2. /\ cleanup'[a] = cleanup[a] /\ worker'[a] = worker[a] /\ scope'[a] = scope[a]
          /\ "idle" \notin {"relCheck"} \cup ReleasePoints
      BY <1>0 DEF ReleasePoints
    <2> QED BY <1>0, <1>10, <2>1, <2>2, SeatedMove
  <1>12. Elector(a)'
    <2> SUFFICES ASSUME run[a] # "none"
                 PROVE  Single(a)'
      BY <1>0 DEF Elector
    <2>1. run[a] \notin LeaseResults
      BY <1>0, <1>2 DEF Elector, Single
    <2> QED BY <1>0, <1>1, <1>2, <1>6, <1>10, <2>1, SingleMove DEF AcquirePoints
  <1> QED BY <1>7, <1>8, <1>9, <1>11, <1>12 DEF Kept

(* The end of the action, and a cancellation that is noted.                *)
LEMMA NoteKept ==
    ASSUME AsyncInv, NEW a \in Attempts, NEW t \in UsersOf[a],
           \/ \E o \in {"value", "error", "cancelled"} : RunAction(a, t, o)
           \/ KeepCancel(a, t) \/ CancelWait(a, t)
    PROVE  Kept(a)
  <1>0. /\ Base /\ Typed /\ AsyncTypes /\ Seated(a) /\ Elector(a) /\ t \in Tasks
        /\ UNCHANGED <<vars, cleanup>> /\ run \in [Attempts -> Runs]
        /\ UsersOf[a] \subseteq Threads /\ Worker \in Threads /\ Cleanup \in Threads
    BY TaskNames DEF AsyncInv, Base, RunAction, KeepCancel, CancelWait, AsyncTypes
  <1>1. UNCHANGED <<lease, counter, history, grant, wire, attempt, state, fence, scope,
                    worker, stop, minLeft, waitLeft, op, cleanup>>
    BY <1>0 DEF vars, serverVars, handleVars, timerVars
  <1>2. Typed' /\ Frame
    BY <1>0, <1>1 DEF Typed, Fits, Frame, Rests, serverVars
  <1>3. /\ run' \in [Attempts -> Runs]
        /\ run'[a] = run[a] \/ (run[a] = "elector" /\ run'[a] \in {"value", "error", "cancelled"})
        /\ \A b \in Attempts \ {a} : run'[b] = run[b]
    <2>1. CASE run' = run
      BY <1>0, <2>1
    <2>2. ASSUME NEW o \in {"value", "error", "cancelled"}, RunAction(a, t, o)
          PROVE  /\ run' = [run EXCEPT ![a] = o] /\ run[a] = "elector" /\ o \in Runs
                 /\ run'[a] = o /\ run' \in [Attempts -> Runs]
                 /\ \A b \in Attempts \ {a} : run'[b] = run[b]
      BY <1>0, <2>2 DEF RunAction, Runs
    <2> QED BY <2>1, <2>2 DEF KeepCancel, CancelWait
  <1>4. cancel' \in [Attempts -> [Tasks -> Cancels]]
    <2>1. \/ cancel' = cancel
          \/ \E c \in Cancels : cancel' = [cancel EXCEPT ![a][t] = c]
      BY DEF RunAction, KeepCancel, CancelWait, Cancels
    <2>2. cancel \in [Attempts -> [Tasks -> Cancels]]
      BY <1>0 DEF AsyncTypes
    <2>3. ASSUME NEW c \in Cancels, cancel' = [cancel EXCEPT ![a][t] = c]
          PROVE  cancel' \in [Attempts -> [Tasks -> Cancels]]
      <3>1. t \in Tasks
        BY <1>0
      <3> QED BY <2>2, <2>3, <3>1
    <2> QED BY <2>1, <2>2, <2>3
  <1>5. AsyncTypes'
    BY <1>0, <1>1, <1>3, <1>4 DEF AsyncTypes
  <1>6. Seated(a)'
    BY <1>0, <1>1 DEF Seated, At
  <1>7. Elector(a)'
    <2>1. run[a] # "none" => Single(a)'
      BY <1>0, <1>1, <1>3 DEF Elector, Single, At, LeaseResults
    <2> QED BY <1>3, <2>1 DEF Elector
  <1>8. \A b \in Attempts \ {a} : Same(b)
    BY <1>1, <1>3 DEF Same
  <1> QED BY <1>2, <1>5, <1>6, <1>7, <1>8 DEF Kept

(* A step of the renewal task.                                             *)
LEMMA RenewTaskKept ==
    ASSUME AsyncInv, NEW a \in Attempts, worker[a] \in {"running", "woken", "stopping"},
           Frame, wire' \subseteq Requests,
           NEW w \in {"running", "woken", "stopping", "exited", "cancelled"},
           worker' = [worker EXCEPT ![a] = w],
           NEW pc \in {"idle", "renew"}, (op' = op /\ At(a, Worker, pc)) \/ Goto(a, Worker, pc),
           pc = "renew" => w \notin {"exited", "cancelled"},
           NEW s \in {state[a]} \cup Terminal, state' = [state EXCEPT ![a] = s],
           state[a] = "UNKNOWN" => s = "UNKNOWN",
           stop' \in [Attempts -> BOOLEAN],
           UNCHANGED <<serverVars, attempt, fence, scope, timerVars, cleanup, cancel, run>>
    PROVE  Kept(a)
  <1>0. /\ Base /\ Typed /\ AsyncTypes /\ Seated(a) /\ Elector(a)
        /\ UsersOf[a] \subseteq Threads /\ Worker \notin UsersOf[a]
        /\ Worker \in Threads /\ Cleanup \in Threads /\ Cleanup # Worker
        /\ op \in [Attempts -> [Threads -> Spots]]
        /\ state \in [Attempts -> {"NONE", "ACQUIRED", "ENTERED"} \cup Terminal]
        /\ worker \in [Attempts -> {"none", "running", "woken", "stopping", "exited", "cancelled"}]
        /\ pc \in Places
    BY TaskNames DEF AsyncInv, Base, Typed, Fits, AsyncTypes, Spots, Places, Points, IoPoints
  <1>1. attempt[a] = "handle"
    BY <1>0 DEF Seated
  <1>2. /\ op' \in [Attempts -> [Threads -> Spots]] /\ op'[a][Worker].pc = pc
        /\ \A b \in Attempts, u \in Threads :
              b # a \/ u # Worker => op'[b][u].pc = op[b][u].pc
    <2>1. CASE op' = op /\ At(a, Worker, pc)
      BY <1>0, <2>1 DEF At
    <2>2. CASE Goto(a, Worker, pc)
      <3>1. op' \in [Attempts -> [Threads -> Ops(Places)]]
        BY <1>0, <2>2, GotoType DEF Typed
      <3>2. Moves(a, Worker, pc)
        BY <1>0, <2>2, GotoMoves
      <3> QED BY <3>1, <3>2 DEF Moves, Ops, Spots
    <2> QED BY <2>1, <2>2
  <1>3. /\ state' \in [Attempts -> {"NONE", "ACQUIRED", "ENTERED"} \cup Terminal]
        /\ state'[a] = s /\ \A b \in Attempts \ {a} : state'[b] = state[b]
    BY <1>0
  <1>4. /\ worker' \in [Attempts -> {"none", "running", "woken", "stopping", "exited", "cancelled"}]
        /\ worker'[a] = w /\ \A b \in Attempts \ {a} : worker'[b] = worker[b]
    BY <1>0
  <1>5. Typed' /\ AsyncTypes'
    <2>1. /\ scope' \in [Attempts -> UserThreads \cup {Nobody}]
          /\ attempt' \in [Attempts -> {"new", "running", "none", "error", "handle", "crashed"}]
      BY <1>0 DEF Typed, Fits
    <2> QED BY <1>0, <1>2, <1>3, <1>4, <2>1, TypedKeep DEF AsyncTypes
  <1>6. ASSUME NEW b \in Attempts \ {a}
        PROVE  Same(b)
    BY <1>2, <1>3, <1>4 DEF Same
  <1>7. /\ \A u \in Threads \ {Worker} : op'[a][u].pc = op[a][u].pc
        /\ \A u \in UsersOf[a] : op'[a][u].pc = op[a][u].pc
        /\ op'[a][Cleanup].pc = op[a][Cleanup].pc
    BY <1>0, <1>2
  <1>8. Seated(a)'
    <2>1. \A u \in Threads : op'[a][u].pc # "idle" => u \in UsersOf[a] \cup {Worker, Cleanup}
      BY <1>0, <1>7 DEF Seated, At
    <2>2. /\ cleanup[a] = "running" => \E u \in UsersOf[a] : op'[a][u].pc = "waitCleanup"
          /\ cleanup[a] = "stopping" =>
                state'[a] = "UNKNOWN" \/ \E u \in UsersOf[a] : op'[a][u].pc = "waitCleanup"
      BY <1>0, <1>3, <1>7 DEF Seated, At
    <2> QED BY <1>0, <1>1, <1>2, <1>4, <1>7, <2>1, <2>2 DEF Seated, At
  <1>9. Elector(a)'
    <2> SUFFICES ASSUME run[a] # "none"
                 PROVE  Single(a)'
      BY DEF Elector
    <2>1. /\ Single(a) /\ cleanup[a] = "none" /\ state[a] \notin {"NONE", "ACQUIRED"}
      BY <1>0 DEF Elector, Single
    <2>2. s \notin {"NONE", "ACQUIRED"} /\ \A u \in UsersOf[a] : op[a][u].pc # "enterProof"
      BY <2>1 DEF Single, At, Terminal
    <2> QED BY <1>3, <1>4, <1>7, <2>1, <2>2 DEF Single, At
  <1> QED BY <1>5, <1>6, <1>8, <1>9 DEF Kept

(* Every step of the renewal task is of that kind.                         *)
LEMMA RenewStepKept ==
    ASSUME AsyncInv, NEW a \in Attempts, RenewTaskStep(a)
    PROVE  Kept(a)
  <1>0. /\ Base /\ Typed /\ AsyncTypes /\ Seated(a) /\ Worker \in Threads
        /\ UNCHANGED <<serverVars, attempt, fence, scope, timerVars, cleanup, cancel, run>>
        /\ state \in [Attempts -> {"NONE", "ACQUIRED", "ENTERED"} \cup Terminal]
        /\ worker \in [Attempts -> {"none", "running", "woken", "stopping", "exited", "cancelled"}]
        /\ stop \in [Attempts -> BOOLEAN] /\ wire \subseteq Requests
    BY TaskNames DEF AsyncInv, Base, Typed, Fits, AsyncTypes, RenewTaskStep, TimerFires,
                     RenewLoopStops, RenewLoopRenews, RenewLoopReply, RenewLoopTimeout,
                     RenewTaskStopped
  <1>1. worker[a] \in {"running", "woken", "stopping"} /\ attempt[a] = "handle"
    BY <1>0 DEF RenewTaskStep, TimerFires, RenewLoopStops, RenewLoopRenews, RenewLoopReply,
                RenewLoopTimeout, RenewTaskStopped, Seated
  <1>2. ASSUME UNCHANGED <<wire, op, state>>, At(a, Worker, "idle"),
               stop' \in [Attempts -> BOOLEAN],
               NEW w \in {"woken", "exited"}, worker' = [worker EXCEPT ![a] = w]
        PROVE  Kept(a)
    <2>1. \A b \in Attempts : worker'[b] # "none" => worker[b] # "none"
      BY <1>0, <1>1, <1>2
    <2>2. Frame
      BY <1>0, <1>2, <2>1 DEF Frame, Rests
    <2>3. state' = [state EXCEPT ![a] = state[a]] /\ wire' \subseteq Requests
      BY <1>0, <1>2
    <2> QED BY <1>0, <1>1, <1>2, <2>2, <2>3, RenewTaskKept
  <1>3. CASE TimerFires(a)
    BY <1>0, <1>2, <1>3 DEF TimerFires
  <1>4. CASE RenewLoopStops(a)
    BY <1>0, <1>2, <1>4 DEF RenewLoopStops
  <1>5. CASE RenewLoopRenews(a)
    <2>1. CASE Leaves(a) /\ UNCHANGED <<wire, op>>
      <3>1. stop' \in [Attempts -> BOOLEAN]
        BY <1>0, <2>1 DEF Leaves
      <3> QED BY <1>0, <1>2, <1>5, <2>1, <3>1 DEF RenewLoopRenews, Leaves
    <2>2. CASE Call(a, Worker, "renew", "renew", fence[a], LeaseTime) /\ UNCHANGED <<worker, stop>>
      <3>1. /\ state' = [state EXCEPT ![a] = state[a]]
            /\ worker' = [worker EXCEPT ![a] = worker[a]]
            /\ MayTurn(a, state[a]) /\ Quiet(a, Worker) /\ fence[a] \in Nat
            /\ LeaseTime \in Nat /\ "renew" \in Places /\ "renew" \in Kinds
        BY <1>0, <1>1, <1>5, <2>2, HandleFacts, TimeAssumption
           DEF RenewLoopRenews, At, IoPoints, Places, Points, Kinds
      <3>2. Local(a, Worker)
        BY <1>0, <1>1, <2>2, <3>1, HandleCalls DEF Expects, AcquirePoints
      <3>3. Frame /\ Goto(a, Worker, "renew")
        BY <1>0, <2>2, <3>2 DEF Frame, Call, Goto
      <3>4. wire' \subseteq Requests
        BY <1>0, <2>2, <3>1, CallType DEF Typed
      <3> QED BY <1>0, <1>1, <2>2, <3>1, <3>3, <3>4, RenewTaskKept
    <2> QED BY <1>5, <2>1, <2>2 DEF RenewLoopRenews
  <1>6. CASE RenewLoopReply(a)
    <2> DEFINE s == AfterProof(state[a], Status(a, Worker))
    <2>1. /\ state' = [state EXCEPT ![a] = s] /\ MayTurn(a, s) /\ Quiet(a, Worker)
          /\ s \in {state[a]} \cup Terminal /\ (state[a] = "UNKNOWN" => s = "UNKNOWN")
          /\ "idle" \in Places /\ Goto(a, Worker, "idle") /\ wire' = wire
      BY <1>0, <1>1, <1>6, HandleFacts
         DEF RenewLoopReply, Replied, AfterProof, Terminal, Places, Points
    <2> HIDE DEF s
    <2>2. PICK w \in {"running", "exited"} : worker' = [worker EXCEPT ![a] = w]
      BY <1>6 DEF RenewLoopReply, Leaves
    <2>3. stop' \in [Attempts -> BOOLEAN]
      BY <1>0, <1>6 DEF RenewLoopReply, Leaves
    <2>4. Local(a, Worker)
      BY <1>0, <1>1, <2>1, <2>2, HandleMoves DEF AcquirePoints
    <2>5. Frame /\ wire' \subseteq Requests
      BY <1>0, <2>1, <2>4 DEF Frame
    <2> QED BY <1>0, <1>1, <2>1, <2>2, <2>3, <2>5, RenewTaskKept
  <1>7. ASSUME Abandon(a, Worker), Goto(a, Worker, "idle"),
               NEW s \in {state[a], "UNKNOWN"}, state' = [state EXCEPT ![a] = s],
               NEW w \in {"exited", "cancelled"}, worker' = [worker EXCEPT ![a] = w],
               stop' \in [Attempts -> BOOLEAN]
        PROVE  Kept(a)
    <2> DEFINE T == {Worker}
    <2>1. "idle" \in Places
      BY DEF Places, Points
    <2>2. Moves(a, Worker, "idle")
      BY <1>0, <1>7, <2>1, GotoMoves
    <2>3. T \in SUBSET Threads /\ Loses(a, T) /\ wire' \subseteq Requests
      BY <1>0, <1>7, AbandonLoses
    <2>4. \A b \in Attempts, u \in Threads :
            \/ op'[b][u] = op[b][u]
            \/ /\ b = a /\ u \in T
               /\ op'[b][u].pc \in Waits \cup {"relCheck", "idle"}
               /\ op'[b][u].reply = NoReply
      BY <2>2 DEF Moves
    <2> HIDE DEF T
    <2>5. \A b \in Attempts \ {a} : worker'[b] = worker[b]
      BY <1>0, <1>7
    <2>6. UNCHANGED <<serverVars, fence, attempt>> /\ Base
          /\ (state' = state \/ state' = [state EXCEPT ![a] = "UNKNOWN"])
      BY <1>0, <1>7
    <2>7. Frame
      BY <1>1, <2>3, <2>4, <2>5, <2>6, TaskDrops, Zenon
    <2>8. s \in {state[a]} \cup Terminal
      BY DEF Terminal
    <2> QED BY <1>0, <1>1, <1>7, <2>3, <2>7, <2>8, RenewTaskKept
  <1>8. CASE RenewLoopTimeout(a)
    <2>1. stop' \in [Attempts -> BOOLEAN]
      BY <1>0, <1>8 DEF RenewLoopTimeout, Leaves
    <2> QED BY <1>7, <1>8, <2>1 DEF RenewLoopTimeout, Leaves
  <1>9. CASE RenewTaskStopped(a)
    <2>1. stop' \in [Attempts -> BOOLEAN] /\ state' = [state EXCEPT ![a] = state[a]]
      BY <1>0, <1>9 DEF RenewTaskStopped
    <2> QED BY <1>7, <1>9, <2>1 DEF RenewTaskStopped
  <1> QED BY <1>3, <1>4, <1>5, <1>6, <1>8, <1>9 DEF RenewTaskStep

(* The renewal task is told to stop.                                       *)
LEMMA StopExpiresKept ==
    ASSUME AsyncInv, NEW a \in Attempts, NEW t \in UsersOf[a], RenewStopExpires(a, t)
    PROVE  Kept(a)
  <1>0. /\ Base /\ Typed /\ AsyncTypes /\ Seated(a) /\ worker[a] \in {"running", "woken"}
        /\ worker' = [worker EXCEPT ![a] = "stopping"]
        /\ UNCHANGED <<serverVars, wire, attempt, state, fence, scope, stop, timerVars, op,
                       cleanup, cancel, run>>
        /\ state \in [Attempts -> {"NONE", "ACQUIRED", "ENTERED"} \cup Terminal]
        /\ worker \in [Attempts -> {"none", "running", "woken", "stopping", "exited", "cancelled"}]
        /\ stop \in [Attempts -> BOOLEAN] /\ wire \subseteq Requests
    BY DEF AsyncInv, Base, Typed, Fits, AsyncTypes, RenewStopExpires
  <1>1. PICK pc \in {"idle", "renew"} : At(a, Worker, pc)
    BY <1>0 DEF Seated, At
  <1>2. \A b \in Attempts : worker'[b] # "none" => worker[b] # "none"
    BY <1>0
  <1>3. Frame
    BY <1>0, <1>2 DEF Frame, Rests
  <1>4. state' = [state EXCEPT ![a] = state[a]]
    BY <1>0
  <1> QED BY <1>0, <1>1, <1>3, <1>4, RenewTaskKept

(* A step of the cleanup task.                                             *)
LEMMA CleanupTaskKept ==
    ASSUME AsyncInv, NEW a \in Attempts, cleanup[a] \in {"running", "stopping"},
           Frame, wire' \subseteq Requests,
           NEW pc \in {"idle"} \cup ReleasePoints, Goto(a, Cleanup, pc),
           NEW k \in {"running", "ok", "raised", "cancelled"},
           cleanup' = [cleanup EXCEPT ![a] = k],
           k = "running" <=> pc # "idle", k = "running" => cleanup[a] = "running",
           NEW s \in {state[a]} \cup Terminal, state' = [state EXCEPT ![a] = s],
           k = "ok" => s = "RELEASED",
           UNCHANGED <<serverVars, attempt, fence, scope, worker, stop, timerVars, cancel, run>>
    PROVE  Kept(a)
  <1>0. /\ Base /\ Typed /\ AsyncTypes /\ Seated(a) /\ Elector(a)
        /\ UsersOf[a] \subseteq Threads /\ Cleanup \notin UsersOf[a]
        /\ Worker \in Threads /\ Cleanup \in Threads /\ Cleanup # Worker
        /\ op \in [Attempts -> [Threads -> Spots]]
        /\ state \in [Attempts -> {"NONE", "ACQUIRED", "ENTERED"} \cup Terminal]
        /\ cleanup \in [Attempts -> Cleanups]
        /\ pc \in Places
    BY TaskNames DEF AsyncInv, Base, Typed, Fits, AsyncTypes, Spots, Places, Points,
                     IoPoints, ReleasePoints
  <1>1. attempt[a] = "handle"
    BY <1>0 DEF Seated
  <1>2. Moves(a, Cleanup, pc) /\ op' \in [Attempts -> [Threads -> Spots]]
    <2>1. op' \in [Attempts -> [Threads -> Ops(Places)]]
      BY <1>0, GotoType DEF Typed
    <2> QED BY <1>0, <2>1, GotoMoves DEF Ops, Spots
  <1>3. /\ state' \in [Attempts -> {"NONE", "ACQUIRED", "ENTERED"} \cup Terminal]
        /\ state'[a] = s /\ \A b \in Attempts \ {a} : state'[b] = state[b]
    BY <1>0
  <1>4. /\ cleanup' \in [Attempts -> Cleanups]
        /\ cleanup'[a] = k /\ \A b \in Attempts \ {a} : cleanup'[b] = cleanup[b]
    BY <1>0 DEF Cleanups
  <1>5. Typed' /\ AsyncTypes'
    <2>1. /\ scope' \in [Attempts -> UserThreads \cup {Nobody}] /\ stop' \in [Attempts -> BOOLEAN]
          /\ attempt' \in [Attempts -> {"new", "running", "none", "error", "handle", "crashed"}]
      BY <1>0 DEF Typed, Fits
    <2> QED BY <1>0, <1>2, <1>3, <1>4, <2>1, TypedKeep DEF AsyncTypes
  <1>6. ASSUME NEW b \in Attempts \ {a}
        PROVE  Same(b)
    BY <1>2, <1>3, <1>4 DEF Same, Moves
  <1>7. /\ op'[a][Cleanup].pc = pc /\ op'[a][Worker].pc = op[a][Worker].pc
        /\ \A u \in Threads \ {Cleanup} : op'[a][u].pc = op[a][u].pc
        /\ \A u \in UsersOf[a] : op'[a][u].pc = op[a][u].pc
    <2>1. /\ op'[a][Cleanup].pc = pc
          /\ \A u \in Threads \ {Cleanup} : op'[a][u].pc = op[a][u].pc
      BY <1>2 DEF Moves
    <2>2. Worker \in Threads \ {Cleanup} /\ UsersOf[a] \subseteq Threads \ {Cleanup}
      BY <1>0
    <2> QED BY <2>1, <2>2
  <1>8. Seated(a)'
    <2>1. \A u \in Threads : op'[a][u].pc # "idle" => u \in UsersOf[a] \cup {Worker, Cleanup}
      BY <1>0, <1>7 DEF Seated, At
    <2>2. k = "running" => \E u \in UsersOf[a] : op'[a][u].pc = "waitCleanup"
      BY <1>0, <1>7 DEF Seated, At
    <2> QED BY <1>0, <1>1, <1>4, <1>7, <2>1, <2>2 DEF Seated, At
  <1>9. Elector(a)'
    <2> SUFFICES ASSUME run[a] # "none"
                 PROVE  Single(a)'
      BY DEF Elector
    <2>1. /\ Single(a) /\ state[a] \notin {"NONE", "ACQUIRED"} /\ run[a] \notin LeaseResults
          /\ scope[a] = Nobody
      BY <1>0 DEF Elector, Single
    <2>2. s \notin {"NONE", "ACQUIRED"} /\ k # "none"
      BY <2>1 DEF Terminal
    <2> QED BY <1>3, <1>4, <1>7, <2>1, <2>2 DEF Single, At
  <1> QED BY <1>5, <1>6, <1>8, <1>9 DEF Kept

(* Every step of the cleanup task is of that kind.                         *)
LEMMA CleanupStepKept ==
    ASSUME AsyncInv, NEW a \in Attempts, CleanupStep(a)
    PROVE  Kept(a)
  <1>0. /\ Base /\ Typed /\ AsyncTypes /\ Seated(a) /\ Cleanup \in Threads
        /\ UNCHANGED <<serverVars, attempt, fence, scope, worker, stop, timerVars, cancel, run>>
        /\ state \in [Attempts -> {"NONE", "ACQUIRED", "ENTERED"} \cup Terminal]
        /\ cleanup \in [Attempts -> Cleanups] /\ wire \subseteq Requests
    BY TaskNames DEF AsyncInv, Base, Typed, Fits, AsyncTypes, CleanupStep,
                     AsyncReleaseCheck, AsyncReleaseReply, AsyncReconcileRelease,
                     CleanupStopped, handleVars
  <1>c. CASE CleanupStopped(a)
    <2> DEFINE T == {Cleanup}
    <2>1. /\ cleanup[a] = "stopping" /\ cleanup' = [cleanup EXCEPT ![a] = "cancelled"]
          /\ Goto(a, Cleanup, "idle") /\ Abandon(a, Cleanup) /\ UNCHANGED state
          /\ attempt[a] = "handle" /\ "idle" \in Places
      BY <1>0, <1>c DEF CleanupStopped, handleVars, Seated, Places, Points
    <2>2. Moves(a, Cleanup, "idle")
      BY <1>0, <2>1, GotoMoves
    <2>3. T \in SUBSET Threads /\ Loses(a, T) /\ wire' \subseteq Requests
      BY <1>0, <2>1, AbandonLoses
    <2>4. \A b \in Attempts, u \in Threads :
            \/ op'[b][u] = op[b][u]
            \/ /\ b = a /\ u \in T
               /\ op'[b][u].pc \in Waits \cup {"relCheck", "idle"}
               /\ op'[b][u].reply = NoReply
      BY <2>2 DEF Moves
    <2> HIDE DEF T
    <2>5. UNCHANGED <<serverVars, fence, attempt>> /\ Base /\ state' = state
          /\ \A b \in Attempts \ {a} : worker'[b] = worker[b]
      BY <1>0, <2>1
    <2>6. Frame
      BY <2>1, <2>3, <2>4, <2>5, TaskDrops, Zenon
    <2>7. state' = [state EXCEPT ![a] = state[a]]
      BY <1>0, <2>1
    <2> QED BY <1>0, <2>1, <2>3, <2>6, <2>7, CleanupTaskKept
  <1> SUFFICES ASSUME ~CleanupStopped(a)
               PROVE  Kept(a)
    BY <1>c
  <1>1. /\ op[a][Cleanup].pc \in {"relCheck"} \cup ReleasePoints
        /\ op[a][Cleanup].pc # "relCheck" => Status(a, Cleanup) # "NONE"
    BY DEF CleanupStep, AsyncReleaseCheck, AsyncReleaseReply, AsyncReconcileRelease,
           Replied, At, ReleasePoints
  <1>2. cleanup[a] = "running" /\ attempt[a] = "handle"
    BY <1>0 DEF CleanupStep, AsyncReleaseCheck, AsyncReleaseReply, AsyncReconcileRelease,
                Seated
  <1>3. /\ Quiet(a, Cleanup) /\ MayTurn(a, state[a])
        /\ fence[a] \in Nat /\ minLeft[a] \in Nat
        /\ state = [state EXCEPT ![a] = state[a]]
        /\ worker' = [worker EXCEPT ![a] = worker[a]]
        /\ "idle" \in Places /\ ReleasePoints \subseteq Places
    <2>1. Status(a, Cleanup) # "NONE" \/ op[a][Cleanup].pc \notin IoPoints
      BY <1>1 DEF IoPoints
    <2>2. "idle" \in Places /\ ReleasePoints \subseteq Places
      BY DEF IoPoints, Places, Points, ReleasePoints
    <2> QED BY <1>0, <1>2, <2>1, <2>2, HandleFacts
  <1>4. cleanup = [cleanup EXCEPT ![a] = "running"]
    BY <1>0, <1>2
  <1>5. ASSUME NEW pc \in ReleasePoints, NEW kind \in Kinds, NEW token \in Nat,
               NEW ttl \in Nat, Call(a, Cleanup, pc, kind, token, ttl),
               kind # "acquire", Expects(pc, kind),
               kind = "reconcile" \/ token = fence[a], UNCHANGED <<state, cleanup>>
        PROVE  Kept(a)
    <2>1. Local(a, Cleanup)
      <3>1. pc \notin AcquirePoints /\ pc \in Places
        BY <1>3, <1>5 DEF AcquirePoints, ReleasePoints
      <3> QED BY <1>0, <1>2, <1>3, <1>5, <3>1, HandleCalls
    <2>2. Frame /\ Goto(a, Cleanup, pc)
      BY <1>0, <1>5, <2>1 DEF Frame, Call, Goto
    <2>3. wire' \subseteq Requests
      BY <1>0, <1>3, <1>5, CallType DEF Typed
    <2>4. pc \in {"idle"} \cup ReleasePoints /\ pc # "idle"
      BY DEF ReleasePoints
    <2> QED BY <1>0, <1>2, <1>3, <1>4, <1>5, <2>2, <2>3, <2>4, CleanupTaskKept
  <1>6. ASSUME NEW s \in {state[a]} \cup Terminal, MayTurn(a, s),
               state' = [state EXCEPT ![a] = s],
               NEW k \in {"ok", "raised"}, CleanupEnds(a, k), k = "ok" => s = "RELEASED"
        PROVE  Kept(a)
    <2>1. /\ Goto(a, Cleanup, "idle") /\ wire' = wire
          /\ cleanup' = [cleanup EXCEPT ![a] = k]
      BY <1>6 DEF CleanupEnds
    <2>2. Local(a, Cleanup)
      BY <1>0, <1>2, <1>3, <1>6, <2>1, HandleMoves DEF AcquirePoints
    <2>3. Frame /\ wire' \subseteq Requests
      BY <1>0, <2>1, <2>2 DEF Frame
    <2> QED BY <1>0, <1>2, <1>6, <2>1, <2>3, CleanupTaskKept
  <1>7. CASE AsyncReleaseCheck(a)
    <2>1. state' = state
      BY <1>7 DEF AsyncReleaseCheck, handleVars
    <2>2. CASE CleanupEnds(a, "raised")
      BY <1>3, <1>6, <2>1, <2>2
    <2>3. CASE SendRelease(a, Cleanup, "release") /\ UNCHANGED cleanup
      BY <1>3, <1>5, <2>1, <2>3 DEF SendRelease, ReleasePoints, Kinds, Expects
    <2> QED BY <1>7, <2>2, <2>3 DEF AsyncReleaseCheck
  <1>8. CASE AsyncReleaseReply(a)
    <2>1. CASE Call(a, Cleanup, "reconcileRelease", "reconcile", 0, 0) /\ UNCHANGED <<state, cleanup>>
      BY <1>5, <2>1 DEF ReleasePoints, Kinds, Expects
    <2>2. CASE /\ state' = [state EXCEPT ![a] = FinishRelease(Status(a, Cleanup))]
               /\ CleanupEnds(a, IF state'[a] = "RELEASED" THEN "ok" ELSE "raised")
      <3> DEFINE s == FinishRelease(Status(a, Cleanup))
      <3>1. s = "LOST" => ~Held(a)
        BY <1>0 DEF FinishRelease, Base, LossInv
      <3>2. s \in Terminal /\ MayTurn(a, s) /\ state' = [state EXCEPT ![a] = s] /\ state'[a] = s
        BY <1>0, <2>2, <3>1 DEF FinishRelease, MayTurn, Terminal
      <3> HIDE DEF s
      <3> QED BY <1>6, <2>2, <3>2
    <2> QED BY <1>8, <2>1, <2>2 DEF AsyncReleaseReply
  <1>9. CASE AsyncReconcileRelease(a)
    <2> DEFINE present == Status(a, Cleanup) = "PRESENT"
               own     == present /\ op[a][Cleanup].reply.owner = a
               s       == IF present THEN "LOST" ELSE "UNKNOWN"
    <2>1. CASE SendRelease(a, Cleanup, "repeatRelease") /\ UNCHANGED <<state, cleanup>>
      BY <1>3, <1>5, <2>1 DEF SendRelease, ReleasePoints, Kinds, Expects
    <2>2. CASE ~own /\ state' = [state EXCEPT ![a] = s] /\ CleanupEnds(a, "raised")
      <3>1. s = "LOST" => ~Held(a)
        BY <1>0, <1>9, <2>2 DEF AsyncReconcileRelease, Replied, Base, LossInv
      <3>2. s \in Terminal /\ MayTurn(a, s)
        BY <3>1 DEF MayTurn, Terminal
      <3> HIDE DEF s
      <3> QED BY <1>6, <2>2, <3>2
    <2> QED BY <1>9, <2>1, <2>2 DEF AsyncReconcileRelease
  <1> QED BY <1>7, <1>8, <1>9 DEF CleanupStep

(* The server, the network and the clock.                                  *)
LEMMA EnvironmentKept ==
    ASSUME AsyncInv, Environment
    PROVE  Typed' /\ AsyncTypes' /\ Frame /\ \A b \in Attempts : Same(b)
  <1>0. Base /\ Typed /\ AsyncTypes /\ UNCHANGED <<cleanup, cancel, run>>
    BY DEF AsyncInv, Base, Environment
  <1>1. [Next]_vars
    BY DEF Environment, Next
  <1>2. Typed'
    <2> DEFINE W == {"none", "starting", "running", "woken", "stopping", "exited", "cancelled"}
    <2>1. Fits(Places, W) /\ Points \subseteq Places
          /\ {"none", "starting", "running", "exited"} \subseteq W
      BY <1>0 DEF Typed, Places
    <2>2. Fits(Places, W)'
      BY <1>1, <2>1, TypeStep
    <2> QED BY <2>2 DEF Typed
  <1>3. Frame
    BY <1>0, <1>1, StepFrame
  <1>4. UNCHANGED handleVars
    BY DEF Environment, Serve, NetworkStep, TimeOut, Refuse, Tick
  <1>5. AsyncTypes'
    BY <1>0, <1>4 DEF AsyncTypes, handleVars
  <1>6. \A b \in Attempts, u \in Threads : op'[b][u].pc = op[b][u].pc
    <2>0. op \in [Attempts -> [Threads -> Spots]] /\ wire \subseteq Requests
      BY <1>0 DEF Typed, Fits, Spots
    <2>1. ASSUME NEW r \in wire, NEW reply, Answer(r, reply)
          PROVE  \A b \in Attempts, u \in Threads : op'[b][u].pc = op[b][u].pc
      BY <2>0, <2>1 DEF Answer
    <2>2. ASSUME NEW r \in wire, Serve(r)
          PROVE  \E reply : Answer(r, reply)
      BY <2>2 DEF Serve, ServeGrant, ServeNoGrant, ServeRenew, ServeProbe,
                  ServeReconcile, ServeRelease
    <2>3. ASSUME NEW a \in Attempts, NEW t \in Threads, NetworkStep(a, t)
          PROVE  \A b \in Attempts, u \in Threads : op'[b][u].pc = op[b][u].pc
      BY <2>0, <2>3 DEF NetworkStep, TimeOut, Refuse
    <2> QED BY <2>1, <2>2, <2>3 DEF Environment, Tick
  <1>7. ASSUME NEW b \in Attempts
        PROVE  Same(b)
    BY <1>0, <1>4, <1>6 DEF Same, handleVars
  <1> QED BY <1>2, <1>3, <1>5, <1>7

(* Every step of the asyncio lock is one of the kinds that the two locks   *)
(* have in common, and keeps the tasks of every handle in order.           *)
LEMMA AsyncFrame ==
    ASSUME AsyncInv, [AsyncNext]_asyncVars
    PROVE  Typed' /\ AsyncTypes' /\ Frame /\ \A b \in Attempts : Seated(b)' /\ Elector(b)'
  <1>0. \A b \in Attempts : Seated(b) /\ Elector(b)
    BY DEF AsyncInv
  <1>1. ASSUME NEW a \in Attempts, Kept(a)
        PROVE  Typed' /\ AsyncTypes' /\ Frame /\ \A b \in Attempts : Seated(b)' /\ Elector(b)'
    <2>1. Typed' /\ AsyncTypes' /\ Frame /\ Seated(a)' /\ Elector(a)'
      BY <1>1 DEF Kept
    <2>2. ASSUME NEW b \in Attempts \ {a}
          PROVE  Seated(b)' /\ Elector(b)'
      <3>1. Same(b) /\ b \in Attempts
        BY <1>1 DEF Kept
      <3> QED BY <1>0, <3>1, SameKeeps
    <2> QED BY <2>1, <2>2
  <1>2. ASSUME Typed', AsyncTypes', Frame, \A b \in Attempts : Same(b)
        PROVE  Typed' /\ AsyncTypes' /\ Frame /\ \A b \in Attempts : Seated(b)' /\ Elector(b)'
    BY <1>0, <1>2, SameKeeps
  <1>3. CASE Environment
    BY <1>2, <1>3, EnvironmentKept
  <1>4. ASSUME NEW a \in Attempts, NEW t \in UsersOf[a], CallerStep(a, t)
        PROVE  Kept(a)
    BY <1>4, AcquireKept, ProofKept, EnterReplyKept, NoteKept, ReleaseKept, StopDoneKept,
       StopExpiresKept, OutlivesKept, CleanupDoneKept, CleanupExpiresKept DEF CallerStep
  <1>5. ASSUME NEW a \in Attempts, NEW t \in UsersOf[a], CancelStep(a, t)
        PROVE  Kept(a)
    BY <1>5, CancelAcquireKept, CancelProofKept, CancelEnterKept, NoteKept DEF CancelStep
  <1>6. CASE UNCHANGED asyncVars
    <2>1. UNCHANGED <<lease, counter, history, grant, wire, attempt, state, fence, scope,
                      worker, stop, minLeft, waitLeft, op, cleanup, cancel, run>>
      BY <1>6 DEF asyncVars, vars, serverVars, handleVars, timerVars
    <2>2. Typed' /\ AsyncTypes'
      BY <2>1 DEF AsyncInv, Base, Typed, Fits, AsyncTypes
    <2>3. Frame /\ \A b \in Attempts : Same(b)
      BY <2>1 DEF Frame, Rests, Same, serverVars
    <2> QED BY <1>2, <2>2, <2>3
  <1> QED BY <1>1, <1>3, <1>4, <1>5, <1>6, RenewStepKept, CleanupStepKept DEF AsyncNext

(* The invariant of the asyncio lock is inductive.                         *)
LEMMA AsyncStep == AsyncInv /\ [AsyncNext]_asyncVars => AsyncInv'
  <1> SUFFICES ASSUME AsyncInv, [AsyncNext]_asyncVars
               PROVE  AsyncInv'
    OBVIOUS
  <1>1. Base'
    BY AsyncFrame, BaseStep DEF AsyncInv
  <1> QED BY <1>1, AsyncFrame DEF AsyncInv

(* A lease that a former process left behind is as good as one of this     *)
(* specification.                                                          *)
LEMMA PredecessorBase ==
    ASSUME NEW a \in Attempts, Predecessor(a)
    PROVE  Base
  <1>r. NoReply \in Replies /\ NoReply.status = "NONE"
    BY ReplyType DEF NoReply, Statuses
  <1>1. Typed
    <2>1. op \in [Attempts -> [Threads -> [pc : Places, reply : Replies]]]
      BY <1>r DEF Predecessor, Places, Points
    <2>2. /\ minLeft \in [Attempts -> 0 .. MinLease]
          /\ waitLeft \in [Attempts -> 0 .. WaitTime]
      BY TimeAssumption DEF Predecessor
    <2>3. lease \in [owner : Attempts \cup {Nobody, Foreign}, fence : Nat, ttl : Nat]
      BY TimeAssumption DEF Predecessor
    <2>4. /\ attempt \in [Attempts -> {"new", "running", "none", "error", "handle", "crashed"}]
          /\ grant \in [Attempts -> Nat]
      BY DEF Predecessor
    <2> QED BY <2>1, <2>2, <2>3, <2>4 DEF Predecessor, Typed, Fits
  <1>2. \A b \in Attempts, t \in Threads :
           op[b][t].pc = "idle" /\ op[b][t].reply.status = "NONE"
    BY <1>r DEF Predecessor
  <1>3. /\ wire = {} /\ counter = 1 /\ history = TRUE
        /\ lease.owner = a /\ lease.fence = 1
        /\ \A b \in Attempts : /\ attempt[b] = IF b = a THEN "crashed" ELSE "new"
                               /\ grant[b] = IF b = a THEN 1 ELSE 0
                               /\ worker[b] = "none" /\ state[b] = "NONE"
    BY DEF Predecessor
  <1>4. WireInv /\ ControlInv
    BY <1>2, <1>3 DEF WireInv, ControlInv, At, Status, AcquirePoints
  <1>5. AcquireInv
    BY <1>2, <1>3 DEF AcquireInv, NoAcquire, At, Status
  <1>6. KeyInv
    BY <1>3 DEF KeyInv
  <1>7. GrantInv /\ LossInv
    BY <1>2, <1>3 DEF GrantInv, LossInv, At, Status
  <1> QED BY <1>1, <1>4, <1>5, <1>6, <1>7 DEF Base

(* It holds at the start.                                                  *)
LEMMA AsyncStart == AsyncInit => AsyncInv
  <1> SUFFICES ASSUME AsyncInit
               PROVE  AsyncInv
    OBVIOUS
  <1>1. Base
    BY IInvInit, IInvBase, PredecessorBase DEF AsyncInit
  <1>2. /\ worker = [a \in Attempts |-> "none"] /\ scope = [a \in Attempts |-> Nobody]
        /\ state = [a \in Attempts |-> "NONE"]
        /\ op = [a \in Attempts |-> [t \in Threads |-> [pc |-> "idle", reply |-> NoReply]]]
    BY DEF AsyncInit, Init, Predecessor
  <1>3. /\ cleanup = [a \in Attempts |-> "none"]
        /\ cancel = [a \in Attempts |-> [t \in Tasks |-> "none"]]
        /\ run \in [Attempts -> {"none", "elector"}]
    BY DEF AsyncInit
  <1>4. AsyncTypes
    BY <1>2, <1>3 DEF AsyncTypes, Cleanups, Cancels, Runs
  <1>5. ASSUME NEW a \in Attempts
        PROVE  Seated(a) /\ Elector(a)
    <2>1. /\ UsersOf[a] \subseteq Threads /\ Worker \in Threads /\ Cleanup \in Threads
      BY TaskNames
    <2>2. /\ \A t \in Threads : op[a][t].pc = "idle"
          /\ worker[a] = "none" /\ cleanup[a] = "none" /\ scope[a] = Nobody
          /\ state[a] = "NONE" /\ run[a] \in {"none", "elector"}
      BY <1>2, <1>3
    <2>3. Seated(a)
      BY <2>1, <2>2 DEF Seated, At, ReleasePoints
    <2>4. Single(a)
      BY <2>1, <2>2 DEF Single, At, LeaseResults
    <2> QED BY <2>3, <2>4 DEF Elector
  <1> QED BY <1>1, <1>4, <1>5 DEF AsyncInv

-----------------------------------------------------------------------------
(* What the tasks of the asyncio lock keep, however they are interleaved   *)
(* and wherever they are cancelled.                                        *)
THEOREM AsyncInvariance == AsyncSpec => []AsyncInv
  BY AsyncStart, AsyncStep, PTL DEF AsyncSpec

(* The variables of the asyncio lock keep their types.                     *)
THEOREM AsyncTypeCorrect == AsyncSpec => []AsyncTypeOK
  <1>1. AsyncInv => AsyncTypeOK
    <2> SUFFICES ASSUME AsyncInv
                 PROVE  AsyncTypeOK
      OBVIOUS
    <2>1. Base /\ Typed /\ AsyncTypes
      BY DEF AsyncInv, Base
    <2>2. \A a \in Attempts, t \in Threads : op[a][t].pc \in Points \cup Waits
      BY <2>1 DEF Typed, Fits, Places
    <2> QED BY <2>1, <2>2 DEF AsyncTypeOK, AsyncTypes, Typed, Fits, Cancels, Cleanups,
               Runs, CleanupEnded, RenewEnded
  <1> QED BY <1>1, AsyncInvariance, PTL

(* The cleanup task is not left to itself: the call that created it, or    *)
(* one that joined it, waits for it, although it was cancelled.  A task    *)
(* that was told to stop may outlive the calls, and the handle is UNKNOWN. *)
THEOREM CleanupAttended == AsyncSpec => []CleanupNotDetached
  <1>1. AsyncInv => CleanupNotDetached
    BY DEF AsyncInv, Seated, CleanupNotDetached
  <1> QED BY <1>1, AsyncInvariance, PTL

(* run_if_leader_result returns a result only after the server confirmed   *)
(* the release of the lease the action ran under.                          *)
THEOREM ResultsCorrect == AsyncSpec => []ResultMeansReleased
  <1>1. AsyncInv => ResultMeansReleased
    <2> SUFFICES ASSUME AsyncInv, NEW a \in Attempts, run[a] \in LeaseResults
                 PROVE  state[a] = "RELEASED"
      BY DEF ResultMeansReleased
    <2>1. Single(a)
      BY DEF AsyncInv, Elector, LeaseResults
    <2> QED BY <2>1 DEF Single
  <1> QED BY <1>1, AsyncInvariance, PTL

(* The release of an elector's lease is sent when its renewal task has     *)
(* ended, whichever way the body and the wait for that task went.          *)
THEOREM ReleaseFollowsTask == AsyncSpec => []ReleaseAfterRenewTask
  <1>1. AsyncInv => ReleaseAfterRenewTask
    <2> SUFFICES ASSUME AsyncInv, NEW r \in wire, r.kind = "release", r.from # Nobody,
                        run[r.token] # "none"
                 PROVE  worker[r.token] \in {"none", "exited"}
      BY DEF ReleaseAfterRenewTask, Plain
    <2>1. Base /\ r.token \in Attempts /\ r.from \in Threads
      BY DEF AsyncInv, Base, Typed, Fits, Requests
    <2>2. op[r.token][r.from].pc \in {"release", "repeatRelease"}
      BY <2>1 DEF Base, WireInv, Expects
    <2>3. Seated(r.token) /\ Single(r.token)
      BY <2>1 DEF AsyncInv, Elector
    <2>4. r.from = Cleanup
      BY <2>1, <2>2, <2>3 DEF Seated, At, ReleasePoints
    <2>5. cleanup[r.token] \in {"running", "stopping"}
      BY <2>2, <2>3, <2>4 DEF Seated, At
    <2> QED BY <2>3, <2>5 DEF Single
  <1> QED BY <1>1, AsyncInvariance, PTL

(* An asyncio handle in the state LOST does not hold the lease, although   *)
(* its cleanup task does not look at the state again after its calls.      *)
THEOREM AsyncLossCorrect == AsyncSpec => []LostForGood
  <1>1. AsyncInv => LostForGood
    BY DEF AsyncInv, Base, LossInv, LostForGood
  <1> QED BY <1>1, AsyncInvariance, PTL

(* A fencing token identifies one handle of the asyncio lock as well.      *)
THEOREM AsyncFencing == AsyncSpec => []FenceIdentifiesHandle
  <1>1. AsyncInv => FenceIdentifiesHandle
    BY DEF AsyncInv, Base, GrantInv, FenceIdentifiesHandle
  <1> QED BY <1>1, AsyncInvariance, PTL

(* An asyncio try_acquire that returned None holds nothing, and no call of *)
(* it that is still on its way can take the lock later.                    *)
THEOREM AsyncNoneCorrect == AsyncSpec => []NoneHoldsNothing
  <1>1. AsyncInv => NoneHoldsNothing
    <2> SUFFICES ASSUME AsyncInv, NEW a \in Attempts, attempt[a] = "none"
                 PROVE  lease.owner # a /\ \A r \in wire : r.token = a => r.kind # "acquire"
      BY DEF NoneHoldsNothing
    <2>1. Base /\ grant[a] = 0 /\ NoAcquire(a)
      BY DEF AsyncInv, Base, AcquireInv
    <2> QED BY <2>1 DEF Base, GrantInv, NoAcquire
  <1> QED BY <1>1, AsyncInvariance, PTL

(* The server issues increasing fencing tokens to asyncio callers, and at  *)
(* most one to each, although a cancelled call may be executed later.      *)
THEOREM AsyncFencingMonotone == AsyncSpec => GrantsIncrease
  <1>1. ASSUME AsyncInv, [AsyncNext]_asyncVars
        PROVE  [\A a \in Attempts : grant'[a] # grant[a] =>
                   /\ grant[a] = 0
                   /\ \A b \in Attempts : grant[b] < grant'[a]]_vars
    <2>1. Base /\ Frame
      BY <1>1, AsyncFrame DEF AsyncInv
    <2> QED BY <2>1, FrameGrants
  <1> QED BY <1>1, AsyncInvariance, PTL DEF AsyncSpec, GrantsIncrease

(* Every step of the asyncio lock is a step of the fenced lock, or none.   *)
(* Its first state may hold the lease of a former process, so it need not  *)
(* be one that the fenced lock starts in.                                  *)
THEOREM AsyncLock == AsyncSpec => [][Lock!Next]_(Lock!vars)
  <1>1. AsyncInv /\ [AsyncNext]_asyncVars => [Lock!Next]_(Lock!vars)
    BY AsyncFrame, FrameLock DEF AsyncInv
  <1> QED BY <1>1, AsyncInvariance, PTL DEF AsyncSpec

(* A task that is cancelled leaves calls on the wire that it has sent.     *)
LEMMA AbandonCarries ==
    ASSUME Typed, NEW a \in Attempts, NEW t, Abandon(a, t) \/ wire' = wire
    PROVE  Carries(a)
  <1>1. /\ wire \ CallsOf(a, t) \in SUBSET wire /\ CallsOf(a, t) \in SUBSET wire
    BY DEF CallsOf
  <1>2. CASE Abandon(a, t)
    BY <1>1, <1>2, OrphanCarries DEF Abandon
  <1>3. CASE wire' = wire
    BY <1>3 DEF Carries
  <1> QED BY <1>2, <1>3

(* The steps of the user tasks leave the keys alone, and ask for the       *)
(* lifetimes that those of the synchronous lock ask for.                   *)
LEMMA UserTimes ==
    ASSUME AsyncInv, NEW a \in Attempts, NEW t \in UsersOf[a],
           CallerStep(a, t) \/ CancelStep(a, t)
    PROVE  Times(a)
  <1>0. Typed /\ t \in Threads
    BY TaskNames DEF AsyncInv, Base
  <1>1. CASE ThreadStep(a, t)
    BY <1>0, <1>1, ThreadTimes
  <1>2. ASSUME NEW u, Abandon(a, u) \/ wire' = wire, UNCHANGED <<serverVars, timerVars>>
        PROVE  Times(a)
    <2>1. Carries(a)
      BY <1>0, <1>2, AbandonCarries
    <2> QED BY <1>2, <2>1 DEF Times, timerVars
  <1>3. CASE \/ AsyncTryAcquire(a, t) \/ AsyncAcquireReply(a, t)
             \/ AsyncAcquireAgain(a, t) \/ AsyncReconcileAcquire(a, t)
             \/ \E d \in RenewTimes : AsyncRenew(a, t, d)
             \/ AsyncIsHeld(a, t) \/ AsyncProofReply(a, t) \/ AsyncEnter(a, t)
    BY <1>1, <1>3 DEF AsyncTryAcquire, AsyncAcquireReply, AsyncAcquireAgain,
       AsyncReconcileAcquire, AsyncRenew, AsyncIsHeld, AsyncProofReply, AsyncEnter, ThreadStep
  <1>4. CASE \/ AsyncEnterReply(a, t) \/ AsyncRelease(a, t)
             \/ \E c \in BOOLEAN : AsyncExit(a, t, c)
             \/ StopDone(a, t) \/ CleanupDone(a, t)
             \/ RenewOutlives(a, t) \/ CleanupOutlives(a, t)
    BY <1>2, <1>4 DEF AsyncEnterReply, AsyncRelease, AsyncExit, StopDone, CleanupDone,
                      RenewOutlives, CleanupOutlives
  <1>5. CASE \/ \E o \in {"value", "error", "cancelled"} : RunAction(a, t, o)
             \/ KeepCancel(a, t) \/ CancelWait(a, t)
    BY <1>2, <1>5 DEF RunAction, KeepCancel, CancelWait, vars
  <1>6. CASE RenewStopExpires(a, t) \/ CleanupExpires(a, t)
    BY <1>2, <1>6 DEF RenewStopExpires, CleanupExpires, vars
  <1>7. CASE CancelAcquire(a, t) \/ CancelProof(a, t) \/ CancelEnter(a, t)
    BY <1>2, <1>7 DEF CancelAcquire, CancelProof, CancelEnter
  <1> QED BY <1>3, <1>4, <1>5, <1>6, <1>7 DEF CallerStep, CancelStep

(* So do those of the renewal task and of the cleanup task.                *)
LEMMA TaskTimes ==
    ASSUME AsyncInv, NEW a \in Attempts, RenewTaskStep(a) \/ CleanupStep(a)
    PROVE  Times(a)
  <1>0. Typed
    BY DEF AsyncInv, Base
  <1>1. UNCHANGED <<serverVars, timerVars>>
    BY DEF RenewTaskStep, CleanupStep, TimerFires, RenewLoopStops, RenewLoopRenews,
           RenewLoopReply, RenewLoopTimeout, RenewTaskStopped, AsyncReleaseCheck,
           AsyncReleaseReply, AsyncReconcileRelease, CleanupStopped
  <1>2. Carries(a)
    <2>1. CASE \E u : Abandon(a, u) \/ wire' = wire
      BY <1>0, <2>1, AbandonCarries
    <2>2. CASE Call(a, Worker, "renew", "renew", fence[a], LeaseTime)
      BY <2>2, CallCarries
    <2>3. CASE \E pc \in {"release", "repeatRelease"} : SendRelease(a, Cleanup, pc)
      BY <2>3, CallCarries DEF SendRelease
    <2>4. CASE Call(a, Cleanup, "reconcileRelease", "reconcile", 0, 0)
      BY <2>4, CallCarries
    <2> QED BY <2>1, <2>2, <2>3, <2>4
            DEF RenewTaskStep, CleanupStep, TimerFires, RenewLoopStops, RenewLoopRenews,
                RenewLoopReply, RenewLoopTimeout, RenewTaskStopped, AsyncReleaseCheck,
                AsyncReleaseReply, AsyncReconcileRelease, CleanupEnds, CleanupStopped
  <1> QED BY <1>1, <1>2 DEF Times, timerVars

(* A step of the asyncio lock is one of its tasks, or one of the server,   *)
(* the network and the clock that the synchronous lock takes as well.      *)
LEMMA AsyncKinds ==
    ASSUME AsyncInv, [AsyncNext]_asyncVars
    PROVE  \/ \E a \in Attempts : Times(a)
           \/ \E r \in wire : Serve(r)
           \/ Tick
           \/ UNCHANGED vars
  <1>0. Typed
    BY DEF AsyncInv, Base
  <1>1. ASSUME NEW a \in Attempts, NEW t \in Threads, NetworkStep(a, t)
        PROVE  Times(a)
    BY <1>0, <1>1, NetworkTimes
  <1> QED BY <1>1, UserTimes, TaskTimes DEF AsyncNext, Environment, asyncVars

(* Nobody else gets the lock before the minimum lease of its last owner is *)
(* over, although asyncio callers are cancelled at any await, if no caller *)
(* renews for less than that.                                              *)
THEOREM AsyncMinimum ==
    ASSUME LongRenewals
    PROVE  AsyncSpec => []MinimumLeaseKept
  <1>1. AsyncInit => MinInv
    <2> SUFFICES ASSUME AsyncInit
                 PROVE  MinInv
      OBVIOUS
    <2>1. /\ wire = {} /\ \A a \in Attempts : minLeft[a] = 0
          /\ lease.owner = Nobody \/ lease.ttl = LeaseTime
      BY DEF AsyncInit, Init, Predecessor, NoLease
    <2> QED BY <2>1, NameAssumption, TimeAssumption DEF MinInv, MinimumLeaseKept
  <1>2. AsyncInv /\ MinInv /\ [AsyncNext]_asyncVars => MinInv'
    <2> SUFFICES ASSUME AsyncInv, MinInv, [AsyncNext]_asyncVars
                 PROVE  MinInv'
      OBVIOUS
    <2>0. Base
      BY DEF AsyncInv
    <2>1. CASE UNCHANGED vars
      BY <2>1 DEF vars, serverVars, timerVars, MinInv, MinimumLeaseKept
    <2> QED BY <2>0, <2>1, AsyncKinds, MinClient, MinServe, MinFade
  <1>3. MinInv => MinimumLeaseKept
    BY DEF MinInv
  <1> QED BY <1>1, <1>2, <1>3, AsyncInvariance, PTL DEF AsyncSpec

(* A live lease of an asyncio handle is ended early only by the execution  *)
(* of a release call of that handle, never by a cancellation as such.      *)
THEOREM AsyncOwnerEnds == AsyncSpec => OnlyOwnerEndsLease
  <1>1. ASSUME AsyncInv, [AsyncNext]_asyncVars
        PROVE  [\A a \in Attempts : Held(a) /\ lease'.owner \notin {a, Foreign} =>
                   \E r \in wire : r.kind = "release" /\ r.token = a /\ r \notin wire']_vars
    <2>0. Base
      BY <1>1 DEF AsyncInv
    <2>1. CASE [Next]_vars
      BY <2>0, <2>1, OwnerStep
    <2>2. ASSUME NEW b \in Attempts, Times(b), NEW a \in Attempts, Held(a),
                 lease'.owner \notin {a, Foreign}
          PROVE  FALSE
      BY <2>2 DEF Times, serverVars, Held
    <2> QED BY <1>1, <2>1, <2>2, AsyncKinds DEF Next
  <1> QED BY <1>1, AsyncInvariance, PTL DEF AsyncSpec, OnlyOwnerEndsLease

=============================================================================
