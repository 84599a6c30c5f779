-------------------------- MODULE AsyncRedisLease ---------------------------
(***************************************************************************)
(* The asyncio Redis lock of bluetape-leader-redis and the leader elector  *)
(* that runs an action under it.  The keys, the Lua scripts and the client *)
(* call around a script are those of RedisLease; the threads are tasks of  *)
(* one event loop here, so a step runs from one await to the next, and a   *)
(* task may be cancelled at any await.                                     *)
(*                                                                         *)
(* A handle has its callers' tasks, the renewal task (Worker) and the      *)
(* cleanup task, which releases the lease once, shielded from the          *)
(* cancellation of whoever waits for it.                                   *)
(***************************************************************************)
EXTENDS RedisLease

CONSTANTS
    Cleanup,  \* the cleanup task of a handle
    CallsBy   \* the operations that each task uses

ASSUME CleanupAssumption ==
    /\ Cleanup \in UserThreads
    /\ \A a \in Attempts : Cleanup \notin UsersOf[a]
    /\ CallsBy \in [UserThreads \ {Cleanup} -> SUBSET Calls]

VARIABLES
    cleanup,  \* _cleanup_task: "none", "running", "stopping" when it was told
              \* to stop, or how it ended
    cancel,   \* a cancellation of a task while it waits for another task
    run       \* run_if_leader_result, for an attempt that it makes

asyncVars == <<vars, cleanup, cancel, run>>

Tasks == UserThreads \ {Cleanup}
Waits == {"waitRenew", "waitRenewUntil", "waitCleanup"}

\* How the cleanup task and the renewal task of a handle may have ended.
CleanupEnded == {"ok", "raised", "cancelled"}
RenewEnded   == {"exited", "cancelled"}

\* The results of an election that carry the lease the action ran under.
LeaseResults == {"Elected", "ActionFailed"}

\* The lock is new, or a process that is gone has left its lease behind.
Predecessor(a) ==
    /\ lease = [owner |-> a, fence |-> 1, ttl |-> LeaseTime]
    /\ counter = 1
    /\ history = TRUE
    /\ attempt = [b \in Attempts |-> IF b = a THEN "crashed" ELSE "new"]
    /\ grant = [b \in Attempts |-> IF b = a THEN 1 ELSE 0]
    /\ wire = {}
    /\ state = [b \in Attempts |-> "NONE"]
    /\ fence = [b \in Attempts |-> 0]
    /\ minLeft = [b \in Attempts |-> 0]
    /\ waitLeft = [b \in Attempts |-> 0]
    /\ op = [b \in Attempts |-> [t \in Threads |->
                [pc |-> "idle", reply |-> NoReply]]]
    /\ scope = [b \in Attempts |-> Nobody]
    /\ worker = [b \in Attempts |-> "none"]
    /\ stop = [b \in Attempts |-> FALSE]

AsyncInit ==
    /\ Init \/ \E a \in Attempts : UsersOf[a] = {} /\ Predecessor(a)
    /\ cleanup = [a \in Attempts |-> "none"]
    /\ cancel = [a \in Attempts |-> [t \in Tasks |-> "none"]]
    /\ run \in {f \in [Attempts -> {"none", "elector"}] :
                   \A a \in Attempts : UsersOf[a] = {} => f[a] = "none"}

\* An elector keeps its handle to itself.
Plain(a) == run[a] = "none"

\* What a task that was cancelled leaves on the wire: nothing, or a call that
\* the server will still execute.
Abandon(a, t) ==
    \/ wire' = wire \ CallsOf(a, t)
    \/ wire' = (wire \ CallsOf(a, t)) \cup Orphaned(CallsOf(a, t))

-----------------------------------------------------------------------------
(* AsyncRedisDistributedLock                                               *)

AsyncTryAcquire(a, t) ==
    /\ TryAcquire(a, t)
    /\ UNCHANGED <<cleanup, cancel, run>>

AsyncAcquireReply(a, t) ==
    /\ AcquireReply(a, t)
    /\ UNCHANGED <<cleanup, cancel, run>>

AsyncAcquireAgain(a, t) ==
    /\ AcquireAgain(a, t)
    /\ UNCHANGED <<cleanup, cancel, run>>

\* _reconcile_acquire and _new_handle
AsyncReconcileAcquire(a, t) ==
    /\ ReconcileAcquire(a, t)
    /\ UNCHANGED <<cleanup, cancel, run>>

\* CancelledError is no Exception: try_acquire passes it on at once, whatever
\* the server makes of the call.
CancelAcquire(a, t) ==
    /\ op[a][t].pc \in {"acquire", "sleep", "reconcileAcquire"}
    /\ attempt' = [attempt EXCEPT ![a] = "error"]
    /\ Goto(a, t, "idle")
    /\ Abandon(a, t)
    /\ UNCHANGED <<serverVars, state, fence, scope, worker, stop, timerVars>>
    /\ UNCHANGED <<cleanup, cancel, run>>

-----------------------------------------------------------------------------
(* renew and is_held                                                       *)

AsyncRenew(a, t, duration) ==
    /\ Plain(a) /\ "renew" \in CallsBy[t]
    /\ Renew(a, t, duration)
    /\ UNCHANGED <<cleanup, cancel, run>>

AsyncIsHeld(a, t) ==
    /\ Plain(a) /\ "is_held" \in CallsBy[t]
    /\ IsHeld(a, t)
    /\ UNCHANGED <<cleanup, cancel, run>>

AsyncProofReply(a, t) ==
    /\ ProofReply(a, t)
    /\ UNCHANGED <<cleanup, cancel, run>>

CancelProof(a, t) ==
    /\ op[a][t].pc \in {"renew", "probe"}
    /\ Goto(a, t, "idle")
    /\ Abandon(a, t)
    /\ UNCHANGED <<serverVars, handleVars, timerVars, cleanup, cancel, run>>

-----------------------------------------------------------------------------
(* _await_cleanup and the end of a call                                    *)

\* How a call of __aexit__ ends run_if_leader_result: with the result of the
\* action, or with an error of the lifecycle or the cancellation.
RunEnds(a, ok) ==
    run' = [run EXCEPT ![a] = CASE @ = "none"        -> @
                                [] ok /\ @ = "value" -> "Elected"
                                [] ok /\ @ = "error" -> "ActionFailed"
                                [] OTHER             -> "raised"]

\* The call of t returns (ok) or raises; a cancellation that was kept is what
\* it raises, one that was not is lost.
Returns(a, t, ok, cancelled) ==
    /\ Goto(a, t, "idle")
    /\ RunEnds(a, ok /\ cancelled # "kept")
    /\ cancel' = [cancel EXCEPT ![a][t] =
                    IF cancelled \in {"pending", "lost"} THEN "lost" ELSE "none"]

\* The second half of _await_cleanup, when the cleanup task has ended.
Settle(a, t, cancelled) ==
    /\ state' = [state EXCEPT ![a] =
                    IF cleanup[a] = "cancelled" THEN "UNKNOWN" ELSE @]
    /\ Returns(a, t, cleanup[a] = "ok", cancelled)
    /\ UNCHANGED cleanup

\* The first half of _await_cleanup: an UNKNOWN handle is left alone, the
\* first caller creates the cleanup task, every other one joins it, and a task
\* that has ended needs no wait.
AwaitCleanup(a, t, cancelled) ==
    \/ /\ state[a] = "UNKNOWN"
       /\ Returns(a, t, FALSE, cancelled)
       /\ UNCHANGED <<state, cleanup>>
    \/ /\ state[a] # "UNKNOWN"
       /\ cleanup[a] = "none"
       /\ cleanup' = [cleanup EXCEPT ![a] = "running"]
       /\ op' = [op EXCEPT
                   ![a][t]       = [pc |-> "waitCleanup", reply |-> NoReply],
                   ![a][Cleanup] = [pc |-> "relCheck", reply |-> NoReply]]
       /\ cancel' = [cancel EXCEPT ![a][t] = cancelled]
       /\ UNCHANGED <<state, run>>
    \/ /\ state[a] # "UNKNOWN"
       /\ cleanup[a] = "none"      \* create_task fails
       /\ state' = [state EXCEPT ![a] = "UNKNOWN"]
       /\ Returns(a, t, FALSE, cancelled)
       /\ UNCHANGED cleanup
    \/ /\ state[a] # "UNKNOWN"
       /\ cleanup[a] \in {"running", "stopping"}
       /\ Goto(a, t, "waitCleanup")
       /\ cancel' = [cancel EXCEPT ![a][t] = cancelled]
       /\ UNCHANGED <<state, cleanup, run>>
    \/ /\ state[a] # "UNKNOWN"
       /\ cleanup[a] \in CleanupEnded
       /\ Settle(a, t, cancelled)

\* Faulty variant of CleanupDone: leaves the state of the handle alone.
CleanupDoneQuiet(a, t) ==
    /\ At(a, t, "waitCleanup")
    /\ cleanup[a] \in CleanupEnded
    /\ Returns(a, t, TRUE, cancel[a][t])
    /\ UNCHANGED <<serverVars, wire, handleVars, timerVars, cleanup>>

CleanupDone(a, t) ==
    /\ At(a, t, "waitCleanup")
    /\ cleanup[a] \in CleanupEnded
    /\ Settle(a, t, cancel[a][t])
    /\ UNCHANGED <<serverVars, wire, attempt, fence, scope, worker, stop,
                   timerVars>>

\* The release envelope runs out: _wait_task cancels the cleanup task and goes
\* on waiting for it.  A cancellation of the caller is looked at first.
CleanupExpires(a, t) ==
    /\ At(a, t, "waitCleanup")
    /\ cleanup[a] = "running"
    /\ cancel[a][t] # "pending"
    /\ cleanup' = [cleanup EXCEPT ![a] = "stopping"]
    /\ UNCHANGED <<vars, cancel, run>>

\* The grace period runs out as well: the caller leaves, the task still runs.
CleanupOutlives(a, t) ==
    /\ At(a, t, "waitCleanup")
    /\ cleanup[a] = "stopping"
    /\ cancel[a][t] # "pending"
    /\ state' = [state EXCEPT ![a] = "UNKNOWN"]
    /\ Returns(a, t, FALSE, cancel[a][t])
    /\ UNCHANGED <<serverVars, wire, attempt, fence, scope, worker, stop,
                   timerVars, cleanup>>

-----------------------------------------------------------------------------
(* __aenter__                                                              *)

AsyncEnter(a, t) ==
    /\ "enter" \in CallsBy[t]
    /\ Enter(a, t)
    /\ UNCHANGED <<cleanup, cancel, run>>

\* Proved: the renewal task is created and the body runs, or the creation
\* fails, the lease is given back and the failure raised, whether the call was
\* cancelled meanwhile or not.  Not proved: the call raises.
AsyncEnterReply(a, t) ==
    /\ Replied(a, t, "enterProof")
    /\ \/ /\ Proved(a, t)
          /\ worker' = [worker EXCEPT ![a] = IF AutoRenew THEN "running" ELSE @]
          /\ scope' = [scope EXCEPT ![a] = t]
          /\ Goto(a, t, "idle")
          /\ UNCHANGED <<state, cleanup, cancel, run>>
       \/ /\ Proved(a, t) /\ AutoRenew
          /\ AwaitCleanup(a, t, "deaf")
          /\ UNCHANGED <<worker, scope>>
       \/ /\ ~Proved(a, t)
          /\ state' = [state EXCEPT ![a] = AfterProof(@, Status(a, t))]
          /\ run' = [run EXCEPT ![a] = IF @ = "elector" THEN "raised" ELSE @]
          /\ Goto(a, t, "idle")
          /\ UNCHANGED <<worker, scope, cleanup, cancel>>
    /\ UNCHANGED <<serverVars, wire, attempt, fence, stop, timerVars>>

\* A cancelled __aenter__ gives the lease back before it raises.
CancelEnter(a, t) ==
    /\ At(a, t, "enterProof")
    /\ Abandon(a, t)
    /\ AwaitCleanup(a, t, "kept")
    /\ UNCHANGED <<serverVars, attempt, fence, scope, worker, stop, timerVars>>

-----------------------------------------------------------------------------
(* _renew_loop, the body of the renewal task                               *)

\* The interval is over; a stop that comes now no longer finds a future to set.
TimerFires(a) ==
    /\ worker[a] = "running"
    /\ At(a, Worker, "idle")
    /\ ~stop[a]
    /\ worker' = [worker EXCEPT ![a] = "woken"]
    /\ UNCHANGED <<serverVars, wire, attempt, state, fence, scope, stop,
                   timerVars, op, cleanup, cancel, run>>

RenewLoopStops(a) ==
    /\ worker[a] = "running"
    /\ At(a, Worker, "idle")
    /\ stop[a]
    /\ worker' = [worker EXCEPT ![a] = "exited"]
    /\ UNCHANGED <<serverVars, wire, attempt, state, fence, scope, stop,
                   timerVars, op, cleanup, cancel, run>>

RenewLoopRenews(a) ==
    /\ worker[a] = "woken"
    /\ At(a, Worker, "idle")
    /\ \/ /\ state[a] \in Terminal
          /\ Leaves(a)
          /\ UNCHANGED <<wire, op>>
       \/ /\ state[a] \notin Terminal
          /\ Call(a, Worker, "renew", "renew", fence[a], LeaseTime)
          /\ UNCHANGED <<worker, stop>>
    /\ UNCHANGED <<serverVars, attempt, state, fence, scope, timerVars,
                   cleanup, cancel, run>>

RenewLoopReply(a) ==
    /\ worker[a] = "woken"
    /\ Replied(a, Worker, "renew")
    /\ state' = [state EXCEPT ![a] = AfterProof(@, Status(a, Worker))]
    /\ Goto(a, Worker, "idle")
    /\ \/ /\ Proved(a, Worker)
          /\ worker' = [worker EXCEPT ![a] = "running"]
          /\ UNCHANGED stop
       \/ /\ ~Proved(a, Worker)
          /\ Leaves(a)
    /\ UNCHANGED <<serverVars, wire, attempt, fence, scope, timerVars,
                   cleanup, cancel, run>>

\* asyncio.timeout_at: whatever the state was, it is UNKNOWN now.
RenewLoopTimeout(a) ==
    /\ worker[a] = "woken"
    /\ At(a, Worker, "renew")
    /\ state' = [state EXCEPT ![a] = "UNKNOWN"]
    /\ Goto(a, Worker, "idle")
    /\ Abandon(a, Worker)
    /\ Leaves(a)
    /\ UNCHANGED <<serverVars, attempt, fence, scope, timerVars, cleanup,
                   cancel, run>>

\* The task was cancelled and the client has passed the cancellation on.
RenewTaskStopped(a) ==
    /\ worker[a] = "stopping"
    /\ worker' = [worker EXCEPT ![a] = "cancelled"]
    /\ Goto(a, Worker, "idle")
    /\ Abandon(a, Worker)
    /\ UNCHANGED <<serverVars, attempt, state, fence, scope, stop, timerVars,
                   cleanup, cancel, run>>

-----------------------------------------------------------------------------
(* release, __aexit__ and _stop_renew_task                                 *)

\* The second half of _stop_renew_task.  A renewal task that was cancelled
\* leaves the handle UNKNOWN, so nothing is released.
RenewSettled(a, t, cancelled) ==
    \/ /\ worker[a] = "exited"
       /\ AwaitCleanup(a, t, cancelled)
    \/ /\ worker[a] = "cancelled"
       /\ state' = [state EXCEPT ![a] = "UNKNOWN"]
       /\ Returns(a, t, FALSE, cancelled)
       /\ UNCHANGED cleanup

\* The first half wakes the renewal task and waits for it: until the deadline
\* of the renewal that is on its way, or else for an envelope.
StopRenewTask(a, t, cancelled) ==
    \/ /\ worker[a] = "none"
       /\ AwaitCleanup(a, t, cancelled)
       /\ UNCHANGED stop
    \/ /\ worker[a] \in RenewEnded
       /\ stop' = [stop EXCEPT ![a] = TRUE]
       /\ RenewSettled(a, t, cancelled)
    \/ /\ worker[a] \notin RenewEnded \cup {"none"}
       /\ stop' = [stop EXCEPT ![a] = TRUE]
       /\ Goto(a, t, IF At(a, Worker, "renew") THEN "waitRenewUntil" ELSE "waitRenew")
       /\ cancel' = [cancel EXCEPT ![a][t] = cancelled]
       /\ UNCHANGED <<state, cleanup, run>>

AsyncRelease(a, t) ==
    /\ Plain(a) /\ "release" \in CallsBy[t]
    /\ Idle(a, t)
    /\ state[a] \notin Terminal
    /\ StopRenewTask(a, t, "none")
    /\ UNCHANGED <<serverVars, wire, attempt, fence, scope, worker, timerVars>>

\* run_if_leader_result: the action returns, raises an ordinary error, which is
\* caught inside the body, or is cancelled.
RunAction(a, t, outcome) ==
    /\ run[a] = "elector"
    /\ Idle(a, t)
    /\ scope[a] = t
    /\ run' = [run EXCEPT ![a] = outcome]
    /\ UNCHANGED <<vars, cleanup, cancel>>

\* The body is over; a plain body may have been cancelled as well.
AsyncExit(a, t, cancelled) ==
    /\ run[a] # "elector"
    /\ ~Plain(a) => cancelled = (run[a] = "cancelled")
    /\ Idle(a, t)
    /\ scope[a] = t
    /\ scope' = [scope EXCEPT ![a] = Nobody]
    /\ StopRenewTask(a, t, IF cancelled THEN "kept" ELSE "none")
    /\ UNCHANGED <<serverVars, wire, attempt, fence, worker, timerVars>>

\* A cancellation that arrives when the task waited for has ended is dropped.
Dropped(c) == IF c = "pending" THEN "lost" ELSE c

\* Faulty variant of StopDone: signals the renewal task and does not wait.
StopDoneEarly(a, t) ==
    /\ op[a][t].pc \in {"waitRenew", "waitRenewUntil"}
    /\ AwaitCleanup(a, t, Dropped(cancel[a][t]))
    /\ UNCHANGED <<serverVars, wire, attempt, fence, scope, worker, stop,
                   timerVars>>

StopDone(a, t) ==
    /\ op[a][t].pc \in {"waitRenew", "waitRenewUntil"}
    /\ RenewSettled(a, t, Dropped(cancel[a][t]))
    /\ UNCHANGED <<serverVars, wire, attempt, fence, scope, worker, stop,
                   timerVars>>

\* The envelope runs out: _wait_task cancels the renewal task.  A task with a
\* deadline of its own is not cancelled.
RenewStopExpires(a, t) ==
    /\ At(a, t, "waitRenew")
    /\ worker[a] \in {"running", "woken"}
    /\ cancel[a][t] # "pending"
    /\ worker' = [worker EXCEPT ![a] = "stopping"]
    /\ UNCHANGED <<serverVars, wire, attempt, state, fence, scope, stop,
                   timerVars, op, cleanup, cancel, run>>

\* The wait is over and the renewal task still runs.  The handle is UNKNOWN, so
\* nothing is released.
RenewOutlives(a, t) ==
    /\ \/ At(a, t, "waitRenew") /\ worker[a] = "stopping"
       \/ At(a, t, "waitRenewUntil") /\ worker[a] \notin RenewEnded
    /\ cancel[a][t] # "pending"
    /\ state' = [state EXCEPT ![a] = "UNKNOWN"]
    /\ Returns(a, t, FALSE, cancel[a][t])
    /\ UNCHANGED <<serverVars, wire, attempt, fence, scope, worker, stop,
                   timerVars, cleanup>>

\* Faulty variant of KeepCancel: the wait is not shielded from the caller's
\* cancellation, and the call leaves.
KeepCancelUnshielded(a, t) ==
    /\ op[a][t].pc \in Waits
    /\ cancel[a][t] = "pending"
    /\ Returns(a, t, FALSE, "kept")
    /\ UNCHANGED <<serverVars, wire, handleVars, timerVars, cleanup>>

\* _wait_task and _wait_task_until shield the task they wait for: a
\* cancellation of the caller is kept for later, unless the task has ended by
\* the time the caller runs again.
CancelWait(a, t) ==
    /\ op[a][t].pc \in Waits
    /\ cancel[a][t] \in {"none", "deaf"}
    /\ cancel' = [cancel EXCEPT ![a][t] = IF @ = "none" THEN "pending" ELSE "lost"]
    /\ UNCHANGED <<vars, cleanup, run>>

KeepCancel(a, t) ==
    /\ op[a][t].pc \in Waits
    /\ cancel[a][t] = "pending"
    /\ IF At(a, t, "waitCleanup") THEN cleanup[a] \notin CleanupEnded
                                  ELSE worker[a] \notin RenewEnded
    /\ cancel' = [cancel EXCEPT ![a][t] = "kept"]
    /\ UNCHANGED <<vars, cleanup, run>>

-----------------------------------------------------------------------------
(* _release, the body of the cleanup task.  It does not look at the state  *)
(* again after its calls.                                                  *)

\* The task was cancelled and the client has passed the cancellation on, maybe
\* after the caller's grace period.
CleanupStopped(a) ==
    /\ cleanup[a] = "stopping"
    /\ cleanup' = [cleanup EXCEPT ![a] = "cancelled"]
    /\ Goto(a, Cleanup, "idle")
    /\ Abandon(a, Cleanup)
    /\ UNCHANGED <<serverVars, handleVars, timerVars, cancel, run>>

CleanupEnds(a, how) ==
    /\ cleanup' = [cleanup EXCEPT ![a] = how]
    /\ Goto(a, Cleanup, "idle")
    /\ UNCHANGED wire

\* Only the cleanup task makes a handle RELEASED, so it never finds it so.
AsyncReleaseCheck(a) ==
    /\ cleanup[a] = "running"
    /\ At(a, Cleanup, "relCheck")
    /\ \/ /\ state[a] \in Terminal
          /\ CleanupEnds(a, "raised")
       \/ /\ state[a] \notin Terminal
          /\ SendRelease(a, Cleanup, "release")
          /\ UNCHANGED cleanup
    /\ UNCHANGED <<serverVars, handleVars, timerVars, cancel, run>>

\* Faulty variant of FinishRelease: an error proves that the lease is gone.
FinishReleaseHasty(status) ==
    IF status \in {"DELETED", "MIN_TTL_APPLIED"} THEN "RELEASED" ELSE "LOST"

\* The state after the reply of a release script, whatever it was before.
FinishRelease(status) ==
    IF status \in {"DELETED", "MIN_TTL_APPLIED"} THEN "RELEASED"
    ELSE IF status = "NOT_HELD" THEN "LOST"
    ELSE "UNKNOWN"

AsyncReleaseReply(a) ==
    /\ cleanup[a] = "running"
    /\ \/ /\ Replied(a, Cleanup, "release")
          /\ Status(a, Cleanup) = "UNCERTAIN"
          /\ Call(a, Cleanup, "reconcileRelease", "reconcile", 0, 0)
          /\ UNCHANGED <<state, cleanup>>
       \/ /\ \/ Replied(a, Cleanup, "release") /\ Status(a, Cleanup) # "UNCERTAIN"
             \/ Replied(a, Cleanup, "repeatRelease")
          /\ state' = [state EXCEPT ![a] = FinishRelease(Status(a, Cleanup))]
          /\ CleanupEnds(a, IF state'[a] = "RELEASED" THEN "ok" ELSE "raised")
    /\ UNCHANGED <<serverVars, attempt, fence, scope, worker, stop, timerVars,
                   cancel, run>>

AsyncReconcileRelease(a) ==
    /\ cleanup[a] = "running"
    /\ Replied(a, Cleanup, "reconcileRelease")
    /\ LET present == Status(a, Cleanup) = "PRESENT"
           own     == present /\ op[a][Cleanup].reply.owner = a
       IN  \/ /\ own
              /\ SendRelease(a, Cleanup, "repeatRelease")
              /\ UNCHANGED <<state, cleanup>>
           \/ /\ ~own
              /\ state' = [state EXCEPT ![a] = IF present THEN "LOST" ELSE "UNKNOWN"]
              /\ CleanupEnds(a, "raised")
    /\ UNCHANGED <<serverVars, attempt, fence, scope, worker, stop, timerVars,
                   cancel, run>>

-----------------------------------------------------------------------------

CallerStep(a, t) ==
    \/ AsyncTryAcquire(a, t) \/ AsyncAcquireReply(a, t)
    \/ AsyncAcquireAgain(a, t) \/ AsyncReconcileAcquire(a, t)
    \/ \E d \in RenewTimes : AsyncRenew(a, t, d)
    \/ AsyncIsHeld(a, t) \/ AsyncProofReply(a, t)
    \/ AsyncEnter(a, t) \/ AsyncEnterReply(a, t)
    \/ \E o \in {"value", "error", "cancelled"} : RunAction(a, t, o)
    \/ AsyncRelease(a, t)
    \/ \E c \in BOOLEAN : AsyncExit(a, t, c)
    \/ StopDone(a, t) \/ RenewStopExpires(a, t) \/ RenewOutlives(a, t)
    \/ CleanupDone(a, t) \/ CleanupExpires(a, t) \/ CleanupOutlives(a, t)
    \/ KeepCancel(a, t)

CancelStep(a, t) ==
    CancelAcquire(a, t) \/ CancelProof(a, t) \/ CancelEnter(a, t) \/ CancelWait(a, t)

RenewTaskStep(a) ==
    \/ TimerFires(a) \/ RenewLoopStops(a) \/ RenewLoopRenews(a)
    \/ RenewLoopReply(a) \/ RenewLoopTimeout(a) \/ RenewTaskStopped(a)

CleanupStep(a) ==
    \/ AsyncReleaseCheck(a) \/ AsyncReleaseReply(a) \/ AsyncReconcileRelease(a)
    \/ CleanupStopped(a)

Environment ==
    /\ \/ \E r \in wire : Serve(r)
       \/ \E a \in Attempts, t \in Threads : NetworkStep(a, t)
       \/ Tick
    /\ UNCHANGED <<cleanup, cancel, run>>

AsyncNext ==
    \/ Environment
    \/ \E a \in Attempts : \E t \in UsersOf[a] : CallerStep(a, t)
    \/ \E a \in Attempts : \E t \in UsersOf[a] : CancelStep(a, t)
    \/ \E a \in Attempts : RenewTaskStep(a)
    \/ \E a \in Attempts : CleanupStep(a)

AsyncSpec == AsyncInit /\ [][AsyncNext]_asyncVars

-----------------------------------------------------------------------------
(* Properties                                                              *)

AsyncTypeOK ==
    /\ attempt \in [Attempts -> {"new", "running", "none", "error", "handle", "crashed"}]
    /\ state \in [Attempts -> {"NONE", "ACQUIRED", "ENTERED"} \cup Terminal]
    /\ \A a \in Attempts, t \in Threads :
          op[a][t].pc \in Points \cup Waits
    /\ worker \in [Attempts -> {"none", "running", "woken", "stopping"} \cup RenewEnded]
    /\ cleanup \in [Attempts -> {"none", "running", "stopping"} \cup CleanupEnded]
    /\ cancel \in [Attempts -> [Tasks -> {"none", "deaf", "pending", "kept", "lost"}]]
    /\ run \in [Attempts -> {"none", "elector", "value", "error", "cancelled",
                             "raised"} \cup LeaseResults]

\* Cleanup is not detached: as long as the cleanup task of a handle runs, the
\* call that asked for it waits for it, although that call was cancelled.  Once
\* the task was told to stop, the calls may leave it behind, and then the
\* handle is UNKNOWN to everyone (_wait_task, _await_cleanup).
CleanupNotDetached ==
    \A a \in Attempts : cleanup[a] \in {"running", "stopping"} =>
        \/ \E t \in UsersOf[a] : At(a, t, "waitCleanup")
        \/ cleanup[a] = "stopping" /\ state[a] = "UNKNOWN"

\* The elector returns Elected or ActionFailed only when the server confirmed
\* the release of its lease: a lease that was lost under the action, or whose
\* fate is unknown, is reported as an error (run_if_leader_result, __aexit__).
ResultMeansReleased ==
    \A a \in Attempts : run[a] \in LeaseResults =>
        state[a] = "RELEASED"

\* The release of an elector's lease is sent when its renewal task has ended,
\* so that no renewal of that task follows it (_stop_renew_task).
ReleaseAfterRenewTask ==
    \A r \in wire : r.kind = "release" /\ r.from # Nobody /\ ~Plain(r.token) =>
        worker[r.token] \in {"none", "exited"}

\* A call that was cancelled while it waits performs its cleanup and then
\* raises CancelledError (release, __aexit__ and the waits of both).
CancelIsRaised == \A a \in Attempts, t \in Tasks : cancel[a][t] # "lost"

=============================================================================
