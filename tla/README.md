# Verification of bluetape-py

TLA+ modules, model-checking runs and proofs for the parts of bluetape-py that
keep state shared between threads, tasks or processes. `PROJECT.json` maps every
definition to the source lines it models and lists the runs, the mutants, the
hazards, the findings and the theorems.

To check a run: `tlc -config MCRedisLeaseWorker.cfg MCRedisLease`. To check the
proofs of a module: `tlapm RedisLeaseProofs.tla`.

## 1. Inventory

The repository is a monorepo of small packages under `src/packages`. The ones
with state of their own, and what is hard about them:

| Component | State | Operations | What must hold |
|---|---|---|---|
| `bluetape-leader-redis`, synchronous lock (`_lock.py`, `_scripts.py`) | three Redis keys (lease, fence counter, history marker); per handle `_state`, `_worker`, `_worker_ready`, `_stop_event` | `try_acquire`, `renew`, `is_held`, `with`, `release`; five Lua scripts | one owner at a time, increasing fencing tokens, no effect of a late script on another owner, the minimum lease, calls that return |
| the same, asynchronous (`_async_lock.py`) | the same with a renewal task | the same, with cancellation at every `await` | the same, and an owner that is cancelled gives its lease back |
| electors (`_elector.py`, `_async_elector.py`) | none of their own | `run_if_leader`, `run_if_leader_result` | the action runs inside a held scope; errors become the right result |
| `bluetape-leader` | none (protocols, options, results) | - | the contract the Redis lock implements |
| `bluetape-cache`, state (`_core.py`) | entries in order of use, expiry heap, key versions, clear epoch, last tick | purge, store, evict, invalidate, clear, rebuild | limits, expiry, versions that are neither leaked nor reused under a load |
| `bluetape-cache`, synchronous (`_sync.py`) | the state, active and owned flights, per-flight condition | `get`, `set`, `invalidate`, `clear`, `get_or_load` | single flight, no stale publication, no lost wake-up |
| `bluetape-cache`, asynchronous (`_async.py`) | the same, waiter counts, loader tasks | the same | the same, and abandoned loads are cancelled and publish nothing |
| `bluetape-cache-redis`, coordination (`_coordination.py`, `_async_coordination.py`) | load marker and result key in Redis, a local flight | `get_or_load` | at most one owner of a load marker, waiters get a result or a timeout |
| `bluetape-cache-redis`, providers (`_provider.py`, `_async_provider.py`) | count of admitted operations, closing flag | `get`, `set`, `delete`, `close` | `close` waits for the admitted operations and admits no more |
| `bluetape-resilience`, circuit breaker (`_circuit.py`) | state, counters, generation | `call` | calls of an earlier generation count for nothing, probes are bounded |
| `bluetape-resilience`, bulkhead (`_bulkhead.py`) | in flight, waiters | `call` | the limit is kept, slots are given back, waiters are woken |
| `bluetape-resilience`, retry, timeout, pipeline | none between calls | `call` | bounded attempts, deadlines |
| `bluetape-jwt`, repository, provider and token cache (`_repository.py`, `_provider.py`, `_cache.py`) | immutable key snapshot and epoch; cached verifications | `add_verification_key`, `rotate`, `retire`, `revoke`, `issue`, `verify` | the cache changes no decision, no token of a revoked key is accepted |
| `bluetape-async` | workers of one call | `map_bounded` | the limit, order of the results, cancellation of the rest |
| `bluetape-id` (`_ulid.py`) | last timestamp and randomness | `new` | identifiers increase, overflow is refused |

The others (audit, benchmark, codec, collections, compression, core,
logging, measure, money, observability, serde, testcontainers, testing) convert
or validate data, wrap a library, or are development tools. They keep no state
that two actors share, and are not modelled.

Interactions: an elector calls a lock, whose handle runs its scripts on a Redis
server and starts a renewal thread or task that calls the handle back. A cache
calls the loader of its caller outside its lock, and the loader may call the
cache again. The Redis load coordination sits on a provider and on the local
flights. Resilience policies wrap an arbitrary operation.

Hard behaviours, by hazard kind (each with its line in `PROJECT.json`): lost and
late responses of scripts; threads that decide on a state read before a script
and apply the reply after it; the death of a process with scripts on their way;
loss of one of the persistent keys; bounded joins that run out; loads that end
after a mutation of their key; loaders inside loaders; heap nodes that outlive
their entry; limits of heap, entries, flights and the fence counter; tasks that are
cancelled while they clean up; closing a client under its commands; keys that are
revoked between the steps of a verification.

## 2. Modules and plan

| Module | Part | Extends | Proofs |
|---|---|---|---|
| `FencedLock` | what a lock promises | | |
| `RedisLease` | synchronous Redis lock, scripts, network, faults | implements `FencedLock` | `RedisLeaseProofs` |
| `AsyncRedisLease` | asynchronous Redis lock and its elector | `RedisLease` | `RedisLeaseProofs` |
| `CacheState` | pure state of the local caches | | `CacheStateProofs` |
| `TTLCache` | synchronous cache | `CacheState` | `TTLCacheProofs` |
| `AsyncTTLCache` | asynchronous cache | `CacheState` | `AsyncTTLCacheProofs` |
| `LoadCoordination` | loads through Redis, both coordinators, closing of providers | | `LoadCoordinationProofs` |
| `CircuitData`, `CircuitBreaker` | circuit, and the breaker for threads | | `CircuitBreakerProofs` |
| `AsyncCircuitBreaker` | the breaker for tasks beside the one for threads | `CircuitBreaker` | `CircuitBreakerProofs` |
| `Bulkhead` | both bulkheads | | `PipelineProofs` |
| `Pipeline` | calls through retry, timeout, breaker and a shared bulkhead | `Bulkhead` | `PipelineProofs` |
| `JwtProvider` | key repository, issuance, verification, token cache | | `JwtProofs` |

The order was: the Redis lock with its abstract specification, the local caches, the
resilience policies, then the asynchronous variants, the distributed loads, the
composition of the policies, and the JWT provider. Each `MC` module instantiates
one of them. Runs stay at two owners, keys or processes and two or three threads; the
theorems are those that hold for any number of them.

What would come next: pipelines that hold a policy twice, which need a count and a timer
per layer, and a type invariant for `JwtProvider` apart from its proof. The type
invariants (`TypeOK`, `AsyncTypeOK`, `PipeTypeOK`) document the variables; they are proved and
in no run.

## 3. The Redis lock

### State and actions

`RedisLease` models one lock name. `lease`, `counter` and `history` are the three
Redis keys. `wire` holds the script calls sent and not yet executed; `Serve`
executes one atomically, as Redis does, and puts the reply where the caller waits
for it (`op`). `TimeOut` ends a wait with an uncertain outcome and either drops the
request or leaves it on the wire without a reader, so that it is executed at any
later time; `Refuse` is a definite error. `validate_client` in `_support.py` refuses a
client with retries, so a script is sent once.

An attempt is one call of `try_acquire`. It draws one owner token and yields at
most one handle, so the attempt names both. `state`, `worker`, `stop` and `scope` are
the handle's `_state`, `_worker` with `_worker_ready`, `_stop_event` and the thread
inside the `with` body. Threads of a handle interleave at every script and at every
wait, never inside a section that `_condition` protects.

| Code | Actions |
|---|---|
| `try_acquire`, `_reconcile_acquire` | `TryAcquire`, `AcquireReply`, `AcquireAgain`, `ReconcileAcquire` |
| `renew`, `is_held` | `Renew`, `IsHeld`, `ProofReply` |
| `__enter__`, `_start_worker` | `Enter`, `EnterReply`, `StartWorker`, `StartWorkerFails` |
| `_renew_loop` | `WorkerWakes`, `WorkerReply`, `WorkerCrash` |
| `release`, `__exit__`, `_stop_worker` | `Release`, `Exit`, `StopReady`, `StopJoin`, `StopExpires` |
| `_release`, `_dispatch_release`, `_reconcile_release` | `ReleaseCheck`, `ReleaseReply`, `ReconcileRelease` |
| Lua scripts | `ServeGrant`, `ServeNoGrant`, `ServeRenew`, `ServeProbe`, `ServeReconcile`, `ServeRelease` |
| environment | `TimeOut`, `Refuse`, `Tick`, `Crash`, `LoseKey`, `Overwrite` |

Time is kept in relative timers (PTTL, rest of the minimum lease, rest of the
waiting budget) that `Tick` counts down together; a record whose PTTL is 0 is still
stored until the next tick, as in Redis. Client deadlines may strike at any time,
which covers every choice of `socket_timeout`.

A late probe or reconciliation writes nothing and has no reader, so `Orphaned`
keeps only calls that write. Values that no script wrote are one model value,
`Foreign`. Names, key formats and the encoding of the record are left out: all
scripts of one lock use the same three keys.

### The abstract lock

`FencedLock` is the promise of `DistributedLock`: nobody gets the lock while
somebody holds it, an owner token gets it at most once, and every grant has a
larger fencing token than all before. The mapping takes the lease record for the
hold.

### Runs

| Run | Instance | Shows |
|---|---|---|
| `lease_worker` | two owners, auto-renewal, every operation, lease of 2 ticks, one thread for each handle | the minimum lease is kept; a released handle leaves no more than the minimum lease; the release waits for the worker; only the owner's release ends a live lease |
| `lease_faults` | two owners that acquire and release, two tokens, lease and waiting time of 1 tick, no minimum lease, crash, loss of a key, foreign lease | fencing; the refinement of `FencedLock`; under fairness, the lease of a dead process ends for good |
| `lease_live` | two threads and the worker on one handle, crash, a new counter or one at its limit, under fairness | an entered handle is never left alone, also when its worker cannot be started; an ended handle stays ended; every call returns |

Bounds. Two owners are enough for every property, which compares at most two
handles. Two threads of a handle are enough for a read of the state, a script and
the application of its reply to interleave with an end of the handle; the worker is
a third actor. A lease of one tick expires and can be renewed; the runs about the
minimum lease use two, so that a lease longer than its minimum exists; the run about
fencing has no minimum, so that the second owner can follow at once. `MaxFence` is
the largest Redis integer, 2 everywhere: two owners can hold one token each. `Issued`
is what the counter may show at the start, and in `lease_live` it may be at its limit,
where an acquire is refused. The number of attempts bounds the number of grants, so no
other bound is needed.
Deadlock is checked: `Tick` is always possible, so the liveness runs say more.

Fairness: threads that wait for a reply or a bounded join go on, the worker runs,
socket timeouts strike, and time passes. The client requires finite timeouts and
the joins have deadlines, so this is what the code guarantees. No fairness is
assumed of the server, which may never execute a script, or of callers, who need
not release.

### The asynchronous lock and its elector

`AsyncRedisLease` keeps the keys, scripts, wire and clocks of `RedisLease` and
replaces the threads by tasks of one event loop. A step runs from one `await` to the
next. A handle has its callers' tasks, the renewal task (`Worker`) and the cleanup task
(`Cleanup`), which releases the lease once and is shielded from the cancellation of
whoever waits for it.

| Code | Actions |
|---|---|
| `try_acquire` | those of `RedisLease`, `CancelAcquire` |
| `renew`, `is_held` | `AsyncRenew`, `AsyncIsHeld`, `AsyncProofReply`, `CancelProof` |
| `__aenter__` | `AsyncEnter`, `AsyncEnterReply`, `CancelEnter` |
| `_renew_loop` | `TimerFires`, `RenewLoopStops`, `RenewLoopRenews`, `RenewLoopReply`, `RenewLoopTimeout` |
| `release`, `__aexit__`, `_stop_renew_task` | `AsyncRelease`, `AsyncExit`, `StopDone`, `RenewSettled`, `RenewStopExpires`, `RenewOutlives`, `RenewTaskStopped` |
| `_await_cleanup`, `_wait_task`, `_wait_task_until` | `AwaitCleanup`, `CleanupDone`, `Settle`, `CleanupExpires`, `CleanupOutlives`, `CleanupStopped`, `CancelWait`, `KeepCancel` |
| `_release`, `_reconcile_release` | `AsyncReleaseCheck`, `AsyncReleaseReply`, `AsyncReconcileRelease` |
| `run_if_leader_result` | `RunAction`, and `RunEnds` in every action that ends its scope |

`_wait_task` gives the task it waits for an envelope, cancels it at the end of that
(`CleanupExpires`, `RenewStopExpires`) and waits for a grace period of 0.1 s more. The
task may end before (`CleanupStopped`, `RenewTaskStopped`) or outlive the grace
(`CleanupOutlives`, `RenewOutlives`): how long a client takes to pass a cancellation on
is not in the code's hands. Then the handle is `UNKNOWN`, the call raises, and the task
goes on alone until the client lets it end; whatever it has sent may still be executed.

`cancel` follows a cancellation of a waiting call: it is pending until the task runs
again, is then kept for later, or is lost when the task waited for has ended by then.
After `create_task` failed in `__aenter__` the wait keeps no cancellation (`"deaf"`),
because the call raises that failure anyway. `run`
is the progress of an elector that makes the attempt, or `"none"` for a handle used
directly. A cancelled client call leaves its script on the wire or not (`Abandon`).

| Run | Instance | Shows |
|---|---|---|
| `lease_async` | a handle with two tasks, one in the scope and one beside it, or an elector; the lock is new or a dead process has left its lease; lease of 1 tick | the cleanup task runs unattended only when it outlived envelope and grace, and then the handle is `UNKNOWN`; `Elected` and `ActionFailed` mean a confirmed release; `LOST` is true; an elector's release follows its renewal task |
| `lease_async_cancel` | the same | a violation: see the findings |

A second live owner would repeat what the synchronous runs check of the scripts: here
the second attempt is a predecessor whose lease is in the way and expires. Liveness
of the asynchronous lock is not stated: its waits are bounded by `asyncio.timeout` in
every case, which the model replaces by deadlines that may strike at any time.

## 4. The local caches

### State and actions

`CacheState` holds `_CacheState` as operators from a cache to a cache: `Purge`,
`Touch`, `Put`, `Evict`, `Rebuild`, `Store`, `Invalidated`, `Cleared`, `Drop`. Values
are left out: an entry differs from another of its key in expiry and version. The
order of the `OrderedDict` is the relation `older`; the heap is a set of nodes,
since the order of nodes that expire together makes no difference. Of the sequence
numbers only what tells apart two nodes with the same key, expiry and version is kept
(`Push`); such nodes exist when a version was dropped and counted up again. Counters of
`stats()` are left out: nothing reads them back.

`TTLCache` adds flights and threads. Every public operation runs under one `RLock`
and is one action: `Get`, `Sweep` (`len`, `stats`), `Set`, `Invalidate`, `Clear`, and for
`get_or_load` `LoadHit`, `Join`, `Reject`, `BeginLoad`, and `FinishLoad` for
`_finish_flight`. Loaders run outside the lock, so anything may happen between
`BeginLoad` and `FinishLoad`, including calls of the loader itself; `stack` holds the
loaders that run inside each other in a thread. The clock is the caller's: it may
step back (`Now` clamps it) or raise (`SetFails`, and `clockOk` in `FinishLoad`). A raise
in `get`, `invalidate` or `clear` comes before any change and is no step. A flight is
named by its thread and key, because `RecursiveLoadError` refuses a second one.
`stale` in a flight is auxiliary: it remembers that the key was mutated since the
load began, independently of versions and epochs.

### Runs

| Run | Instance | Shows |
|---|---|---|
| `cache_loads` | two keys, capacity 1, three threads, two flights, a loader inside a loader, instants 0 to 2 | no expired entry stays; the limits of entries, heap and flights; single flight; stale loads publish nothing; versions are dropped; no threads wait for each other in a circle; under fairness, whoever waits gets the outcome |
| `cache_aba` | two keys, capacity 1, lifetimes 1 and 2, instants 0 to 3, one loading thread | a violation: see the findings |
| `cache_async` | two keys, capacity 1, two tasks, two flights whose loaders may call the cache | see below |

Bounds. Capacity 1 with two keys evicts on every second write, and the heap is
rebuilt after the third. Three threads are one owner of a superseded load, one
owner of the load that follows and one waiter. `MaxVersion` caps the mutations of a
key while its version is kept, `MaxEpoch` the calls of `clear`, `MaxTick` the clock; one
version and one epoch are enough for a load to be overtaken by a mutation, and the
load after it by another. `Nested` says which loader may load which key. In `OneWay` a
loader may ask for its own key again, which `RecursiveLoadError` refuses, and the loader of
one key for the other. It has no cycle of different keys, since loaders of two threads
that load each other's key wait for each other for ever, which the code leaves to its
callers.

Fairness (`cache_loads`): each running loader ends. It is strong fairness per thread
and depth of the stack, because a loader that calls the cache again cannot end
while its inner load waits. Nothing else is assumed.

### The asynchronous cache

`AsyncTTLCache` has the same `CacheState` under tasks of one event loop. The lock is
never held at an `await`, so an operation is one step. A load runs in a task of its
own (`BeginLoad`, or `BeginFails` when the task cannot be created; `FinishLoad` is
`_complete_async_flight`). Its callers wait for a shield of it: `Cancel` is the
cancellation of such a caller, and `Release` is `_release_waiter_locked`, through which
every caller leaves. The last one to leave a running load abandons it (`Abandons`): the
load is taken out of `_active_flights`, the version of its key moves on and its task is
cancelled. A loader may suppress that cancellation and return, so an abandoned load
still ends by `FinishLoad` with any result; the cancellation also reaches a nested
load its loader waits for. A flight is a caller when its loader calls the cache, with
the `_LOAD_SCOPE` of its callers (`scope`). `FlightIds` bounds the flights that run or
are still waited for.

`cache_async` shows that a load is abandoned exactly when nobody waits for it, that
nobody joins an abandoned or outdated load, that such loads publish nothing, and
that everyone who waits returns. The clock stands still in it: expiry is the code
of `CacheState`, which `cache_loads` runs and `CacheStateProofs` is about. Fairness is
weak for the release of a caller, which the event loop runs, and strong for the end of
a loader, as above.

## 5. Loads through Redis

`LoadCoordination` models one cache key that several processes load. A flight is one
call of `_distributed_load`, started by a miss of the local cache; the local cache
itself is in the modules above. `marker` and `result` are the two Redis keys,
`provider` and `active` are `_state` and `_active` of a provider. A flight draws a fresh
owner token for every attempt.

| Code | Actions |
|---|---|
| `get_or_load`, `_distributed_load`, `_run_flight` | `GetOrLoad`, `Acquire`, `AcquireReturns`, `Poll`, `SnapshotReturns`, `PollAgain` |
| `_run_owner`, `_cleanup` | `LoadReturns`, `LoadRaises`, `PublishReturns`, `Cleanup`, `CleanupReturns` |
| cancellation in `_async_coordination.py` | `CancelFlight`, `CancelOwner` |
| `_admit`, `_release`, `_execute` | `Admit`, `Release` in the actions that send a command and take its answer |
| `close`, `aclose` | `BeginClose`, `Drained`, `CloseReturns`, `CancelClose`, `CancelledCloseReturns` |
| commands and scripts | `SetIfAbsent`, `PublishIfValue`, `DeleteIfValue`, `Snapshot`, executed by `Serve` |
| environment | `CommandFails`, `InvalidResponse`, `ServeLate`, `DeadlinePasses`, `Tick` |

A command that fails was executed, was never sent, or is executed at any later time
(`late`). `orphaned` is auxiliary: the tokens of which a command failed or met a closed
provider, the only ones that may leave a marker without an owner. An envelope is its
token, its compression and its size; `DecodeMatching` refuses a compression without a
reader. `max_encoded_size` is set per codec (`Limit`): a process writes envelopes up to
its own limit and ends with `INVALID_ARTIFACT` when it reads a larger one, or a marker
that `_parse_marker` refuses. With `Foreign` something else may have written such a
marker, which has no time to live and stays. Results that something else wrote are left
out: `decode_matching` finds no match in them or raises, as it does for the envelopes
of the model. A failure with `INVALID_ARTIFACT` is told apart by its reason in `outcome`.

The run `cache_redis` has a synchronous process that writes `zstd` envelopes of one or
two units, an asynchronous one that cannot read `zstd` and takes one unit, a lease key
that may be malformed, a closer of either provider, two attempts, two polls and keys of
one tick. It shows that an active marker has an owner that will still end it, that a
completed marker comes with its result (no flight finds it missing, too large without a
larger limit elsewhere, or malformed without a foreign marker), that a client is closed
only without commands, and that every flight and every closer returns. Two flights are an owner
and a waiter, or two owners after an expiry; two attempts and two polls are a first
and a last one. Fairness: tasks and threads run, a loader
returns or raises, and a command ends, because a coordinator accepts only providers
whose command policy is bounded and without retries (`CommandEnds`). The deadline of a
flight and the expiry of keys are not needed, so the budgets alone end a flight.

## 6. The resilience policies

### Circuit breaker

`CircuitData` holds `_CircuitData` as operators from a circuit to a circuit: `Tried`,
`Admits` and `Admitted` are the steps of `admit`, `Ignored`, `Succeeded` and `Failed` are
`ignore`, `succeed` and `fail`. `CircuitBreaker` lets several calls run over it. A call
takes the lock twice, at its admission (`Admit`, or `Reject` for `CircuitOpenError`)
and at its end (`Succeed`, `Fail`, or `Release` for every end that is not counted: the
predicate declines, the observer, predicate or clock raises, the operation is
interrupted). Operation, predicate and observer run between the two. The clock is
read before the lock is taken, so `Admit` decides on any earlier reading and the end
of a call on any reading since its admission. `fresh` is auxiliary: the running calls
admitted since the circuit last changed state, tracked without generations.

`AsyncCircuitBreaker` has both breakers; `loop`, chosen at the start, says which one
was constructed. A task never holds the lock at an `await`, so the lock is free
whenever a task asks for it, and admission and end are one step each with an
up-to-date clock. Cancellation ends a call by `AsyncRelease`. `BindLoop` is `_bind_loop`;
`Observe` is `snapshot()`, which binds too. That a call runs only in the loop of its
breaker is proved (`OneLoopCorrect`); it is a check on entry, on which no run spends a
property. The events are left out.

### Bulkhead

`Bulkhead` models both bulkheads; `kind`, chosen at the start, says which one was
constructed and whether `max_wait` is positive. A caller is outside, waits on the
condition, was notified and did not look again yet, or runs. `Enter`, `Reject` and
`StartWait` are the first look of `_acquire`, `Wake` is the loop around `wait`. A thread
whose time is up looks for a permit once more (`Expire`); a task is thrown out by its
timeout or its owner (`Abandon`), even when it was notified, and
`asyncio.Condition.wait` then notifies another one (`PassOn`; Python 3.13, which the
package requires). `Release` is `_release`, however the operation ended. Notifications
go to any waiter, which covers the order of the condition's queue. Deadlines may
strike at any time. The binding to an event loop is the same code as in the circuit
breaker and is modelled there.

### Pipelines

`Pipeline` composes the policies. `setup.order` is `_policies` of a pipeline, its first
policy the innermost; `setup.retryAll` says whether `retry_if` accepts refusals of other
policies. A call goes down through the policies to the operation (`RetryBegins`,
`TimeoutBegins`, `CircuitBegins`, `BulkheadBegins`), and its outcome comes up through them
(`RetryEnds`, `RetryScheduled`, `TimeoutEnds`, `CircuitEnds`, `BulkheadEnds`); `RetryAgain`
is the end of a backoff. The permit of the bulkhead that all calls share is taken and
given back by the actions of `Bulkhead`; the breaker only admits or rejects, at any
time. Wherever a policy emits an event the observer may raise, and a backoff may raise.
`TimerFires` and `OwnerCancels` cancel a task where it can be suspended: in the operation,
in a backoff, in the wait for a permit, and where the breaker or the bulkhead takes its
lock again, which remembers the cancellation and raises it afterwards. An operation is
taken to let `CancelledError` through, which is what asyncio asks of it; `StopsWhenTold`
says nothing of one that swallows it.

### Runs

| Run | Instance | Shows |
|---|---|---|
| `circuit` | either breaker, four calls, one of them in another event loop, two failures open, two probes, two successes close, instants 0 to 3, failures until 2, under fairness | slots are counted exactly; late ends are harmless; the circuit recovers |
| `pipeline` | three calls, one permit, all four kinds of bulkhead, two attempts, three orders of policies, under fairness | the counters; no lost wake-up; no permit leaks; a call that was told to stop only unwinds; no idle permit |

Bounds. `MaxTick` bounds the clock and with `OpenDuration = 1` the number of times the
circuit is tried again: four instants suffice for a call to outlive an opening, a
trial and a closing, or a second opening. Two probes and two successes tell a slot
that leaks from one that is given back, and four calls are two probes and two calls
of the past. The last instant is for recovery. Three callers with one permit are one
that runs, one that was notified or sleeps, and a newcomer. The three orders have the
retry outside a timeout and the bulkhead, inside the bulkhead, and outside a breaker;
two attempts are one that is retried and the last.

Fairness. `circuit`: time passes, an operation ends with success once the outage
is over, and callers keep calling with an up-to-date clock; the breaker has no
thread of its own, so nothing happens without callers. `pipeline`: a thread or task
that was notified gets to run. No operation has to end and no deadline has to strike
for `NoIdlePermit`.

## 7. JWT

`JwtProvider` models `_repository.py`, `_cache.py`, `_provider.py`, and of the claims and
profiles what depends on time. A mutation publishes a new immutable snapshot with the
next epoch under a lock and is one action: `AddVerificationKey`, `Rotate`, `Retire`,
`Revoke`. `Issue` is `issue` of the policy decorator and of the provider, with one reading
of the clock. A verification is several steps, because repository and cache may
change between them: `VerifyBegins` takes the snapshot, `CacheHit`, `CacheMissRefused` and
`CacheMissVerified` read the clock and look into the cache, `LiveEpoch` reads the epoch
of the repository again, `Store` writes to the cache. `ClockFails` and `LiveEpochFails` are
the errors of clock and repository, `Malformed` a token refused by its shape. `Evict` is
what the local cache underneath may do at any time; its failures, which the provider
raises, are left out.

A token is its form, key identifier, signing key and claims; a signature is valid for
the key that made it. Instants are fractions of a second, since the payload has whole
seconds (`NumericDate`). Issuer, audience, types and custom claims are one flag, `fits`.
Clocks show any of `Instants`. `barred` and `banned` are auxiliary: what was revoked when a
verification began, and at all.

The run `jwt` has two threads, two identifiers, three keys (two under one identifier,
one of them of another algorithm), every repository the constructor accepts at the
start, one token issued and three foreign ones. One issued token is enough, since
verifications of different tokens meet only in the epoch of the cache. The number of
epochs is bounded by itself: an identifier is added, retired and revoked at most once.
It shows that a verification decides as it would without a cache, that the cache
holds entries of one epoch, and that a revocation is final for every verification
that begins after it.

## 8. Proofs

All proofs hold for every value of the constants that satisfies the named
assumptions: any number of attempts, threads, keys, any durations and limits.

### The Redis lock

`RedisLeaseProofs` is about both locks. What they share (keys, scripts, wire, clocks,
acquisition) is in `Base`, which both invariants contain, and its lemmas are stated for
any set of places a thread or task can be in (`Fits`). The steps of either lock are
grouped by what they do to the wire and the replies (`Frame`: a local step, a dropped
call, a served call, a fading of the server's keys), so that each conjunct of `Base` is
shown once per group and not once per action, and once for both locks. Assumed are
`TimeAssumption` (positive lease time, minimum lease at most the lease time, as
`LeaderElectionOptions` enforces), `NameAssumption` (names are different),
`OptionAssumption`, and `CleanupAssumption` (the cleanup task is no caller) in the part about the
asynchronous lock.

Of the synchronous lock `Spec => []IInv` is proved and from it types,
`FenceIdentifiesHandle`, `LostForGood`, `NoneHoldsNothing`, the action properties
`GrantsIncrease`, `EndedStaysEnded`, `OnlyOwnerEndsLease`, `EnteredIsAttended`, and the
refinement of `FencedLock`. None of these is inductive. That a token is granted at most once needs
`AcquireInv`: at most one acquire call of a token can still be executed, and none
after a grant, although the caller may sleep and send again; that in turn needs
`WireInv` (a thread waits for at most one call, and has no reply meanwhile) and
`ControlInv` (`try_acquire` runs in one thread, before there is a handle). That tokens
increase after the loss of one persistent key needs `KeyInv`: counter and marker
together bound the tokens issued. `GrantInv` follows a fencing token through
replies, calls and handles, and `LossInv` says that a reply that reports a loss
stays true, which holds because no acquire call of that token is left.

`EnteredIsAttended` is shown step by step: a thread that leaves one of the places in
`Attending` has ended the handle, has entered the body, or goes to another of these
places (`ThreadHands`), the release or the join of the worker when the worker cannot be
started; and nobody else moves it from there (`AttendedStep`).

`MinimumLeaseKept` follows from `MinInv`: the record outlives the minimum lease of its
owner, because every call on the wire that sets its lifetime asks for at least what is
left of the minimum, however late it is executed. The theorem has the hypothesis
`LongRenewals`: a caller that renews for less than the minimum lease gives up the rest.
The run has it too, with `RenewTimes = {2}` and a minimum lease of 1.

`ReleaseAfterRenewal` and `ReleasedSoonFree` are proved for handles that one thread uses
(`OneUser`), beside the renewal worker. `SoloInv` says where thread and worker can be,
that the worker has ended when a release is sent, and that a renewal that may still be
executed has made the handle `UNKNOWN` or `LOST`, after which no release is sent.
`SoonInv` adds that a record whose release was confirmed, to a caller or to the handle,
lasts for the minimum lease at most. With a second user of the handle both properties
are false (section 9), so the hypothesis is needed.

Of the asynchronous lock `AsyncSpec => []AsyncInv` is proved. Its parts are `Base`,
`AsyncTypes` and, for each handle, `Seated` and `Elector`. `Seated` says at which places
callers, renewal task and cleanup task can be, that the cleanup task runs exactly while
it is at one of its own, and that somebody waits for it unless it was told to stop and
the handle is `UNKNOWN` (`CleanupNotDetached`). `Elector`
is what holds of a handle that only an elector uses (`Single`): one task at a time, nothing
under way inside the scope, a renewal task that has ended before cleanup begins
(`ReleaseAfterRenewTask`), a cleanup that ended well only when the handle is `RELEASED`, and
a result only after such a cleanup (`ResultMeansReleased`). None of this holds of a handle
that tasks share, whose calls overlap. `Base` gives `LostForGood`,
`FenceIdentifiesHandle`, `NoneHoldsNothing`, `GrantsIncrease`, `OnlyOwnerEndsLease`, and
with `LongRenewals` `MinimumLeaseKept` for tasks. `AsyncLock` says that every step is one
of `FencedLock` or leaves it alone; it is no refinement of `Lock!Spec`, because the lock
may start with the lease of a dead predecessor. `EndedStaysEnded` is not claimed of the
asynchronous lock: the cleanup task sets the state without looking at it.

### The local caches

`CacheStateProofs` has one lemma per operation of the cache state: it keeps the
type, the heap node of every entry (`HasNodes`), the expiry (`Timely`) and the absence
of spare versions. `TTLCacheProofs` uses them for `IInv` of the cache:
`HasNodes` is why `NoExpiredEntry` is inductive, `FlightInv` (a load that was not
superseded is the one callers join) is why `SingleFlight` and `JoinsFreshLoad` are.
`StaleLoadsPublishNothing` follows because only the active flight publishes and the
active flight is not stale: the versions and epochs the code compares as well are
not needed for it.

`BoundedCorrect`, and `CapacityKept` of the asynchronous cache, are about the three limits:
entries, heap nodes and running loads. They need `Within`. An eviction must find an entry to evict, so
the order of use must have a first key after any history of hits, overwrites, expiries
and evictions: `older` is well-founded, and `move_to_end` keeps it so because nothing
comes after the key that moves. And a push must add exactly one node (`PushCounts`): the
numbers of nodes that are alike have no gap (`Numbered`), because such nodes
expire together and leave together. `Ordered` adds that of two entries one was used
before the other, and then the victim is unique: `EvictsLeastRecent`, for both caches.

`DeadlockFree` says of both caches that nobody waits in a circle. `StackInv` (`NestInv` for
tasks) says that loaders begin inside each other as `Nested` lets them, and that one waits only
for a key that it may load, and not for its own. The hypothesis of the theorem is that `Nested` without the pairs of a key
with itself is well-founded; with a cycle of two keys the theorem is false, so it is what
callers have to see to.

`FreshLoadsPublish` is the other direction of `StaleLoadsPublishNothing`: a load that
nobody superseded may publish. `StampInv` is why: the flight that callers join has the
epoch and the version of its key, which no expiry or eviction moves while the key is
owned. `WritesKept` says that `set()` and such a load find their entry in the cache after the
step, with its own lifetime: the purge of `store` comes before the new entry, and the eviction
after it takes another key, also with `max_size` 1.

`AsyncTTLCacheProofs` uses the same lemmas about the entries for `AInv`. Its part about
the loads, `WaitsOK`, counts waiters: a join or a release moves one caller to or from a
flight (`CountJoin`, `CountLeave`), and a running load is abandoned exactly when its count
is zero. `AbandonedWhenAlone` is that count, and `LateLoadsPublishNothing` follows from
`JoinsOK` as for threads. `SingleFlightCorrect` says that two loads of a key that were neither
superseded nor abandoned are one (`FreshInv`). That such a load may publish does not hold
here; `FreshLoadsSpoilt` says in which case only it may not (section 9). Assumed are finitely many tasks and flights, and a key.

### Loads through Redis

`LoadCoordinationProofs` proves `LInv`, with types and the three invariants of the run.
That an active marker has an owner is no invariant by itself. A token is used once:
those in the marker and in `orphaned` are of the flight's present attempt or of an earlier
one (`FlightOK`), and every command that may still be executed late is of an orphaned
token (`LateOK`). After the reply to a publication or a cleanup the marker is not the
owner's any more, and an owner that loads believes in its lease at least as long as Redis
keeps it. A completed marker comes with its result because one script writes both, with
the same time to live (`RedisOK`); every envelope in Redis is within the limit of the
process that wrote it, so an oversized one tells of a larger limit (`Possible`). `ProviderOK` counts the commands of a provider by the
places of its flights; the count is a cardinality, hence the assumption that there are
finitely many flights.

### The resilience policies

`CircuitBreakerProofs` proves types, `SlotsCounted` and `LateEndsHarmless` from
`GenerationInv`: `fresh`, which is defined by what happened, is the set of running
calls whose generation is the circuit's; no running call is of a later generation;
and a fresh call is a probe exactly when the circuit is half-open. Without the
second part a transition could make an old call fresh again.

The part of `PipelineProofs` about the bulkhead counts
callers by place: a step moves one caller (`MoveStep`), or moves one and notifies
one (`LeaveStep`). `NoLostWakeup` is inductive together with the counters: a permit
that is given back, or a wake-up that is passed on, adds a notified caller as long
as one sleeps, and a notified caller stops being one only by taking a permit, by
finding none, or by passing its wake-up on. Assumed are finite sets of calls and
callers and positive limits, as the constructors enforce.

`CircuitBreakerProofs` also shows that a breaker of either kind implements
`CircuitBreaker!Spec` (`AsyncImplements`), so the theorems about slots and late ends hold
for tasks too, and that calls run only in the loop of the breaker.

`PipelineProofs` shows that a pipeline uses its bulkhead as `Bulkhead` allows
(`PipelineImplements`), which carries the counters and the wake-ups over, and then
`NoPermitLeak`, `StopsWhenTold` and the limit of attempts (`AttemptsBounded`) for every order
of the policies in which retry, timeout and bulkhead come once at most. The code allows
a policy twice; the model has one count of attempts, one timer and one place
in the bulkhead for a call. The invariant `PInv` says where a call may be in the pipeline for each of its
places in the bulkhead: it waits only on its way down at the bulkhead, and it runs
exactly while it is inside. A call that a timer or its owner told to stop is on its way
up with `CancelledError`; this is kept because every policy passes that error on before
it looks at anything else.

### JWT

`JwtProofs` proves the three properties of `JwtProvider` from `JInv`: an epoch names
one set of keys, in the repository and in all snapshots that verifications still hold
(`RepoOK`); a cached token was accepted with the keys of its epoch, and all entries are
of the epoch observed last (`CacheOK`); a running verification has decided what its
place says (`JobOK`). Neither part is inductive alone: an entry stored late is harmless
only because its epoch is compared with that of the repository and epochs are never
used twice. Assumed is `KeyAssumption`, which the constructors enforce.

### Only model-checked

The liveness properties (`CallsReturn`, `CrashedLeaseEnds`, both `WaitersReturn`,
`EveryoneReturns`, `Recovers`, `NoIdlePermit`) are out of the reach of the prover. Every
other property of the passing runs is a theorem.

## 9. Findings

1. `lease_async_cancel`: while a call waits for the renewal or the cleanup task,
   `_wait_task` leaves its loop on a `CancelledError` if that task is done, and forgets
   the exception. A cancellation that arrives in the turn of the event loop in which the
   task ends, before the caller runs again, is swallowed, and the call ends as if it had
   not been cancelled. One that arrives earlier is kept, also at the end of the
   envelope. The README of `bluetape-leader` promises that `CancelledError` is raised
   again after the cleanup. In TLC's trace the cleanup of a `release()` is cancelled at
   the end of its envelope, the caller is cancelled, the cleanup ends in the same turn,
   and the call raises the failure of the cleanup instead.
2. `cache_aba`: `drop_unused_version` forgets the version of a key whose heap node is
   still there; the next entry of the key gets the same version and is expired by
   the old node. `set(k, ttl=10)`, `invalidate(k)`, `set(k, ttl=100)` expires after 10.
   An entry is lost early, never kept too long.

Two observations about a synchronous handle that several threads use, which no run
is about. `_stop_worker` sets `UNKNOWN` when its bounded wait runs out, without looking
whether the handle is `RELEASED` or `LOST` already; `EndedStaysEnded` is what does hold: an
ended handle is never live again, and `UNKNOWN` is final. And a `renew()` of another
thread that is executed after a release gives the released record its full duration
again. Within one thread, and for the renewal worker, it cannot happen
(`ReleasedSoonFree`).

One about the asynchronous lock. `src/packages/bluetape-leader/README.md:190-192` says that
a cancelled operation "does not detach background work". A client that takes longer than
the grace of 0.1 s to honour a cancellation leaves the cleanup task, or the renewal task,
running when the call returns (`_async_lock.py:553`); the handle is `UNKNOWN` then, which
tells the caller that the release may still come. `CleanupNotDetached` says exactly this.

One about the asynchronous cache, which the proof of `FreshLoadsSpoilt` led to. When the
last caller of a load leaves, `_release_waiter_locked` bumps the version of the key even if
that load was superseded before and another load of the key runs. A caller loads a key;
`clear()` supersedes the load; a second caller starts a new one; the first caller is
cancelled. The result of the new load, which nobody superseded, is returned to its
caller and not stored, so the next `get_or_load` loads again. Nothing stale is published.

## 10. Not modelled

The components with status `not_modelled` in `PROJECT.json` convert or validate data,
wrap a library, or keep state for one call or under one lock: serialization,
compression, codecs, money, measures, audit values, identifiers, observability,
bounded gathering, and the development tools. They have no interleavings for a model
to explore, and their byte formats are what their unit tests are good at.

Left out of the modelled components: logging, events and metrics, validation of
arguments, key names and byte formats; the budgets that `_support.py` computes from the
client's timeouts, since any deadline may strike at any time in the model; the
synchronous elector, which has no state; `get`, `set` and `delete` of the Redis
providers, which use the admission that is modelled; the binding of the asynchronous
cache and bulkhead to one event loop, which is the check the breaker has; failures
of the cache under a JWT provider; the cryptography.
