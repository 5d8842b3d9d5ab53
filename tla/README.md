# A TLA+ model of the serverless platform

The platform accepts function packages and invocations over HTTP, stores them in
PostgreSQL, hands them to workers through a transactional outbox and a Redis
Stream, and runs them in Docker containers. This directory holds TLA+ modules of
these parts, TLC configurations that check them on small instances, and proofs
for TLAPS. Line numbers refer to `src/`; `PROJECT.json` maps every definition to
the lines it models.

## 1. The system: components, state, operations

| Component | State | Operations | What makes it correct |
|---|---|---|---|
| Function registry, `services/function_registry.py`, `routes/functions.py` | rows of `functions` and `function_versions` | create function, create version (JSON), upload version | version numbers without gaps, one owner per number, rows that stay what they were |
| Package storage, `services/storage.py` | one file per function and version number | validate and write a package | a registered version has its package, whole and unchanged |
| Invocation API, `services/invocations.py` | rows of `invocations`, the first outbox row | accept an invocation, idempotency key, version resolution | one invocation per key, a version that was deployed |
| Rate limiter, `services/rate_limiter.py` | a hash in Redis per user | consume (a Lua script) | granted tokens are bounded in every window, Retry-After is right |
| Outbox dispatcher, `services/dispatch_outbox.py`, `dispatcher.py` | rows of `invocation_dispatches`, an open transaction | select a batch, publish each row, commit | no row lost, none marked published that was not |
| Redis Stream (external) | entries, group cursor, pending list | XADD, XREADGROUP, XACK, XPENDING, XCLAIM | — |
| Invocation state, `worker/.../invocation_state.py` | rows of `invocations`, `invocation_attempts` | mark_running, mark_finished | numbering of attempts, final statuses |
| Worker, `worker/app/main.py`, `executor.py`, `consumer.py` | main loop, task coroutines | recover, claim, read, execute, acknowledge, shut down | one execution at a time, bounded tasks, acknowledge last |
| Heartbeat and recovery, `heartbeat.py`, `recovery.py` | rows of `workers` | register, heartbeat, find stale workers, take their attempts | only the lost work is taken, all of it, once |
| Retry policy, `retry.py` | — | decide, classify errors | attempts are bounded |
| Docker executor and runner, `docker_executor.py`, `runner.py` | containers; input, log and result file of an invocation | execute | what is reported happened, nothing is left behind |
| Metrics and status API, `services/metrics.py`, `routes/workers.py` | what a request has queried so far | put a summary together from several queries | numbers that fit together, counters that never fall, percentiles that are ones |
| Authentication, frontend, benchmarks, migrations | | | not modelled, see section 8 |

How they interact: a request inserts the invocation and its outbox row in one
transaction. A dispatcher publishes due rows and marks them published in one
commit *after* publishing, so a message may be sent twice. A worker reads
messages into tasks; each task commits `mark_running`, executes, commits
`mark_finished` (which may insert the outbox row of the next attempt), and then
acknowledges. At the top of its loop every worker looks for workers whose
heartbeat is stale, moves their running attempts to RETRYING or FAILED, claims
their pending messages, and marks them OFFLINE.

What is hard about it: the four stores (rows, outbox, stream, pending list) are
updated one after the other and a crash may fall between any two; messages are
duplicated, reclaimed and reordered; a recovery races the worker it declares
dead and other recoveries; retries and recoveries share one attempt counter
which nobody checks when an attempt starts. `PROJECT.json` lists these as
hazards, each at its line.

## 2. The modules

```
Environment          workers and the faults that may strike
  InvocationStore    rows of invocations, attempts, outbox; their transactions
  RedisStream        the stream and its consumer group (external)
    Dispatcher       the outbox dispatcher
    Worker           heartbeat, recovery, claims, tasks, shutdown, crash
      Platform       the composition, its properties, fairness
        PlatformInvariant    the inductive invariants
          MCPlatform         symmetry sets for TLC
          StepFacts          lemmas about single steps
            LedgerProofs, OwnershipProofs, CarryProofs   lemmas, one per action and conjunct
              PlatformProofs the theorems
InvocationContract   what a client may rely on; Platform implements it
FunctionRegistry     functions, versions, packages
  InvocationApi      invoke requests next to registry requests
TokenBucket          what a rate limiter promises
  RateLimiter        the Lua script; implements TokenBucket
    ApiProofs        theorems about InvocationApi and RateLimiter
    MCControlPlane   InvocationApi and RateLimiter for TLC, with symmetry
RuntimeExecutor      the inside of Worker's action execute
  RuntimeProofs
WorkerHeartbeat      the row of one worker and everybody who writes it
PlatformMetrics      a dashboard summary over an InvocationContract
  Monitoring         the two together: what an operator sees
    MonitoringProofs
```

**InvocationStore.** `status`, `attempt_count`, `completed_at` are the columns of
`invocations`; `attempt_status` and `attempt_worker` those of
`invocation_attempts`, keyed by invocation and number; `dispatches` is the state
of an outbox row (`NONE`, `delayed` until `available_at`, `available`,
`published`). Time is one bit per invocation (`deadline_passes`) and one state
of an outbox row (`backoff_elapses`). `start_verdict` is the decision tree of
`mark_running` with its order of checks: start, expire, refuse and acknowledge,
or raise. `mark_finished` checks the attempt status on the object that SQLAlchemy
cached at `mark_running`; the constant `RefreshesAttempt` (FALSE for the code)
says whether it is read again.

**RedisStream.** Entries, the cursor of the group, and the consumer that each
delivered entry is pending for.

**Dispatcher.** A transaction holds locked rows (`held`), the rows it has still to
publish (`batch`) and the ones it has published (`sent`); XADD is visible at
once, the marks only at the commit. XADD may raise for a row, and the whole
transaction may fail after some rows were published.

**Worker.** The main loop is a program counter whose steps are the transactions and
Redis calls of `process_worker_once`; a task is a record in `tasks[w]` that moves
through received, running, executed, ack. Recovery is three steps (select with
row locks, load the invocations *without* locks, commit), as in the code, and so
is a claim (XPENDING, XCLAIM per consumer). `gather` without
`return_exceptions` is modelled: a task that raises makes the loop go on while
its siblings continue unawaited. Faults are actions of their own: a call of a
task or of the loop raises, a reply is lost, the process crashes or is
interrupted, the heartbeat loop dies, a heartbeat is late. A restarted worker
registers as a new one, as in the code.

**InvocationContract.** The promise to the client: queued once, at most
`MaxAttempts` executions one at a time, one final outcome. `Platform` implements
it with the identity mapping on `status` and `attempt_count`.

**FunctionRegistry, InvocationApi.** A request is a process that stops at each
await; requests interleave and are cut off there. An upload takes its number,
reads the body, writes the file, inserts the row; the unique constraints are the
guards of the inserts. A write that fails or is cut short leaves a part of the file.
The commit of a row and the `refresh` before the answer are two steps: a request that
is cut off between them has its row, and its client no answer. Contents of a package
are named by the request that sent them, so that a hash is the name of the contents.

**RateLimiter.** Tokens are counted in units of 1/period of a token, in which every
refill is a whole number. The script computes with doubles and Redis stores them with
17 digits. With the default limit an operation errs by about a 10^9th of a unit, and
the model takes the errors to add up to less than one unit: they then show only where
the exact numbers tie. A request that costs exactly what a bucket holds may be granted
or refused, and when the missing tokens need a whole number of milliseconds,
`retry_after_ms` may be one more. Both are choices of the model. The clock of Redis runs forward, may be set back, and an observer may begin
a new window at any moment, which makes the bound one on every window. The module
implements `TokenBucket`, a bucket without store, clock or expiry: a stored bucket
that has expired counts as full, and the abstract level at any moment is what a
request would find then.

**RuntimeExecutor.** Each call of `execute_container` is a step that may fail;
the program ends with any envelope or none, exit code 0 or 1, with or without
meeting its memory limit, and an envelope of an error names any class of
`ReportedErrors`, those of the retryable list among them; attempts of the
invocation follow each other and share its files. The assumption that they do not
overlap is `ExclusiveExecution` of Platform. The retry policy decides by the name of
the error class, so the endings of a program are told apart by what they report.

**WorkerHeartbeat.** A finer model of what `Worker` takes as one step. The heartbeat
reads the counters of the process, loads the row, and writes the columns that differ
from what it loaded, as SQLAlchemy does; the shutdown and peers that took the worker
for lost write the same row in between. Tasks enter and leave the `try` block of
`process_tasks` at any time, which is where the counters are moved. Time is kept as
ages up to the stale cutoff.

**PlatformMetrics.** A summary is a sequence of queries, each of which sees what is
committed when it runs. Between them the invocations move by steps of
`InvocationContract`, so that nothing of the workers has to be known. `Platform`
implements that contract while heartbeats are timely, and only then: what is shown of
the metrics holds as long as the contract is kept. With a late heartbeat a final status
may be overwritten (section 4), and then a counter may fall, too. Durations are any sorted list of the right length.

**Monitoring.** The two share no state; `watched` says which of them a behaviour
moves, and their state spaces add up instead of multiplying.

## 3. The runs

| Run | Instance | Properties |
|---|---|---|
| `all_faults` | 2 workers, 1 invocation, 2 attempts, any 1 fault of any kind | `AttemptLedger`, `NoFutureTask`, `PublishedIsInStream`, `LedgerInvariant`; no deadlock |
| `timely_faults` | the same, any 2 faults except late heartbeats | `AttemptBudget`, `ExclusiveExecution`, `AcknowledgedAreServed`, `OwnershipInvariant`, `TerminalIsFinal`, `KeepsContract` |
| `batches` | 2 invocations in batches of 2, claims of 1, 2 crashes or failed publishes | `OfflineMeansRecovered`, `BoundedConcurrency`, `NothingStranded`, `RunningIsOwned` |
| `liveness` | 2 workers, 2 attempts, 1 crash, failed publish or failed dispatcher transaction, fair | `EveryInvocationEnds`, `PendingDrains`, `OutboxDrains`; no deadlock |
| `control_plane` | 4 requests, 1 function, 2 versions, 1 key; a bucket of 3 tokens per 4 ms, clock up to 10 ms | `ApiInvariant`, `VersionsContiguous`, `PackageIsOwnOrOverwritten`, `CreatedIsRecorded`, `OneInvocationPerKey`, `RunsDeployedVersion`; `LimiterInvariant`, `GrantBound`, `RetryAfterIsTight`, `ImplementsBucket` |
| `runtime` | 2 attempts, 2 failed calls or crashes, fair | `LeaksAreAccountedFor`, `TimeoutStopsProgram`, `ServedOutputIsOwn`, `OutcomeIsFaithful`, `RerunHasCause`, `ExecutionEnds` |
| `monitoring` | a worker with 2 tasks and 2 peers; 2 invocations with 2 attempts; fair | `IdleRowIsEmpty`, `StoppedIsOffline`, `SummaryHangsTogether`, `CountersNeverFall`, `PercentilesAreNearestRank`, `SlowWorkerComesBack`, `LostWorkerIsShown`; no deadlock |

Five runs state a sentence of the documentation and show a behaviour of the code
that breaks it:

* `double_claim` (`NothingForgotten`): three workers, two of them crash. Two
  workers list the same pending entry of the first dead worker; XCLAIM with
  minimum idle time 0 lets the second one take it from the first one, which is
  executing it. The second one finds the invocation RUNNING and acknowledges the
  message. When the first one crashes, recovery sets the invocation to RETRYING,
  and no message is left to retry it. With two workers this cannot happen
  (`NothingStranded` in `batches`, `EveryInvocationEnds` in `liveness`).
* `shutdown` (`EveryInvocationEnds`): an interrupted worker leaves its message
  pending and its attempt RUNNING and marks itself OFFLINE; recovery skips
  OFFLINE workers.
* `transient_error` (`EveryInvocationEnds`): one failed call in a task leaves
  its message pending for a live worker, which only asks for new messages.
* `concurrent_upload` (`PackageMatchesHash`): two uploads take the same number;
  the one that will be refused overwrites the package of the registered one.
  `PackageIsOwnOrOverwritten` in `control_plane` says that nothing else damages one.
* `user_error` (`UserErrorsAreNotRetried`): a handler raises `RuntimeError`; the
  runner reports the name of the class, which is one of `RETRYABLE_ERROR_TYPES`
  (`retry.py:10`), and the code is run again, while `docs/design.md:567` says that
  user-code failures are not retried by default.

**Bounds.** One invocation is enough for the properties of one invocation, since
invocations only share the workers and the batch; `batches` has two for those.
Two workers are one that fails and one that recovers it, three are needed for two
concurrent recoverers. Two attempts give a retry and an exhausted budget; in
`all_faults` and `timely_faults`, `AttemptBound` is one more, so that exceeding the
budget is representable. `batches` has one attempt, since its properties are about
claims and batches, and `liveness` two. `MaxMessages` of these runs leaves room
for duplicates: of every message with one invocation, of one message in `batches`.
`capacity`, `period_ms` and the clock are chosen so that refills do not divide evenly and buckets expire.
A second of 2 ms in `control_plane` makes the header round up. Four requests are a
function, a version and two invocations with one key, or a function, two concurrent
uploads and an invocation, or two versions before an invocation, which make "latest"
differ from "first". The bucket and the requests share no state; `watched` says which
of them a behaviour moves. In `monitoring` two tasks let the counter of a worker move
between the steps of a heartbeat without becoming 0, two peers make one recovery overtake another, and an age of 2 is already stale; two
latencies are where the rank of p50 is a whole number and that of p95 is not.
Workers, requests and, in `batches`, invocations are interchangeable; liveness is
checked without symmetry. Deadlock is switched off where the system may really
stop: all workers have crashed or been stopped, all requests are answered, all
attempts used.

**Fairness** (`liveness`, `shutdown`, `transient_error`). Weak fairness of the
dispatcher's steps, of registration, heartbeat, loop and tasks of each worker that
is up, of the aging of a dead worker's heartbeat and of backoff delays. These are
loops that nothing in the code stops and timers that run. Nothing is assumed of
clients, deadlines or faults; faults are bounded in number. At least one worker
survives in these runs. `runtime`: weak fairness of the next step of an execution; a
program that never ends is one the step of the timeout meets. `monitoring`: weak
fairness of each step of the heartbeat loop and of the passing of time, and none of
tasks, peers, shutdown or the dashboard.

## 4. What happens beyond the checked faults

The properties of `timely_faults` need heartbeats that arrive in time. With
`"stall"` or `"heartbeat"` added to its `FaultKinds`, TLC finds behaviours in which
recovery commits over a status that became final after recovery read it without a
lock (`recovery.py:58`, against `TerminalIsFinal`), and in which a worker that was
wrongly recovered finishes its old attempt after all, through the attempt row its
session cached, and so sets the invocation to RETRYING while its successor
executes; one more attempt than `MaxAttempts` then starts
(`invocation_state.py:141`, against `AttemptBudget`). One failed heartbeat ends the
heartbeat loop for good (`main.py:252`), so that a healthy worker becomes stale.
With `"call"` as the fault of `batches`, one worker and four invocations, a task that
raises lets the loop read a new batch while the siblings still run, against
`BoundedConcurrency` (`main.py:78`). What still holds under all of these is
checked in `all_faults` and proved as `LedgerHolds`.

`OfflineMeansRecovered` holds in `batches`, where two workers cannot recover the same
dead one at the same time. With three workers and claims of one message TLC finds a
behaviour that breaks it: two workers list the same message of a dead worker, one of
them claims it and acknowledges it, and the XCLAIM of the other one returns nothing;
it takes that for the end of the pending list (`main.py:98`) and marks the dead worker
OFFLINE while another message is pending for it. The attempts of the dead worker are
not affected, since they are taken under row locks: `RunningIsOwned` and
`OfflineRunsNothing` hold for any number of recoverers (section 5).

`OFFLINE` is the last thing that recovery writes, although
`docs/engineering-walkthrough.md:150` lists it first: a recoverer that crashes on its way
leaves the dead worker to be found again, which is what `NothingStranded` and
`RunningIsOwned` depend on.

Two more behaviours of the code are modelled but have no run of their own. A
container that Docker created although `containers.run` failed is never removed
(`docker_executor.py:207`), which is why `LeaksAreAccountedFor` counts failed calls.
And peers that mark a slow worker OFFLINE write columns that its heartbeat may
be writing at the same time, so a row may be OFFLINE with a number of active
invocations, or RUNNING with none; an IDLE row never shows any (`IdleRowIsEmpty`). The
next heartbeat repairs it (`SlowWorkerComesBack`), and only an
orderly shutdown promises zero (`StoppedIsOffline`).

## 5. What is proved

For any set of workers, invocations, dispatchers, requests, functions, keys, tasks
and peers, any bounds, batch sizes and fault budgets (the assumptions are the named
`ASSUME`s of the modules, which give the constants their types and say that `None`
and the like are no other values):

* `PlatformProofs`, under **every** kind of fault: `LedgerHolds`, and from it
  `TypeCorrect`, `AttemptLedgerHolds`, `OutboxIsTruthful`, `NoTaskIsFuture`.
* `PlatformProofs`, while heartbeats are timely (`Timely`: no `"stall"`, no
  `"heartbeat"` among the faults): `OwnershipHolds`, and from it
  `RunningAttemptIsLastHolds`, `AttemptBudgetHolds`, `CompletedIffTerminalHolds`,
  `ExclusiveExecutionHolds`, `TerminalIsFinalHolds`, `AcknowledgedAreServedHolds`, and
  `PlatformKeepsContract`, that `Platform` implements `InvocationContract`.
* `PlatformProofs`, while besides no call of a live worker fails (`CallsSucceed`):
  `BoundedConcurrencyHolds`, for every `MaxConcurrency` and claim count.
* `PlatformProofs`, while workers only crash, publishes fail and dispatcher
  transactions fail (`CrashesOnly`): `CrashHolds`, and from it `RunningIsOwnedHolds` and
  `OfflineRunsNothing`, for any number of workers that recover at the same time.
* `PlatformProofs`, with `CrashesOnly`, for behaviours in which no two workers recover
  the same dead worker at the same time (`[]Undisputed`): `CarryHolds`, and from it
  `OfflineMeansRecoveredHolds` and `NothingStrandedHolds`.
  `PairLosesNothing`: a pool of one or two workers satisfies that condition by itself.
* `RuntimeProofs`, for any number of attempts and of failed calls:
  `RuntimeInvariantHolds`, and from it `LeaksTheorem`, `TimeoutTheorem`,
  `ServedOutputTheorem`, `OutcomeTheorem`, `RerunTheorem`.
* `ApiProofs`, control plane: `ApiInvariantHolds`, and from it
  `VersionsContiguousHolds`, `PackageIsOwnOrOverwrittenHolds`,
  `CreatedIsRecordedHolds`, `RunsDeployedVersionHolds`, `OneInvocationPerKeyHolds`.
* `ApiProofs`, rate limiter, for every capacity and period: `LimiterInvariantHolds`,
  `GrantBoundHolds`, `RetryAfterIsTightHolds`, and `LimiterImplementsBucket`, that
  the script implements `TokenBucket`.
* `MonitoringProofs`: `HeartbeatInvariantHolds`, `IdleRowIsEmptyHolds`,
  `StoppedIsOfflineHolds`, `MetricsInvariantHolds`, `SummaryHangsTogetherHolds`,
  `CountersNeverFallHolds`, `PercentilesAreNearestRankHolds`.

The arguments. `AttemptLedger` is not inductive: `mark_running` numbers an attempt
after the task, which came from a message, which came from an outbox row.
`LedgerInvariant` follows that chain: tasks work on delivered messages
(`TaskShape`), messages and what dispatchers hold have outbox rows
(`StreamShape`), outbox rows are for attempts up to the next one, and for the next
one only while none runs (`OutboxShape`), and the attempts that a recovery has
selected exist (`LostExist`).

`ExclusiveExecution` needs to know that a running attempt has one owner.
`OwnershipInvariant` adds: only dead workers are stale (`OnlyDeadAreStale`, the
place where timely heartbeats enter), a task that executes owns the RUNNING
attempt of its invocation (`TasksOwnAttempts`), that attempt is the last one
(`RunningAttemptIsLast`), open recoveries lock different workers and what they
read without locks is still true (`RecoveryIsolated`), and an invocation that
waits has attempts left (`AttemptsLeft`, the reason why the budget holds although
`mark_running` does not check it). Each action is one lemma; effect lemmas state
what each operation does to the rows, once, and the conjuncts are proved from
them.

`AcknowledgedAreServed` is the at-least-once half of the delivery. It is inductive
together with `OwnershipInvariant`: a task acknowledges when `mark_running` refuses it,
which it does for an ended invocation or a message no newer than the last attempt, or
after `mark_finished`, when `mark_running` had started the attempt of the message; and
neither a final status nor the attempt counter goes back. `OwnershipInvariant` is needed
for the last part, since a recovery that commits over a final status would take it back.

`RunningIsOwned` is about the moment when a worker is marked OFFLINE, after which nobody
looks at its attempts again. `CrashInvariant` adds to the two invariants above that a
running attempt is a numbered one (`RunningIsNumbered`) and what a recovery has achieved
at each of its steps (`RecoverySettled`): before it commits, every running attempt of
the workers it has selected is among those it will write; once it has committed, none is
left, nor can a new one appear, because the worker is dead. None of this mentions messages, so it holds however the recoverers'
claims interleave. TLC checked `CrashInvariant` before the proof, on three workers with two
attempts and two faults.

`BoundedConcurrency` says nothing of how a batch grows: a claim visits one consumer
after the other, XPENDING first and XCLAIM later. `BatchInvariant` keeps the account:
a worker has tasks only between the first claim or the read and the end of `gather`,
all of them awaited; while it claims they are at most as many as the call has counted,
and what it has listed still fits into the call. `Timely` is needed because
`mark_finished` of a worker that was wrongly recovered raises, and `CallsSucceed`
because any other error does the same: the siblings of a task that raises run on
unawaited (section 4).

`NothingStranded` asks at every moment for something that will move an invocation on,
and each candidate depends on another one. `CarryInvariant` closes that circle, on top
of `CrashInvariant` and `BatchInvariant`: a
pending message is held by a task of its live consumer, or its consumer is dead and
still ONLINE, so that recovery will see it (`MessagesHeld`); a recovery that has passed
a consumer has left nothing of it behind, which is where XPENDING's count and the
loop over full batches matter (`RecoveryComplete`); an invocation that waits has its outbox row or a message that `mark_running` accepts as a
reclaimed one (`WaiterIsCalled`), and one that runs has a message in the hands of its
worker, dead or alive (`RunnerIsHeld`). Without `Undisputed` the invariant is false, and
so are its consequences: `double_claim` is a behaviour of three workers in which it
fails. TLC checked `CarryInvariant` before the proof, on `batches`, on two workers with
three attempts, and on three workers with `Undisputed` as a constraint.

The five properties of `RuntimeExecutor` follow from `RuntimeInvariant`. For the current
attempt it says how far container, input file and failed calls have come at each step
(`StepState`) and what the result on its way through the `finally` block may claim
(`ResultState`); for an attempt that returned, that its result explains what the program
did in a form that no program ending later can refute (`Settled`, `Explains`), since
containers that were left behind go on running.

`OneInvocationPerKey` and the properties of the registry rest on `ApiInvariant`. Every
step is one of a single request, and rows and files are only added: so `Reads`, what a
request learned before an await, stays true while others move (lemma `OneMoves`), and
only the request that moves has to be looked at. A number that was taken may be used
up in between, but has no gap below it; the unique constraint on function and number
turns that into `VersionsContiguous`, the unique index on owner and key
(`KeysAreUnique`) does the same for `OneInvocationPerKey`. A row, once committed, is
there whether or not its request is answered, so nothing of this depends on an answer.
For `PackageIsOwnOrOverwritten`, `FilesAreKnown` says whose a file is: of a request that
took its number, and in part only of one that is gone and has no row.

`GrantBound` follows from `Conservation`: tokens granted in the window plus tokens
in the bucket never exceed a full bucket plus the refill. It needs
`BucketLifetime`: a bucket expires when it would be full anyway. For
`RetryAfterIsTight`, `HintShape` ties a refusal to the bucket it was computed from, with
the two values that rounding allows; the rest is that a rounded-up quotient is the first
time at which the product is reached (`Waited`), and that one more millisecond is enough
at a tie (`ToldToWait`).

`IdleRowIsEmpty` holds although an update writes columns and not rows, because between
the load and the write of a heartbeat nobody but a peer writes, and a peer writes OFFLINE
and 0: if IDLE stays or comes, the count that stays or comes with it is 0.
`StoppedIsOffline` needs that the heartbeat loop is waiting once the process closes
its row, and that all a peer can write is OFFLINE. `SummaryHangsTogether` and
`CountersNeverFall` need `MetricsInvariant`: whatever a query counted among outcomes
and retries is a lower bound of what is there later, because the contract never takes
a row out of a terminal status (`PlatformKeepsContract`, while heartbeats are timely).
The percentile is proved against its definition by
nearest rank for sorted lists of every length and every percentage from 1 to 100
(`PercentileIsNearestRank`).

The platform proofs are five modules because the translation to SMT gets slower with
the size of a module and of what it extends. `StepFacts` holds what all of them use:
which rows a step writes (`RowChanges`, the `_Effect` lemmas), where it moves the loop
and the tasks of its worker (`Moves`, `TaskGoes`), what a delivery hands out
(`Delivery`). `LedgerProofs`, `OwnershipProofs` and `CarryProofs` do not depend on each
other; `PlatformProofs` combines them. Lemmas that count messages have the hypothesis
`Counting` (what XPENDING with a count returns), which `PlatformProofs` proves as
`MessagesCount`, so that the theorems about finite sets are only used there.

## 6. What is only model-checked

Liveness, which TLAPS does not do under fairness: `EveryInvocationEnds`,
`PendingDrains`, `OutboxDrains`, `ExecutionEnds`, `SlowWorkerComesBack`,
`LostWorkerIsShown`. Every invariant, action property and refinement that a passing run
checks is proved, under the hypotheses of section 5; the runs that find a violation
have nothing to prove. Instances of the proved theorems remain as runs because they are
what finds a mistake in the model first.

## 7. Plan

The order was: store, stream, dispatcher, worker, their composition and contract;
the ledger and ownership proofs; rate limiter, control plane and runtime; then the
refinement of the rate limiter and its proof, the proofs of the control plane,
heartbeat and metrics; then those of the runtime, of the batches and of
`NothingStranded`; then what holds of delivery and recovery without `Undisputed`. What is left, in order of value:

1. two dispatchers in a run (the module is parameterised by `DispatcherId` and the
   proofs cover it), and three workers in `timely_faults`;
2. a refinement from `RuntimeExecutor` to the results that `Worker` assumes, with
   overlapping attempts under late heartbeats, and one from `WorkerHeartbeat` to the
   atomic heartbeat of `Worker`;
3. the fallback of `process_worker_once` for stale workers without a `consumer_name`
   (`main.py:103`, XAUTOCLAIM) and the length of the backoff.

## 8. What is not modelled

Authentication (library calls, and one insert under a unique constraint), of log
retrieval all but the file that `ServedOutputIsOwn` is about, the frontend and the
benchmarks (clients), migrations (declarations; the constraints are guards of the
actions). Of the metrics: averages, ages and the counts of outbox rows, which are sums
and rows read by one query each. Container options, log and path formatting, errors of
doubles in the Lua script that add up to a unit or more, and the lengths of times: deadlines, backoffs
and staleness are events that may happen at any moment the code allows (the heartbeat's
cutoff excepted, which `WorkerHeartbeat` counts).

## 9. Running

`tlc -config <run>.cfg <module>` with the module that `PROJECT.json` names for the
run, and `tlapm <module>.tla` for the proof modules of section 5. A mutant listed in
`PROJECT.json` replaces the body of a definition by a plausible mistake, defined
next to it, under which its property fails.
