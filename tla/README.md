# AxonTask in TLA+

AxonTask runs long tasks for AI agents. An HTTP API admits a task and stores it
in PostgreSQL; worker processes claim pending tasks, run the adapter each task
names, publish its events to a Redis stream, and record how the task ended; the
API streams the events, reports the state and cancels tasks. This directory
holds TLA+ specifications of that core, the TLC configurations that check them on
small instances, and proofs that TLAPS checks for every instance. The
specifications are written from the code under `src/`; paths below are relative to it.

    tlc -workers 2 -config worker_kinds.cfg MCWorker.tla      # one run
    tlapm WorkerProofs.tla                                    # one proof module

`PROJECT.json` lists the runs, the lines each definition stands for, the mutants
that show each property can fail, the disagreements found and the hazards.

## 1. The system

| Component | State | Operations | Interacts with |
|---|---|---|---|
| Worker orchestrator (`axontask-worker/src/orchestrator.rs`) | map `active_tasks` of cancellation tokens, shutdown token, the claimed batch | `run`: poll, claim, dispatch, clean up, drain; `execute_task` | queue, adapters, enforcer, listener, emitter |
| Task queue (`queue.rs`) | rows of `tasks` | `claim_tasks`, `mark_succeeded/failed/timeout`, `update_last_seq` | orchestrator, event loop |
| Timeout enforcer (`timeout.rs`) | one Tokio task per execution | sleep, cancel the token, grace period | the token of its task |
| Control listener (`control.rs`) | a Redis subscription per execution | `listen_loop`, `send` | the token of its task |
| Adapters (`adapters/`) | progress of one execution | `validate_args`, `execute` | token, event channel |
| Event emitter (`events.rs`) | sequence counter and previous hash, shared by the worker's tasks | `emit` | event loops, Redis stream |
| Task model (`axontask-shared/src/models/task.rs`) | rows of `tasks` | `create`, `transition_to_canceled`, `can_transition_to` | API, queue |
| Creation and quotas (`axontask-api/src/routes/mcp/start_task.rs`, `axontask-shared/src/quota.rs`) | counts over `tasks` | two quota checks, one INSERT | table |
| Cancellation (`routes/mcp/cancel_task.rs`) | none | SELECT, then UPDATE | table |
| Stored events (`models/task_event.rs`) | rows of `task_events` | `append`, `verify_chain`, `delete_for_task` | table |
| Stream writer, reader, gap detection (`axontask-shared/src/redis/`) | Redis streams, a cursor per reader | retried XADD, backfill, `read_all`, live tail, `detect_gap` | Redis |
| Heartbeats (`redis/heartbeat.rs`) | one Redis key per task | `send`, `is_alive`, `remove` | nobody calls them |
| Stream metrics (`redis/metrics.rs`) | none | `get_lag_info`: three Redis commands | Redis streams |
| Rate limiter (`middleware/rate_limit.rs`) | a token bucket per tenant, in Redis | one atomic script: refill, consume, or name the wait | tenants, by their plan |
| Accounts (`routes/auth.rs`, `auth/jwt.rs`, `models/user.rs`, `tenant.rs`, `membership.rs`) | rows of `users`, `tenants`, `memberships`; the JWTs in circulation | `register`, `login`, `refresh` | API keys |
| API keys (`routes/api_keys.rs`, `models/api_key.rs`, `auth/middleware.rs`) | rows of `api_keys` | create, validate, revoke | accounts, by tenant |
| Authorization and roles (`auth/authorization.rs`, `models/membership.rs`, `auth/api_key.rs`) | rows of `memberships`, scopes of a key | `require_*`, `has_scope`; create, update, delete a membership | the context of a request |
| Usage, webhooks | rows of their own | one statement each | nobody calls them |

What is hard in this system:

* *Concurrency.* Any number of workers claim from one table. Inside a worker the loop
  of `run`, an executor, an adapter, an enforcer, a listener and an event loop per
  task run as separate Tokio tasks, sharing a token, a map and an emitter. API
  handlers act on the same rows without transactions.
* *Failure.* A process can die between claim and dispatch, during an execution, or
  before the verdict is written; a statement can fail, or succeed and lose its
  answer; an adapter can panic or ignore its token; a subscription can end.
* *Ordering and time.* Three parties cancel the same token; who did is guessed from
  elapsed time afterwards. Events travel through an unbounded channel that the
  executor does not wait for.

What makes each component correct, in one line each: a task is executed by one
worker, and ends in the state it deserves (orchestrator); the statements only make
the transitions of `TaskState` (queue, task model); a cancellation reaches every
executor, and an answer given to a client stays true (drain, cancel endpoint); numbers
tell a reader what it missed (emitter); a tenant cannot exceed its quota beyond a known bound (quotas); an account that
was answered is whole, and a token or key reaches one tenant only (accounts, API keys); a tenant gets through no more than it
earns, and the wait a refused client is told is enough up to the difference of the clocks (rate limiter); memberships change through managers of the same tenant (roles).

## 2. Modules

| Module | Models | State and actions |
|---|---|---|
| `TaskLifecycle` | what `TaskState` promises | `state`; `Create`, `Claim`, `Finish` |
| `TaskTable` | the `tasks` table, one operator per SQL statement | `state`, `why` (`error_message`), `age` (what `started_at` says now) |
| `Worker` extends `TaskTable` | workers, executors, adapters, enforcers, listeners, cancel endpoint | see below |
| `WorkerProperties` extends `Worker` | properties, refinement mapping to `TaskLifecycle`, claims of the docs | |
| `EventPipeline` | adapter channel, event loop, `EventEmitter::emit`, stream | `seq`, `prevHash`, per task `sent`, `taken`, `pc`, `event`, `stream` |
| `Quota` extends `TaskTable` | `start_task` handlers, quota checks, the rest of the table's life | `creator`, `fresh`, `pc`, `tenant` |
| `EventLog` | `TaskEvent::append` and the rows of `task_events` of one task | `rows`, per caller `pc`, `pending`; `AppendSelect`, `AppendInsert`, `AppendError`, `DeleteForTask`, `DeleteTask` |
| `EventStream` | `StreamWriter`, `StreamReader`, `GapDetector` and the lag of `StreamMetrics` on the Redis stream of one task | `stream`, the batch (`wpc`, `nth`, `attempt`), the reader (`mode`, `rpc`, `cursor`, `batch`, `got`), `query` of `get_lag_info` |
| `Accounts` | `register`, `login`, `refresh`, the API key handlers and both authentication layers, and the statements of an administrator | rows `users`, `tenants`, `members`, `keys`; `tokens`; `reg` per registration; `pc`, `ctx` per other request |
| `KeyLifecycle` | what an API key promises | `stage` of each key, `held` by a request; `Change`, `Delete`, `LetIn`, `Leave` |
| `RateLimit` | `check_rate_limit_redis` with its script, and `TokenBucket` fed the same calls | `bucket`, the Redis `clock`, `plan`, per handler `pc`, `call`; `local`, a `TokenBucket` |
| `Access` | `require_*`, `MembershipRole`, `has_scope` and the statements on memberships | `role` per tenant and user; per request `pc`, `ctx`, `ask` |
| `MCWorker`, `MCEventPipeline`, `MCQuota`, `MCEventLog`, `MCAccounts`, `MCRateLimit`, `MCAccess` | instances for TLC | |
| `WorkerProofs`, `EventProofs`, `QuotaProofs`, `EventLogProofs`, `EventStreamProofs`, `RateLimitProofs`, `AccessProofs`, `AccountsProofs` | theorems | |

**Worker.** `wpc[w]` is the place of `run` in worker `w`. The code between two awaits of
`run` is one action: `Poll` (shutdown check, slots), `ClaimTasks` / `ClaimNothing` /
`ClaimFails` (the claim statement and its outcomes), `Dispatch` (one turn of the dispatch
loop with `dispatch_task`), `CleanUp` (the `retain`), `Drain`, `DrainTick` and
`DrainDone` (the shutdown branch). `AtCapacity` is the `continue` that skips the
clean-up. `epc[t]` is the place of `execute_task` for `t`: `BadArguments` or
`Start`, the adapter's steps, `Join` or `JoinPanicked` (the `?`), `Decide` (which
`mark_*` to call, after 100 ms), `WriteVerdict`. `TimerFires` and `GraceExpires` are
the enforcer, `Subscribe`, `ListenerFails`, `ListenerEnds` the listener,
`CancelFind` and `CancelUpdate` the two statements of `cancel_task`. `token[t]`
remembers who cancelled first: the code does not keep this, and no guard reads more of it
than `is_cancelled`; the properties compare it with what the row says.

**Time** is abstracted to what the code compares: `age[t]` is `young` until
`timeout_seconds` have passed since `started_at`. The enforcer starts to sleep after the
claim, so that it fires only when the row is `overdue`; the executor reads the same
`age` when it guesses the cause. `from_task_timeout` clamps to 1 .. 86400, which the
schema's CHECK already guarantees. One clock is assumed for workers and database.

**Claims.** `FOR UPDATE SKIP LOCKED` is modelled as serial claims of the oldest pending
rows. In PostgreSQL a claim that skips rows locked by another one may take younger rows or
fewer rows than the limit; which worker gets a row is arbitrary in the model too, and no
property depends on the batch being full.

**Failures.** `Fault` pays for a crash, a panic, a lost statement, a statement
whose answer is lost (`ClaimFails`, `XaddFails`) and a broken subscription. `Exit` is
free: the process that called `run` ends when it returned, and kills what it still executes.

**EventPipeline.** `emit` has three awaits: the loop takes an event and a number
(`TakeEvent`), reads `prev_hash` (`ReadPrevHash`), hashes and stores the new one
(`SetPrevHash`), then `XADD` succeeds or fails (`XaddOk`, `XaddFails`), and
`update_last_seq` runs (`UpdateLastSeq`). An event loop handles one event at a time; loops of
different tasks interleave at each await. A hash is named by the number of its
event, which `compute_hash` covers. `MarkFinished` may happen with events
left in the channel, as in the code. A crash of the whole process is not part of this module.

**Quota.** The two checks and the INSERT of `start_task` are three actions of a
handler; rows start, finish, are cancelled and age meanwhile. `fresh` is `created_at >
NOW() - 24 hours`.

**EventLog.** The SELECT and the INSERT of `append` are an action each; nothing but the
primary key stands between two appends that read the same last row. Rows and hashes are records: `ComputeHash` is
the tuple of what SHA-256 covers, that is, free of collisions. The payload column is JSONB: what is read
back, and hashed again by `verify_chain`, is `Jsonb[d]`, where `append` hashed `d`. `torn` and
`rewritten` are history variables: a deletion between the statements of an append, and rows whose payload changed.

**EventStream.** `publish_batch` writes one event after the other, each with `max_retries + 1` attempts; an
attempt may fail before or after Redis has executed it (`XaddLost`), and the retry then writes a
copy under a new id. The reader is `read_all` from cursor `0`, or a caller that loops
around `read_live`; `IsPage` is what XREAD COUNT returns, and the cursor moves to the last entry that deserializes.
`ForeignEntry` adds an entry that does not, `Trim` removes the oldest. `DetectGap` is evaluated in every
state. Redis assigns ids from a clock that may be set back. In mode `lag` there is no reader but a monitor that
asks how far some consumer is behind: `LagLatest` (XINFO), `LagLength` (XLEN) and `LagRange` (XRANGE) are one command each, and
a command that fails counts as an empty answer (`unwrap_or`). `EventLog`, the writer, the
reader, gap detection and metrics have no caller in the API or the worker yet: they are the library `axontask-shared`, whose
callers the modules leave free.

**Accounts.** Each await of a handler is an action: the three INSERTs of `register` (`RegisterStep`, with
`reg[c]` naming the next one), the query for the user, the list of memberships and `update_last_login` of `login` (`LoginFind`,
`LoginList`, `LoginTouch`). A statement may fail before or after it is executed (`RegisterFails`, `LoginFails`,
`HandlerFails`), a constraint may refuse it (`RegisterRefused`). `tokens` are the JWTs in circulation: nothing
in the database knows them, and `Accepted` looks at nothing else. `ctx[s]` is the `AuthContext` of a request, from `jwt_auth_layer` (`JwtAuth`)
or from `api_key_auth_middleware` (`Validate`, then `Admit` after `is_expired`), which the library offers and no route uses yet.
`AddMember`, `RemoveMember`, `DeleteUser`, `DeleteTenant` and `DeleteKey` are functions of the models that no handler calls; without
them nobody would belong to two tenants, and the races of `login` would not show. `at` orders memberships
like `created_at`, taken to differ. `joined`, `revoked` and `removed` are history variables.
`KeysLiveOnce` is the refinement of `KeyLifecycle`: `StageOf` reads the stage of a key off its row, or off the absence of one, and a request holds
the key in its context. `InsertKey` lets a key be born expired, since `create_api_key` hands on any `expires_at`. `KeysChangedByMembers` ties each new or revoked
key to the request that is answered in the same step, not just to some member.

**RateLimit.** A call reads the plan (`FindTenant`), the clock of its machine (`ReadClock`) and then sends the script, which Redis
runs atomically (`Admit`, `Refuse`); other handlers and `UpdatePlan` come in between. A token is `Unit` units, so that
all tokens are whole numbers of units; the code has floats, whose rounding is left out. A bucket that is gone is one whose
`expires` has passed: the script cannot tell. `MaxLag` and `MaxAhead` bound how far the time a call carries may be from that of Redis when
the script runs; nothing in the code bounds it, and the bound of the proofs is generous (see below). `local` is the struct `TokenBucket`,
which the file keeps beside the script; `order` remembers whether its unsigned `now - last_refill` was ever negative, where the code
would panic or wrap. The layer does not send the script yet: handlers are what the comment at `rate_limit.rs:199` makes them. A loss of Redis' data is left out.
Each refusal is kept in `refused` with the reading the call carried (`now`) and the time of Redis (`at`): `RetryAfterSuffices` is exact in the first and, in the second,
leaves `MaxAhead + MaxLag` to a client whose two calls meet machines with different clocks.

**Access.** `Begin` is a request behind `jwt_auth_layer` (any user who ever was a member: tokens outlive memberships) or
`api_key_auth_middleware`. `Granted` is a helper that returns `Ok`, with the one query it makes; `Refused` the other outcomes. A request that was granted
`require_user_management` may then `Manage`: one statement on the tenant of its context, after any number of steps of others. No handler
calls the helpers yet; that a handler checks first and acts then is how the documentation of `authorization.rs` uses them. A scope is the
sequence of its parts between colons, `tasks:*` is `<<"tasks", "*">>`. `joined` and `peak` are history variables.

## 3. Runs

| Run | Instance | Shows |
|---|---|---|
| `worker_pair` | 2 workers, 2 tasks (good, failing), 1 fault | `Exclusive`, `SucceededMeansCompleted` |
| `worker_kinds` | 1 worker with 2 slots, 3 tasks (good, invalid arguments, unknown adapter), shutdown, 1 fault, 1 cancel request | types, `Capacity`, `OrphanNeedsFailure`, `HelpersStopped`, `CancelCause`, `CancelSticks`, `DrainCancelsAll`, refinement `Lifecycle` |
| `worker_liveness` | 1 worker with 2 slots, hanging and failing adapters, shutdown | `RunningFinishes`, `ShutdownReturns` |
| `events` | 2 tasks with 3 and 2 events, 1 failed XADD | `SeqIsUnique`, `LossLeavesGap`, `ChainWhenAlone`, `EventsArrive` |
| `quota` | 3 tasks, 2 tenants, 2 handlers | `DailyOverrun` |
| `event_log` | 3 callers, 4 appends, 2 deletions, 1 fault, a payload that JSONB changes | types, `ChainVerifies`, `NumbersWithoutGap`, `AnsweredIsStored` |
| `event_stream` | 3 events with 1 retry, pages of 2, 2 failed commands, 1 unreadable entry, 2 trimmed | types, `PublishedInOrder`, `ReaderSkipsNothing`, `ReadAllIsComplete`, `LossIsDetected`, `LagIsBacklog`, `TailCatchesUp` |
| `accounts` | 3 registrations, 2 of one address, 1 of which may fail; 2 other requests, 1 key, 1 statement of an administrator | types and foreign keys, `OrphansNeedFailure`, `TokenNamesMembership`, `RevocationIsFinal`, `KeysChangedByMembers`, refinement `KeysLiveOnce` |
| `rate_limit` | 2 handlers, 4 calls in 5 seconds, 2 plans and 1 change of plan, clocks 1 second off, a bucket that expires after 4 | types, `WindowBound`, `RetryAfterSuffices`, `BucketsAgree` |
| `access` | 2 tenants, 2 users, 7 kinds of key, 2 requests, 3 changes | `RolesComeFromManagers`, `MoreRightsPass` |

Bounds, and why they are enough. Two workers and two tasks are the least for a
contested claim; with one fault every single crash, panic or lost answer is tried at
every point. Three tasks against two slots make the map overflow if the slots were
computed from anything but the map. In `worker_liveness` two checkpoints let a cancellation arrive between two
cancellation checks; one is enough for the safety of `worker_kinds`, where a cancellation comes before it or
after it. `DrainSeconds` bounds a countdown that the code hardly uses: the first `retain`
empties the map.
Three events of one task are the least for a loss between two entries, the second
task takes numbers in between. Three rows exceed a quota of one by the overrun bound and
one more. Three callers of `append` let one read, one insert and one fail between the statements of each other;
two deletions let a torn log become whole again. Three events over pages of two give a full and a
partial page, and pages that end within one millisecond; two faults exhaust one retry or duplicate two events. `MaxForeign` stays
below `PageSize` on purpose: a whole page (1000 entries) of unreadable entries holds the cursor for ever, which the
list below names. In `accounts` two addresses give two tenants, and one membership added by hand gives a user both; a second
request changes or uses the key while the first is between authentication and statement. Calls with the same address
and requests are interchangeable, so that both are symmetry sets (the run has no liveness property). In `rate_limit` a plan earns half a token per second
and the other three halves, so that waits are rounded, and the smaller bucket is full again in two seconds, the longest a call may be late; four calls
empty either bucket and come back. In `access` three changes are the least for a user who is made an admin, removes the founder and is acted upon
by a request of the founder that was granted before. Runs switch off deadlock checking only where the system may really stop
(all events published or appended, all registrations over, all calls made; violation runs stop at the first trace anyway).

Two runs refute a sentence of the repository; each is a finding in `PROJECT.json`:

| Run | The repository says | The code does |
|---|---|---|
| `claims_starve` | completed tasks are cleaned up; `run` polls until shutdown | only cancelled tokens leave the map; after `max_concurrent_tasks` finished tasks nothing is claimed |
| `cancel_reply` | `canceled`: whether cancellation was successful | true although the UPDATE matched no row |

Other divergences met on the way. They follow from reading a line or two, so that no run is spent on them:

* `orchestrator.rs:63` is the "Maximum concurrent tasks"; `orchestrator.rs:260` gives the slot of a cancelled task away while its
  adapter still runs. `Capacity` counts what is claimed, in the map, or
  executed with a live token; executors already cancelled come on top.
* `orchestrator.rs:209` waits for all tasks to complete; `orchestrator.rs:216` drops every token it has just cancelled, so that the
  first turn ends the loop and `run` returns while executors still run.
* `events.rs:27` makes `hash_prev` the hash of the previous event, empty for the first one; `events.rs:150` takes it from the state all
  tasks of a worker share, so that it names an event of another stream. `ChainWhenAlone` says when it does not.
* `timeout.rs:11` announces a forced stop after the grace period; `timeout.rs:182` only logs.
* `cancel_task.rs:4` says the worker is signalled; the handler publishes no message, and
  the adapter runs on after the row is `canceled`.
* `DESIGN.md:111` promises that orphaned tasks are reclaimed; no code looks at a
  running row of a dead worker.
* `orchestrator.rs:418` records a task that a shutdown stopped as cancelled by the user,
  and one whose token is cancelled in the last 100 ms after it completed as failed.
* `DATABASE_DESIGN.md:450` numbers events per task; `events.rs:148` numbers them per worker.
* `queue.rs:360` updates columns that the schema does not have: `cursor` stays 0.
* `orchestrator.rs:397` waits "for all events to be emitted" and sleeps 100 ms; the row becomes final with events in the channel.
* `quota.rs:135` is the maximum of daily task creations; check and INSERT are separate statements. `DailyOverrun` states the
  bound that does hold.
* `task_event.rs:392` reads a failed `verify_chain` as "Hash chain integrity violated!"; a payload number that
  JSONB normalises (`1e16`, `-0.0`), or a deletion during an append, has the same effect. `ChainVerifies` states exactly when.
* `stream_reader.rs:51` shows a live loop that starts at `$`, which XREAD evaluates at each call: entries
  written between a timeout and the next call are missed. The model starts at an id.
* `stream_reader.rs:412` ends `read_all` at a page in which nothing deserializes, although entries may follow.
* `gap_detection.rs:131` speaks of a cursor that does not exist in the stream; `gap_detection.rs:182` compares ids: a cursor that
  was trimmed as the last one read is a gap although nothing was missed, and an emptied stream has none.
* `API_DESIGN.md:352` and others accept a JWT or an API key; `app.rs:148` wraps the routes in `jwt_auth_layer` only.
* `api_keys.rs:196` hands `expires_at` on without a look at the clock, and neither `ApiKey::create` nor the schema refuses the past: the key returned by
  create may be expired already. `KeyLifecycle` has the step from unused to expired.
* `auth.rs:176` leaves a user without a tenant when a later statement fails: the address is taken (409), and `auth.rs:302`
  answers each login with 500. `OrphansNeedFailure` says that nothing else does.
* `rate_limit.rs:166` answers 429 when a limit is exceeded; `rate_limit.rs:195` skips the check, and the header `X-RateLimit-Remaining`
  always names a full bucket (`rate_limit.rs:218`).
* `rate_limit.rs:137` subtracts unsigned seconds: a clock set back makes `TokenBucket::refill` panic or wrap, where the script computes with a negative time.
* `metrics.rs:224` and `metrics.rs:174` take a failed command for an empty stream: the lag of a consumer is then 0, or its time lag negative, instead of an error.
* `authorization.rs:269` checks the scope "for API keys": `require_role` has refused each API key before, and a JWT has every scope, so that
  no scope decides in `require_permission`.
* `authorization.rs:345` lets the owner of a resource in who is no member of the tenant any more.
* `models/api_key.rs:388` has a second `has_scope`, in which `admin` grants everything and wildcards nothing.
* `membership.rs` lets only admins manage API keys and viewers create no tasks; no handler asks for a role. Nothing keeps the last owner of a tenant.
* `quota.rs:132` limits concurrent tasks; `quota.rs:380` counts running rows at creation, so
  that pending rows pass one after the other and run together.

### Fairness

`FairSpec` of `Worker` assumes weak fairness of each step the program takes by itself:
Tokio polls runnable tasks, sleeps end, statements return. Nothing is assumed of
clients (`StartTask`, `CancelFind`, `SendCancel`), operators (`RequestShutdown`, `Exit`, `Restart`) or
failures. Adapters other than `hanging` reach their next checkpoint, which is the
contract of the `Adapter` trait; whether a failing adapter fails now or later is its choice.
`FairSpec` of `EventPipeline` assumes the same of the event loop, which Tokio polls after it is
detached, and of the 100 ms sleep; adapters need not emit nor return. `FairSpec` of `EventStream` assumes
only that the reader calls again (`ReadPage`), which `TailCatchesUp` is about; writer, failures, trimming and other programs are free.

## 4. Proofs

All theorems are of `Spec`, for any finite sets of tasks, workers and handlers and any values of
the other constants admitted by the assumptions of the modules (`TaskAssumption`,
`WorkerAssumption`, `PipelineAssumption`, `QuotaAssumption`, `LogAssumption`, `StreamAssumption`, `RateAssumption`, `AccessAssumption`, `AccountsAssumption`).

`WorkerProofs` is a tower of invariants, each inductive with the ones below it:

1. `TypeCorrect`: types, and an unfinished adapter has a checkpoint left (`StepBound`), without which
   `step` would leave its range.
2. `Ownership`: whoever holds a task is its `owner`; what waits in a batch was never executed;
   a pending task has no owner and no executor. `ExclusiveHolds` follows: a claim only takes pending rows,
   which nobody holds.
3. `Outcome` relates `res`, `verdict` and the row, `Cause` relates the verdict to token and age. From them:
   `SucceededMeansCompletedHolds` and `CancelCauseHolds`. The first is not inductive by itself:
   between `Decide` and `WriteVerdict` the row says nothing, and the verdict must carry the fact.
4. `Reachable`: an executor with a live token is in its worker's map. `DrainCancelsAllHolds` follows:
   `Drain` cancels what is in the map, and the rest was cancelled before it left.
5. `Orphan` adds that a panic costs a fault, for `OrphanNeedsFailureHolds`.
6. `Slots` bounds what is claimed or in the map; it needs finite cardinalities, and the lemma `FillingSlots` says that a set claimed
   with the free slots fits. `CapacityHolds` follows with `Reachable`: executors with a live token are in the map.
7. `LifecycleRefinement`: every step of `Worker` is a step of `TaskLifecycle` or leaves `state`
   alone, by the lemmas `MarkRefines` and `ClaimRefines` about the WHERE clauses.

`HelpersStoppedHolds` and `CancelSticksHolds` rest on types and ownership only.

`EventProofs`: `Numbering` says that all numbers, written or in flight, are below the counter and
different, and that of one task's events the later received are at least as much further ahead as
events were received in between. `SeqIsUniqueHolds` and `LossLeavesGapHolds` are parts of it; neither is inductive alone,
because both must also hold of the event that `emit` has not written yet. `Linked` follows the chain through `emit`: while
one task alone has used the emitter and no XADD failed, the emitter keeps the hash of the last entry until `set_prev_hash`
replaces it by that of the event about to be written; a task that has received nothing cannot disturb it. `ChainWhenAloneHolds` follows.

`QuotaProofs`: a handler between the daily check and the INSERT holds a ticket. `TicketBound` says
that recent rows plus tickets of a tenant stay below the quota plus the number of handlers; a check that passes
issues one ticket when the rows are below the quota, an INSERT trades it for a row. `DailyOverrunHolds` follows.

`EventLogProofs`: `Chain` says that while no deletion has torn an append, rows are numbered from 0 without a
gap, each carries the hash of the one before, and so would every row an append in progress is about to insert. The
last part makes it inductive: between SELECT and INSERT other rows may come, but the predecessor stays, and
the primary key refuses a second successor. With the lemma that `verify_chain` walks from
one number to the next, `ChainVerifiesHolds` follows. `NumbersWithoutGapHolds` also speaks of the logs a deletion has torn, of which `Chain` says nothing: `Stamped` says
that the hash of a row contains its number, so that a row which `verify_chain` accepts has the number after that of the row before it. `HasLast` (rows have a last one) spares an induction over finite sets.

`EventStreamProofs`: `Ordered` says that ids grow and that every part of the stream has a first entry, which spares an induction over finite sets
once more. `Place` says where a reader is: at an entry, with everything readable before it returned; `ReaderSkipsNothingHolds` is part of it, and
`LossIsDetectedHolds` follows because the cursor's own entry is either in the stream, and then first or later, or trimmed. `Progress` counts the copies of the
event in hand by the attempts that failed (`PublishedInOrderHolds`). `Measured` says that what is added between XLEN and XRANGE is after the position, and
`LagIsBacklogHolds` is then arithmetic of cardinalities.

`RateLimitProofs`: `WindowBound` alone is not inductive, since it does not mention the bucket. `Window` adds that for each call that got through, the stored tokens
and all that was taken since are at most a full bucket and what was earned since, in the time the calls carry. A bucket that has expired
is the hard step: the next call finds it full, and the last conjunct of `RateAssumption` (a bucket fills in at most `Ttl - MaxLag - MaxAhead` seconds) says that
it would have been full anyway. In the code a bucket fills in 60 seconds and expires after 120, so that clocks and delays may differ by a minute in all.
`RetryAfterSufficesHolds` rests on what the tokens of a bucket were at each refusal, in the time that call carried; `RefusedReadings` says how far this is from the
time of Redis at the refusal, `MaxAhead` or `MaxLag`, which a client has to add to the wait it was told. One second less is refuted by TLC. `BucketsAgreeHolds` on an invariant that both buckets hold the same
tokens once refilled to the same time.

`AccessProofs`: `Rank` says that `peak` is at least the present level and that of a granted manager at least that of an admin, from which
`RolesComeFromManagersHolds` follows, since a statement only touches the tenant of its context. `MoreRightsPassHolds` rests on the lemma that matching of
scopes is transitive (`MatchesTransitive`), for scopes of any length. `TypeOK` of `Access`, like that of
`EventPipeline`, is proved and not part of a run.

`AccountsProofs`: the types include the foreign keys, and need two things that `TypeOK` does not say: each part of `memberships` has a latest row (`Tops`,
which makes the `at` of the next one a number without an induction over finite sets), and `login` and requests with a token know their user, later their tenant
(`Filled`). Before that, two lemmas sort the steps by what they do to the rows of `users`, `tenants` and `memberships` (`RowSteps`) and of `api_keys`
(`KeySteps`); the later proofs split on those few cases instead of on all actions. Then:

1. `Known` adds to `TokenNamesMembership` that each membership is remembered in `joined`; without it the step of `login` that takes the tenant from
   a membership would prove nothing.
2. `Registered` says, by the statement a call of `register` is at, which of its rows are there: a call that waits for its third INSERT still has the first two, unless
   somebody deleted one. `OrphansNeedFailure` is its last part and not inductive alone, since the answer of the third INSERT depends on the rows before it.
3. `KeyOrder`: an id has one row at most and is not given out again, and a key reported as revoked is. `RevocationIsFinalHolds` and
   `KeysChangedByMembersHolds` follow, the second with `Known` and `KeySteps`; a key deleted and made again under the same id would break both.
4. `KeyLifecycleRefinement` maps each step on the rows to a step of `KeyLifecycle` (`StageSteps`) and each step of a request to `LetIn`, `Leave` or none
   (`HeldSteps`), with the invariant `HeldKeys` that only a request validated by its key holds one.

`ReadAllIsCompleteHolds` of `EventStreamProofs` has a hypothesis on the constants, `MaxForeign < PageSize`: other programs add less than a page of entries that do not
deserialize. The property needs it, as the list of divergences says: a page without a readable entry ends `read_all`. The invariant `FewUnreadable` bounds the
unreadable entries in the stream by those added, so that a full page holds an event.

Only model-checked: the liveness properties (`RunningFinishes`, `ShutdownReturns`,
`EventsArrive`, `TailCatchesUp`), since fairness and ENABLED are beyond the prover. Every other property of the passing runs is stated by a theorem.

## 5. Not modelled

Heartbeats, usage and webhooks: each operation is one atomic command or statement, nothing in the program calls them, and no code draws a conclusion
from what they store, so that there is neither an interleaving nor a promise to check. (On the way: `usage.rs` adds up `BIGINT` columns, which PostgreSQL
returns as `NUMERIC`, and decodes an `i64`.) The endpoints for status, streaming and resuming read one row or send a mock stream. The connection pools, the
migrations runner, configuration, error formatting, health checks and the worker binary, which is a placeholder, are I/O and wiring without state of their own.
`PROJECT.json` gives the reason for each. Of `Accounts`, `User::update` is left out, which could give a user another address and has no caller; of the metrics,
the event rate, the memory estimate and the health check, which are one read each. Of the modelled files, formatting, logging, field counters and tests are left out.

## 6. Plan

Done: 1 `TaskLifecycle`, `TaskTable`, `Worker` and its properties; 2 `EventPipeline`; 3 `Quota`; 4 `EventLog`; 5 `EventStream` with the lag of
the metrics; 6 `RateLimit`; 7 `Access`; 8 `Accounts` with `KeyLifecycle`, each with its proofs. What is left, in this order:

* a composition of `Access` with the requests of `Accounts`, once handlers call the helpers;
* the stream endpoint, once it reads the Redis stream: `ReaderSkipsNothing` and `LossIsDetected` then are properties of a client that resumes;
* a watchdog over heartbeats, once there is one: `Crash` of `Worker` is where it would act.
