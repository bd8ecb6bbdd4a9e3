# Fluxbase: a TLA+ verification project

Fluxbase is a backend server in Go over one PostgreSQL database: REST, GraphQL,
authentication, realtime, storage, functions, background jobs. Several
instances of the server may run against the same database, and nearly all of its
coordination happens through it: rows with a status, heartbeats, advisory
locks, `NOTIFY`. This project models the parts where that coordination can go
wrong, checks them with TLC on small instances, and proves the most important
statements with TLAPS for instances of any size.

All paths in this document are relative to the root of the repository.

Contents: [Inventory](#inventory), [Plan](#plan), [Modules](#modules),
[JobQueue](#jobqueue), [LeaderElection](#leaderelection),
[Events, connections and logs](#events-connections-and-logs),
[Requests](#requests), [Databases, uploads and schemas](#databases-uploads-and-schemas),
[Runs](#runs), [Fairness](#fairness), [Proofs](#proofs),
[Where code and words differ](#where-code-and-words-differ),
[What is not modelled](#what-is-not-modelled).

## Inventory

| Component | State it keeps | Operations | Interacts with | What is hard | What makes it correct |
|---|---|---|---|---|---|
| **Job queue and workers** `internal/jobs` | tables `jobs.queue`, `jobs.workers`; per worker: draining flag, job count, map of cancel signals; per instance: the manager and its supervisor | submit, claim, complete, fail, requeue, cancel, retry, interrupt; register, heartbeat, sweep; start, drain, stop, replace | API handlers, cron scheduler, Deno runtime, other instances through the tables | crashes, late heartbeats, zombies, lost writes, drain against claim, cancel against start | no job is lost; no more executions than paid for; final statuses are final; one live execution |
| **Leader election, cron** `internal/scaling`, `internal/scheduler`, `internal/jobs/scheduler.go` | an advisory lock in a database session; `isLeader`, the connection; the cron runner and its context | try lock on each tick, become or lose leader, stop; fire an entry | connection pool, job queue, order of shutdown in `internal/api` | broken connections, re-entrant lock, stop against loop, re-election | one leader; each tick enqueued once; someone takes over |
| **Webhook delivery** `internal/webhook/trigger.go` | `auth.webhook_events`; a channel of webhook ids in each service | trigger inserts and notifies; listen, process, deliver, retry, clean up | database triggers, HTTP endpoints | no claim of events, lost `NOTIFY`, full channel, stop in a delivery | at least once; duplicates only for a reason; each event settles |
| **Webhook triggers** `internal/webhook/webhook.go` | `auth.webhooks`, `webhook_monitored_tables`, the triggers of the tables | create, update, delete a webhook; increment and decrement per table | the monitored tables | statements that fail in between, overlapping calls | a table has the trigger as long as a webhook needs it |
| **Idempotency keys** `internal/middleware/idempotency.go` | `platform.idempotency_keys` | look up, create, complete, fail, expire | every mutating handler | two requests with one key; failure between record and response | retries do not repeat a success; a replay is of the same request |
| **Sessions** `internal/auth/session.go`, `service.go` | `auth.sessions`, `auth.token_blacklist` | sign in, refresh (compare and swap), sign out, revoke, expire | middleware | two refreshes with one token, a refresh against a sign-out | a token is redeemed once; a sign-out ends the session |
| **Token revocation** `internal/auth/token_blacklist.go` | markers in the database, a cache of them in each instance | revoke all of a user's tokens, check a token | middleware | stale caches, times truncated to seconds | revoked tokens are refused soon, later ones are not |
| **Login lockout** `internal/auth/user.go`, `user_management.go` | counter, lock and its end in `auth.users` | wrong or right password, lock, unlock | sign-in | the user is read once and written later | wrong passwords bounded; the two kinds of lock keep apart |
| **Branching** `internal/branching` | `branching.branches`, the databases | create, reset, delete, expire | `CREATE DATABASE`, cleanup scheduler | check then act, status overwritten, crash between row and database | rows tell the truth about the databases |
| **Branch router** `internal/branching/router.go` | map of pools, LRU list, count of connections, a mutex | look up, create, evict, close | requests, deletions, resets | a pool closed while in use, with the mutex held | books consistent; limit kept; lookups return |
| **Tenant databases** `internal/tenantdb` | `platform.tenants`; a cache of pools | create, migrate, delete, repair | `CREATE DATABASE`, requests of tenants | failures in a long sequence of steps | an active tenant has its own database, a database has a tenant |
| **Realtime connections** `internal/realtime` | maps and counts of connections, subscriptions, slow clients | add, subscribe, authenticate, remove, check, shut down | WebSocket handlers | three goroutines end a connection | nothing is left behind; counts are exact; slow clients leave |
| **Presence** `internal/realtime/presence.go` | two maps, by key and by connection | track, untrack, clean up | connections | the maps must agree when a connection ends | no ghosts |
| **Publish/subscribe** `internal/pubsub/postgres.go` | subscribers, their channels, the listener | publish, subscribe, unsubscribe, close, listen, deliver | all instances | send after unlock, full buffers, broken connections | order, no duplicates, nobody skipped |
| **Log batcher** `internal/storage/batcher.go` | channel of entries, batch | add, flush, close | log storage | add against close, failing writes | what Flush and Close report is true; entries settle |
| **Chunked uploads** `internal/storage/local_chunked.go`, `internal/api/storage_chunked.go` | a directory and a session file per upload, the object's file and row | put a chunk, complete, abort | file system, database | late chunks, double completion, complete against abort | what was answered is stored; no reservation is left |
| **Migrations through the API** `internal/migrations/executor.go` | `migrations.migrations`, an advisory lock | create, edit, delete, apply, roll back | schema | status read before the lock and written after it | the status tells what is in the schema |
| **Schema cache** `internal/database/schema_cache.go` | a snapshot of the catalogue per instance | read, refresh, invalidate, publish | publish/subscribe, every request | a refresh that overlaps an invalidation | an invalidation is followed by a new read |
| **Listener pool** `internal/realtime/listener_pool.go` | `LISTEN` connections, a bounded queue | listen, enqueue, dispatch | database triggers | order, duplicates, an early close | not modelled, see below |
| **Rate limiting** `internal/ratelimit` | counters with an expiry | get, increment, reset | middleware | end of a window | not modelled: one atomic statement |
| API, query layer, AI, MCP, functions, RPC, settings, secrets, CLI, admin, SDKs | mostly none between requests | request and response | all of the above | | not modelled |

`PROJECT.json` lists these components in more detail, the modules that cover each, and
the hazards found while reading, at the line where each bites, with the properties
that would catch it.

## Plan

The order was by how much other parts rely on a component and by how little
tests reach it.

1. `JobQueue` with the abstract `JobLifecycle`, `LeaderElection`: models, runs, proofs.
2. What passes events on: `WebhookDelivery`, `RealtimeConnections`, `LogBatcher`,
   `PostgresPubSub`, `PresenceTracking`, with liveness where something must arrive.
3. What requests share: `IdempotencyKeys`, `SessionRotation`, `TokenRevocation`,
   `LoginLockout`, `WebhookTriggers`.
4. What is made in several steps: `BranchLifecycle`, `BranchPools`, `TenantDatabases`,
   `ChunkedUpload`, `MigrationExecutor`, `SchemaCache`.
5. Proofs for the properties that decide whether a caller can trust an answer:
   the safety of every component, and that queue, sessions and router implement an
   abstract specification.

All five are done. What a continuation would take up next: the listener pool with its
duplicates and reordering, the executor of the tenants' migrations, schedules edited on
an instance that does not lead, and an abstract specification of webhook delivery.

## Modules

| Module | Content |
|---|---|
| `JobLifecycle` | the states of a job as a user of the table may rely on them |
| `JobQueue`, `JobQueueProofs`, `MCJobQueue` | tables, workers, managers, users; theorems; values for TLC |
| `LeaderElection`, `LeaderElectionProofs`, `MCLeaderElection` | electors, sessions, cron runners, shutdown; theorems; model values and symmetry |
| `WebhookDelivery` | events, services, workers |
| `WebhookTriggers` | webhooks, counts per table, triggers |
| `WebhookProofs` | theorems about `WebhookDelivery` and `WebhookTriggers` |
| `RealtimeConnections` | connections of an instance and their ends |
| `PresenceTracking` | the maps of the presence manager |
| `PostgresPubSub` | the listener and the subscribers of an instance |
| `LogBatcher` | the batcher and its callers |
| `IdempotencyKeys` | the record of one key and the requests that carry it |
| `TokenGrants` | what the holder of a token may rely on: a grant lives once |
| `SessionRotation` | sessions, grants, refreshes and sign-outs |
| `TokenRevocation` | markers, caches, checks, a clock |
| `LoginLockout` | one user's counter and lock |
| `AuthProofs` | theorems about `SessionRotation`, `LoginLockout` and `TokenRevocation` |
| `BranchLifecycle` | rows and databases of branches |
| `PoolRegistry` | what the router promises: the pool of a branch, in one step |
| `BranchPools` | the router's pools and its mutex |
| `TenantDatabases` | rows, databases and pools of tenants |
| `ChunkedUpload` | one upload with its chunks and completions |
| `MigrationExecutor` | one migration and its executors |
| `SchemaCache` | the caches of all instances |
| `RequestProofs` | theorems about `IdempotencyKeys` and `ChunkedUpload` |
| `DatabaseProofs` | theorems about `MigrationExecutor`, `BranchLifecycle` and `TenantDatabases` |
| `InstanceProofs` | theorems about `PresenceTracking`, `SchemaCache`, `LogBatcher` and `RealtimeConnections` |
| `RoutingProofs` | theorems about lists, `PostgresPubSub` and `BranchPools` |
| `MCDelivery`, `MCRequests` | small instances of the components from `WebhookDelivery` on, side by side |

The mutants of a definition stand directly above it and are used by no specification.

The families meet at few points. A cron runner enqueues a job (`Fire`), which in
`JobQueue` is a `SubmitJob`. A deleted branch loses its pool: `BranchPools` has the
status of a branch as `branchStatus`, with the two steps of a deletion or a reset that the
router can tell apart. The schema cache publishes over `PostgresPubSub`; `SchemaCache`
takes from it only that a message may be lost or come late. Nothing else is shared, so
that the components are checked apart.

## JobQueue

**What a step is.** Each action is one SQL transaction or one critical section
of Go code. Everything that may happen between two statements of the code may
happen between two actions.

| State | Code |
|---|---|
| `job[j]`: `status`, `owner`, `retries`, `due` | row of `jobs.queue`: `status`, `worker_id`, `retry_count`, `scheduled_at <= NOW()` |
| `reg[w]`, `hb[w]` | row of `jobs.workers`: status (or no row), age of `last_heartbeat_at` against `worker_timeout` |
| `inst[i]` | `Manager`: between the statements of `Start`, running, in `Stop`, gone |
| `proc[w]` | where `Worker.Start` is: running, signalled, draining, returned; `"dead"` when its process is gone |
| `beat[w]`, `poll[w]`, `sweep[w]`, `timing[w]` | the four loops of a worker between their statements |
| `exec[e]` | the goroutine of the claim `e = <<job, n>>`: its phase, worker, the `retry_count` it was claimed with, its `CancelSignal` |
| `slot[w][j]` | `Worker.currentJobs`: the claim whose signal is stored for `j` |
| `cancels` | handlers that have cancelled a row and not yet called `Manager.CancelJob` |
| `resets[j]`, `claims[j]` | history only |

| Actions | Code |
|---|---|
| `SubmitJob`, `CancelJob`, `SignalWorkers`, `RetryJob` | `handler_jobs.go`, `Manager.CancelJob` |
| `RecoverStaleJobs`, `CleanupAtStart`, `StopManager`, `ProcessExit`, `Crash` | `Manager.Start`, `Manager.Stop` |
| `StartWorker`, `SignalShutdown`, `BeginDrain`, `DrainCompletes`, `DrainTimesOut` | `Worker.Start`, `fail`, `signalShutdown`, `interruptAllJobs` |
| `Heartbeat`, `HeartbeatGoesStale`, `HeartbeatLoopExits` | `heartbeatLoop`, and the clock |
| `PollChecks`, `ClaimNextJob`, `ClaimsNothing` | `pollLoop` |
| `SweepWorkers`, `SweepOrphans` | `staleWorkerCleanupLoop` |
| `ListOverdueJobs`, `TimeoutSignals`, `TimeoutFails` | `progressTimeoutLoop` |
| `BeginExecution`, `ScriptEnds`, `ExecutionPanics`, `PanicFailsJob`, `WriteCompleted`, `WriteRequeue`, `WriteFailed`, `Unwind` | `executeJob` and its caller |

**Abstractions.** Time is what the code compares: heartbeats are fresh or stale,
jobs due or not. Priorities are left out: with `FOR UPDATE SKIP LOCKED` a claim
may pass over any row that another transaction holds, so the model lets it take
any due row. A worker draws a new uuid and an instance is one life of a
process, so that neither is used twice; a restart is the start of another
instance. A worker of `Replacements` is one that `superviseWorkers` starts; it
runs under the supervisor's context, which `Manager.Stop` cancels first
(`CtxDone`).

**Switches.** `Crashable`, `Stoppable`, `Fragile`, `Stallable`, `Silent`,
`Cancellable` and `DBMayFail` say which failures a run contains. They restrict
the environment, never the code.

**Properties.**

- `TypeOK`; its interesting part is `retries <= MaxRetries`.
- `ClaimsArePaid`: each claim is paid by the submission, by one counted retry
  or by one recovery. This bounds the executions of a job by
  `1 + max_retries + resets` under any combination of zombies and users.
- `TerminalIsFinal`: completed and cancelled are final; a failed job leaves its
  state only by a counted retry.
- `ExclusiveExecution`: at most one live execution of a job. It needs timely
  heartbeats, no shutdown and no silent script (see below); crashes and lost
  writes do not break it.
- `RobbedOnlyAfterRecovery`: without that premise, a live execution loses its
  row only after a recovery of the job.
- `EveryJobSettles`: a pending job ends, provided that one worker lives on.
- `RefinesLifecycle`: the rows follow `JobLifecycle`.

## LeaderElection

| State | Code |
|---|---|
| `holds[s]`, `owner[s]` | PostgreSQL: how often a session holds the advisory lock, and the process whose pool opened it |
| `conn[i]`, `leader[i]`, `stage[i]` | `LeaderElector`: `dedicatedConn`, `isLeader`, and where `electionLoop` is |
| `shut[i]` | how far `Server.Shutdown` is: `LeaderElector.Stop` in its three steps, `JobsModule.Shutdown`, the end |
| `cron[i]`, `loaded[i]`, `live[i]`, `due[i]` | `CronScheduler`: runner on, entries loaded, context not cancelled, the runner's next tick |
| `tick`, `enqueued[t]` | the clock of the schedule, and a history |

| Actions | Code |
|---|---|
| `StartElector`, `AcquireConn`, `ResetLeadership`, `UseConn`, `LoopEnds`, `QueryAnswered`, `QueryFails`, `QueryFindsNoSession`, `QueryPanics`, `StoreAnswer` | `electionLoop`, `tryAcquireLock` |
| `BecomeLeader`, `LoseLeadership` | the callbacks of `leaderElect`: `CronScheduler.Start`, `Stop` |
| `Fire`, `ClockTicks` | the cron runner and `enqueueScheduledJob` |
| `StopElector`, `ReleaseLock`, `ClearLeader`, `StopScheduler`, `ProcessExit` | `ShutdownModules` in reverse order, then `main` |
| `Crash`, `SessionEnds` | kill of a process; a connection breaks, or the server or the pool ends a session |

An advisory lock is re-entrant within a session and is asked for again on each
tick: `holds` counts up to `MaxHolds`, where 2 stands for "more than one
release would undo". `Stop` and `electionLoop` share `dedicatedConn` without a
lock; the model lets the steps of both interleave freely, with the outcomes a
released or missing connection can have (`QueryFails`, `QueryPanics`,
`ReleaseLock` destroying a busy connection).

**Properties.** `LeadersExclusive` (while no connection of an elector breaks),
`EnqueuedOnce` (a tick is enqueued once although leaders are killed),
`ShutdownIsFinal`, `Takeover` and `SplitBrainHeals` (liveness). `TypeOK` is a theorem.

## Events, connections and logs

As in `JobQueue`, a step is one statement or one critical section; what the code does
between two of them may be interleaved with anything.

**`WebhookDelivery`** (`internal/webhook/trigger.go`).

| State | Code |
|---|---|
| `row[e]`, `hook[h]` | `auth.webhook_events`: `processed`, `attempts`, `next_retry_at` (null, due, later); `auth.webhooks` |
| `service[s]`, `listens[s]`, `eventChan[s]`, `backlog[s]` | a `TriggerService`: its life, its `LISTEN` connection, `eventChan`, and what `checkForRetries` has still to push |
| `work[w]`, `batch[w]` | `webhookWorker`: where it is in `deliverEvent`, and the events it read with the attempts it read |
| `got`, `lost`, `failed` | history: successes per worker, those whose outcome was not written, failures |

`QueueEvent` is the database trigger with its `NOTIFY` to everyone who listens at
that moment; `CheckForRetries` and `QueueRetry` the backlog loop;
`ProcessWebhookEvents`, `Deliver`, `MarkEventSuccess`, `HandleDeliveryFailure` and
`ScheduleRetryWithoutIncrement` the worker; `ListenerFails`, `ServiceEnds`, `EditWebhook`,
`CleanupOldEvents` the rest of the world. A push finds room or is dropped.
`NotGivenUpEarly` and `DuplicatesBounded` are the two sides of at least once;
`EveryEventSettles` is its liveness. The query of the backlog has a limit and no order, so
that the model leaves open which webhooks it lists.

**`RealtimeConnections`** (`manager.go`, `connection.go`, `handler.go`,
`subscription.go`). `connections`, `ownerConns` and `counted` are the maps of the
`Manager`; `handler` is where `handleConnection` is. A connection is ended by its handler
(`LoopEnds` to `HandlerReturns`), by the check for slow clients (`CheckSlowClients`,
`DisconnectSlowClient`) and by the shutdown (`CloseAllConnections`), in any order.
`identity` changes with an access token in the middle (`UpdateAuth`).
`RegistryConsistent`: the counts are exact and nothing is left behind. `SlowClientsLeave`
is liveness.

**`PresenceTracking`** (`presence.go`). `presences` and `connPresences` are the two maps.
Each operation runs under the mutex; what is hard is that keys are chosen by
clients, so that connections take keys from each other. `PresenceTruthful` says what
remains true, and excepts what the code cannot know: keys that several connections used
(`contested`) and keys that a connection left for another one of the channel
(`abandoned`), of which the manager keeps one per connection and channel.

**`PostgresPubSub`** (`postgres.go`). `WaitForNotification`, `DeliverMessage` and
`DeliveryEnds` are `listenLoop` with the list of subscribers that it copies under the mutex
and serves after it; `Unsubscribe`, `CancelListener` and `CloseSubscribers` close channels
meanwhile. A send on a closed channel panics (`"panicked"`). `DeliveryUndisturbed`: order,
no duplicates, nobody skipped, and a panic only when a subscription ended under a delivery
(`racing`).

**`LogBatcher`** (`batcher.go`). `place[e]` is where an entry is, from `AddChecks` (the
flag, under the mutex) and `AddSends` (the channel, after it) to the table.
`TakeEntry`, `ServeFlush`, `FlushTick` and `RunEnds` are the cases of `run`; `CloseMarks`,
`CloseSignals`, `CloseReturns` the three steps of `Close`. `NothingLostSilently`: what
`Flush` and `Close` report is true, except of entries whose `Add` raced `Close`
(`belated`). `EntriesSettle` is liveness.

## Requests

**`WebhookTriggers`** (`webhook.go`). `GetWebhook`, `WriteWebhook` and one `AdjustCount`
per table, each in a transaction of its own; `CallEnds` may come early. `TablesWatched`:
trigger and count always agree, and after regular calls, those for different webhooks
overlapping, they agree with the webhooks.

**`IdempotencyKeys`** (`idempotency.go`). One key; `request[r]` is where the middleware
is: `Lookup`, `CreateRecord` (`INSERT ... ON CONFLICT DO NOTHING`), `Recheck`, `DropRecord`,
`RunHandler`, `UpdateRecord`. Statements fail (and the middleware goes on), records expire,
the server ends. `RepeatsExcused` and `ReplayIsOwn` are about requests that do not overlap:
overlapping ones may both run, since the middleware proceeds when it finds a record of
another request in progress after its own insertion (`idempotency.go:244`).

**`SessionRotation`** (`session.go`, `service.go`). A grant is a pair of tokens; the row of
a session holds one. `GetByRefreshToken` and `UpdateTokens` (the compare and swap on the
old hash) are a refresh; `SignOut`, `FindSession` and `DeleteSession` a sign-out.
`RefinesGrants`: the sessions implement `TokenGrants`, where a grant is handed out,
redeemed for its one successor, or ended, each in one step, and never lives again. A refresh
whose answer was lost has redeemed its grant there, too. `SignOutEnds`: a reported sign-out
is final. `RedeemedOnce`, that no session holds a grant that was redeemed and none was redeemed
twice, is a theorem.

**`TokenRevocation`** (`token_blacklist.go` and the middleware). A clock in ticks, `Second`
ticks to a second, to which the `iat` of a token is truncated. `LookInCache`, `QueryMarker`
and `StoreEntry` are a check; `InvalidateUserCache` and `InsertMarker` a revocation.
`RevocationExact`: refused within `CacheTTL` plus the time of one check, and no
token of a later second is refused.

**`LoginLockout`** (`user.go`, `user_management.go`). `ReadUser` reads once; `WrongPassword`
counts and locks in one statement. `GuessesBounded` bounds the wrong passwords by the
threshold, one per concurrent request and one per lost write. `LockHolds` keeps the automatic
lock and the administrator's apart, except that the latter leaves an old `locked_until`
alone (`user_management.go:475`).

## Databases, uploads and schemas

**`BranchLifecycle`** (`manager.go`, `storage.go` of `internal/branching`). The steps of
`CreateBranch` (`CheckLimits`, `GetBranchBySlug`, `RecordBranch`, `CreateDatabase`,
`WriteStatus`), `DeleteBranch` and `ResetBranch` (`GetBranch`, `MarkBranch`, `DropDatabase`,
`DeleteRow`), each of which may be the last (`Abandon`). Two names may share a database
name; `mixed` records the databases that two rows or two operations shared.
`RowsTellDatabases` and `OvershootBounded`.

**`BranchPools`** (`router.go`). `poolOf`, `lruList`, `conns` and `poolsMu` are the
router's; `lookup[r]` is where a caller is in `GetPoolForBranch`, `createPool`,
`evictLRUPool`, `ClosePool`, `RefreshPool` or the idle loop. Closing a pool waits for its
connections while `poolsMu` is held (`Evicted` and `Closed` have `~InUse(p)` as a guard).
`RouterTruthful` and, as liveness, `LookupsReturn`. `RefinesRegistry`: all this implements
`PoolRegistry`, where no mutex exists and a lookup, the opening of a pool and its closing
are one step each. A pool is closed there as soon as its closing begins: nobody is handed a
pool from then on, while the router waits for those who have it.

**`TenantDatabases`** (`manager.go`, `storage.go`, `router.go` of `internal/tenantdb`).
Creation from `CheckMaxTenants` to `FinishTenant` with `RollbackTenantDatabase`; soft and hard
deletion; `RecoverTenant`; `GetPool` and `OpenPool`; `Drop` and `InstanceCrash`.
`TenantsMatchDatabases` excepts tenants that a recovery or overlapping operations
`muddled`; `PoolsOfTheSeen` excepts pools opened `late`.

**`ChunkedUpload`** (`local_chunked.go`, `storage_chunked.go`). Requests for chunks
(`LoadForPut`, `CreateChunk`, `WriteChunk`) and completions (`LoadForCompletion`,
`AuthorizeUploadWrite` with the placeholder's row, `CreateObject`, `CopyChunks`, `CleanUp`,
`StoreUploadedObject`, `Undo`) on the files of the session, the object's file and its row.
`AnsweredIsStored`, `NoReservationLeft`.

**`MigrationExecutor`** (`executor.go`, `storage.go` of `internal/migrations`).
`ReadMigration` reads the status before `TryLock` takes the advisory lock; `Commit` commits
script and status; `MarkFailed` writes "failed" after the lock was released. The answer of a
commit may be lost. `StatusTruthful` says what an administrator may rely on; the run
`MigrationRace` shows what one may not.

**`SchemaCache`** (`schema_cache.go`). Readers `StartRefresh`, `Fetch` and `Swap`;
requests that change the schema `Alter`, `InvalidateOwn`, `PublishInvalidation`.
`InvalidatedIsReread` excepts what the code does not prevent: a refresh that an
invalidation overtakes stores what it read and clears the mark (`missed`).

**History variables** (`racing`, `mixed`, `muddled`, `late`, `crossed`, `overlapped`,
`contested`, `abandoned`, `disturbed`, `missed`, `belated`, `regular`, `raced`) record that
a case occurred which the code does not handle. No guard depends on them; properties use
them to say exactly what such a case may spoil.

## Runs

| Run | Question | Bounds and failures |
|---|---|---|
| `JobQueueCrash` | Do crashes, lost writes and users keep a job exclusive, paid, final? | 1 job, 3 workers on 2 instances that may be killed, 2 retries, 5 claims, statements fail, job may be cancelled |
| `JobQueueStop` | Shutdown, a replacement worker and the zombie of a worker declared dead: do they respect the row and `JobLifecycle`? | 1 job, 1 fragile worker and its replacement with late heartbeats on an instance that is shut down, another instance that starts and recovers, no retry, 2 claims |
| `JobQueueLive` | Does each job settle after a crash? | 2 workers on 2 instances, one may be killed, silent script, statements fail, 4 claims |
| `LeaderCrash` | One leader, each tick once | 3 instances, 3 sessions, 2 may be killed, 2 ticks |
| `LeaderStop` | Stop against the loop, failing queries | 2 instances, both may be shut down, one killed |
| `LeaderTakeover` | Does somebody take over? | 3 instances, one killed, one shut down |
| `LeaderSplit` | Does a split brain heal? | both connections may break, again and again |
| `Delivery` | Does what was accepted arrive: events, log entries, lookups; do slow clients leave? | see below |
| `Requests` | Is the shared state of concurrent requests and instances true to what callers are told? | see below |

Three further runs (`JobQueueRestart`, `LeaderReelect`, `MigrationRace`) each check one
statement of a comment or a document and find it violated; see below.

**`Delivery` and `Requests`** check several components that share no state in one run. The
variable `part` of `MCDelivery` and `MCRequests` is chosen at the start and never changes:
it names the component that moves in a behaviour, the others rest in their initial state.
The states of the run are the sum of those of the components, not their product, and each
property is checked in the behaviours of its own component (in the others it holds of the
initial state). `Delivery` has four components under fairness, `Requests` has fourteen
(about two million states).

| Component | Bounds in `Delivery` (D) and `Requests` (R) |
|---|---|
| `WebhookDelivery` | 1 event, 2 services with a worker each, 2 attempts, channel of 1, 1 statement that fails; one service may die, the other may lose its listener; in R also 1 edit of the webhook |
| `RealtimeConnections` | D: 2 connections of one owner, 1 allowed per owner |
| `LogBatcher` | D: 3 entries, 1 flush, channel and batch of 2, 1 failed write |
| `BranchPools` | 2 callers, 2 branches of one slug, 1 connection per pool and in all, 2 pools created; D: closed by the idle loop; R: also by deletions and resets |
| `WebhookTriggers` | R: 2 webhooks, 1 table, 2 requests, 3 calls, 2 entries |
| `PresenceTracking` | R: 2 connections, 1 channel, 2 keys |
| `PostgresPubSub` | R: 3 subscriptions, 2 channels (one never listened to), 2 messages, buffers of 1, 1 break |
| `IdempotencyKeys` | R: 3 requests, the last with other content, 1 failed statement, 1 expiry |
| `SessionRotation` | R: 2 requests, 3 grants, 1 failed statement |
| `TokenRevocation` | R: 2 instances, 2 checks, 1 revocation, 1 token, 5 points in time, 2 ticks to a second and to the life of the cache |
| `LoginLockout` | R: 2 logins, threshold 2, 4 wrong passwords, 1 administrator's lock, 1 lost write |
| `BranchLifecycle` | R: 2 operations at once, 4 in all, 4 names (3 of a tenant, 1 without), limit 1, 3 rows, 1 failure |
| `TenantDatabases` | R: 3 operations at once, 4 in all, 1 slug, 2 tenants, 1 failure, crashes |
| `ChunkedUpload` | R: 3 requests for 2 chunks, 2 completions, 1 failed upsert, abort |
| `MigrationExecutor` | R: 2 executors, 2 texts, 2 rows, 2 commits, 1 lost answer |
| `SchemaCache` | R: 2 instances, 2 readers on one, 2 changes |

**Why these bounds are enough.** Rows of different jobs interact in two ways
only: through the capacity of a worker, and in the listings of recovery and
sweep, which treat each row alike. One job with several executions therefore
shows the races for a row; `MaxClaims` admits one execution more than the
retries, and a recovery or two. Three workers on two instances are the
fewest with an owner, a peer that sweeps, and a worker that starts meanwhile.
Three instances are the fewest where a leader dies and two others compete. In the
other components a hazard is a race of two operations for one row, file or map, after at
most one failure; where three matter (two subscribers and a third, two requests and the
retry, two writers of a chunk and a second chunk) there are three. The
proofs lift the bound for the properties they cover. `MaxClaims` limits
`ClaimNextJob` and `MaxTicks` limits the clock, so that no run explores
histories beyond them; every other bound of a model is a constant that its declaration
calls "bound of the model". `MaxHolds` loses nothing for the properties: the code
releases at most once per life.

With one event, `Delivery` cannot show a webhook that waits behind others. What the
backlog does then is among the hazards: due events of disabled webhooks are never
delivered, but are listed again on every tick and may fill the limit (`trigger.go:766`), so
that `EveryEventSettles` would not hold with more disabled webhooks than the limit; the
property speaks of a backlog within it.

Each property was seen to fail: for each one `PROJECT.json` lists a mutant of a
definition, a plausible mistake in the code it models, under which the same run reports
the property violated.

Deadlock is not checked: instances are shut down or killed, jobs all settle, requests are
all answered and the bounds are reached, so that the system really may stop.

## Fairness

`FairSpec` of `JobQueue` assumes that goroutines are scheduled, tickers tick,
scripts end (`max_duration_seconds`), time passes, and that a statement which a
loop repeats on each tick does not fail for ever. The last is strong
fairness of its *successful* instance (`ClaimNextJob`, `SweepWorkers`,
`SweepOrphans`, `TimeoutFails`). Nothing is assumed about users, crashes,
shutdowns, or the final write of `executeJob`, which is tried once and may be
lost.

`FairSpec` of `LeaderElection` assumes that the loop of a living process and a
shutdown once begun go on, that queries are answered (otherwise the query's
timeout fails it, which is a step too), and that the sessions of a dead process
end (TCP keepalive) as do those that idle in a pool beyond their lifetime
(`MaxConnIdleTime`, `MaxConnLifetime`; without it a lock that went back to a
pool would never be free again). The clock and the cron runner need no
fairness for the properties stated.

`HookFairness` assumes that services start, that their loops and workers are scheduled
and that the retry time is reached. Two assumptions are strong: the rate limiter, whose
budget is renewed, lets a worker through again and again; and a retry, which is pushed
again on every tick of the backlog loop, again and again finds room in the channel.
Nothing is assumed about notifications, receivers or statements.

`RealtimeFairness` assumes that the check for slow clients goes on, and that the handler
of a connection that was closed returns, since its read fails. That a client reads, or
closes, is not assumed.

`BatcherFairness` assumes that the goroutine of `run` and its ticker go on.

`PoolsFairness` assumes that queries end and that whoever holds `poolsMu` goes on; taking
the mutex is strongly fair, because Go's `sync.RWMutex` starves nobody: a writer that waits
holds later readers back, and among writers the lock goes to one that has waited for a
millisecond. `LookupsReturn` would be violated if anybody waited for
a pool of its own with the mutex held, which is what its mutant does.

## Proofs

All theorems hold for any finite or infinite sets of jobs, workers, instances,
sessions, requests and so on, and for any values of the bounds that satisfy the named
assumptions of the modules, which TLC evaluates in each run: `NoWorkerAssumption`,
`HostAssumption`, `BoundsAssumption`, `FailureAssumption` (`JobQueue`);
`NoSessionAssumption`, `CountsAssumption`, `QueryAssumption` (`LeaderElection`);
`HooksAssumption`, `DeliveryBoundsAssumption`; `PresenceAssumption`; `BatcherAssumption`;
`RotationAssumption`; `LockoutAssumption`; `RevocationAssumption`; `KeyAssumption`;
`ChunkAssumption`; `BranchAssumption`; `MigrationAssumption`; `CacheAssumption`;
`TriggerAssumption`; `RealtimeAssumption`; `TenantAssumption`; `PubSubAssumption`;
`PoolAssumption`. They type the constants and keep the values for "nobody" apart from the
others; what little some say beyond that is named below. Five theorems have
premises of their own, which are named where they are listed.

Every safety invariant, action property and refinement that a passing run checks is stated by one of
these theorems.

In `JobQueueProofs`:

- `TypeCorrect`. The type invariant is inductive as it stands.
- `EveryClaimIsPaid`. `ClaimsArePaid` becomes inductive together with `TypeOK`. The
  argument goes through one classification: lemmas `JobMoves` and `StepMoves`
  show that *each* step of `Next` either leaves the status, retries, resets and
  claims of all jobs alone, moves one job along one edge of its life cycle, or
  recovers a set of running jobs. The two theorems that follow use the kinds
  of moves only and never look at the actions again.
- `TerminalStaysFinal`. From the same classification, as an action property.
- `ImplementsLifecycle`. Initial states map to initial states; each kind of move
  is an action of `JobLifecycle` or a stutter.
- `NobodyRobsUnrecovered`: `Silent = {} => (Spec => []RobbedOnlyAfterRecovery)`. The
  invariant `Owning` says who may touch a running row that was never recovered:
  `WorkersKnown` (an execution has a worker, and its worker is that of the row), `WorkOwns`
  (an execution before its final write owns the row) and `WatchOwns` (what the progress
  timeout has listed is past the point where a live script could be hit).
- `OneLiveExecution`: `OnTime /\ Silent = {} => (Spec => []ExclusiveExecution)`, where
  `OnTime` says that no heartbeat is late, no instance is shut down and no worker loop
  panics. On time, recovery only takes rows whose worker is dead (`RowsTrue`), so that
  `WorkOwns` needs no exception for recovered jobs, and two live executions would both own
  the row.

In `LeaderElectionProofs`:

- `TypeCorrect`. The type invariant is inductive here, too.
- `ExclusiveLeadership`: `Droppable = {} => (Spec => []LeadersExclusive)`.
  `LeadersExclusive` is not inductive: an elector believes in an answer that may
  be old. The invariant `Inv` adds three facts. `ConnOwned`: the connection of
  an elector whose process is not gone is a session of its own pool.
  `OneHolder`: at most one session holds the lock. `LeaderHolds`: an elector that is
  leader, or has just been told so, and is not being stopped, holds the lock on
  its connection. Two leaders would then hold one session that belongs to
  two pools.
- `NothingAfterShutdown`: `Spec => []ShutdownIsFinal`. The election loop may start the
  runner after `Stop`; what makes the shutdown final is the scheduler's context, which is
  cancelled and never renewed (`ContextGone`).
- `TicksEnqueuedOnce`: `Undisturbed => (Spec => []EnqueuedOnce)`; `Undisturbed` says that no
  connection breaks, nobody shuts down and no query fails. `RunnerLeads`: who has a runner
  is leader. `TicksAhead`: the next tick of a runner that leads is later than all that
  have been enqueued.

The other six modules prove one inductive invariant per component, in lemmas of three
kinds (it holds initially, one lemma per group of actions, every step preserves it), and
the theorems from it:

| Component | Theorems | What makes the property inductive |
|---|---|---|
| `WebhookDelivery` (`WebhookProofs`) | `EventsNotGivenUp`, `DuplicatesOnlyWhenLost` | `AttemptsFailed`: attempts, in the row or in a batch, never exceed the failures there were. `SuccessWritten`: a success is in the row, about to be written, or lost |
| `LogBatcher` (`InstanceProofs`) | `CallersToldTheTruth` | `OwedOnTheirWay`: what a flush waits for is on its way or settled. `CheckedBelated`, `EndedEmpty`: after the loop has ended only late entries are in memory |
| `MigrationExecutor` (`DatabaseProofs`) | `StatusIsTruthful` | `RowsInOrder`: ids are never given again. `ReadHolds`: if nothing overlapped, what the one busy executor read still holds |
| `PresenceTracking` (`InstanceProofs`) | `PresenceIsTruthful` | `Indexed`: what a connection tracks is in its own entry, unless abandoned. `OnlyOpen` |
| `SchemaCache` (`InstanceProofs`) | `InvalidatedCachesReread` | `FetchedWhole`: a refresh that was not outrun has read what arrived before it. `CachedWhole`: the property without the lifetime |
| `SessionRotation` (`AuthProofs`) | `RotationTypeCorrect`, `TokensRedeemedOnce`, `SignOutIsFinal`, `SessionsKeepThePromise`, `PromiseIsKept` | `InOrder`, `OfIssued`: a new grant is new. `OneHolder`: no two sessions hold one grant. `FoundAlone`: once a sign-out has found its session, no other one comes to hold the grant |
| `LoginLockout` (`AuthProofs`) | `GuessesLimited`, `LockKept` | `Foreseen`: the wrong passwords and the requests about to compare one stay below the bound together, since a request is admitted only under the threshold (`Counted`, `CounterLocks`). `QuietLock`: an administrator's lock that met no request admits none |
| `TokenRevocation` (`AuthProofs`) | `RevocationReaches` | `Past`, `ChecksInTime`: times are in order and checks last at most `Patience`. `ReadCovers`, `EntryCovers`: what a check has read, or a cache holds, covers the revocations before it began, or some time before it was stored |
| `IdempotencyKeys` (`RequestProofs`) | `RetriesExcused`, `RepliesOwn` | `OneServed`: requests that do not overlap are served one at a time. `ExcusesLeft`: each stage of the record and of that request has a part of the failures in hand that excuses the next run. `ResponseFits`: a stored response is for the content of the record |
| `ChunkedUpload` (`RequestProofs`) | `AnswerIsKept`, `ReservationsEnd` | `HolesOverlap`: a hole comes from two requests for the chunk. `ReservedRuns`: a placeholder is that of a completion that runs. `Uncrossed`: the row and the file are as the one completion left them |
| `BranchLifecycle` (`DatabaseProofs`) | `RegisterIsTrue`, `OvershootIsBounded` (of finitely many operations) | `SharedIsMixed`: what two rows or operations share is recorded as mixed, so that the operation on any other database works alone. `OperationsKnow`: what it knows of its row and database at each stage. `OperationsWork`, `BranchRowsInOrder`. `Overshoot`: the rows that count and the creations that were admitted stay below limit and operations together |
| `WebhookTriggers` (`WebhookProofs`) | `TriggersFollowWebhooks` | `Balanced`: a count and the increments on their way are the webhooks that use the table and the decrements on their way. `NoOverlap`, `ReadWhatIsThere`: regular calls are for different webhooks, and what one read still holds when it writes. `RisingForUsers`: an increment on its way is for a webhook that uses the table |
| `TenantDatabases` (`DatabaseProofs`) | `TenantsAndDatabasesMatch`, `DeletionsTakeThePool` | `OneEach`: a tenant has one creation, and one hard deletion unless it is muddled. `CreationsKnow`, `DeletionsKnow`: what each may rely on at its stages, such as that the database is there or gone. `SoundHaveDatabases`, `ActiveAreSound`: a tenant that was activated has its database, so that a recovery may make it active again |
| `RealtimeConnections` (`InstanceProofs`) | `RegistryIsConsistent` | `HandledConnections`: a connection is in the maps only while its handler is between its admission and its return. `EndsInOrder`: the handler takes out the subscriptions, closes and removes, whoever else has begun to |
| `PostgresPubSub` (`RoutingProofs`) | `DeliveryIsUndisturbed` | As long as nothing raced: `PendingInOrder`, `HandedOut` and `ReceivedBefore` order the messages that wait, the one that is handed out and those that arrived; `OwedIsOnTheWay`: what a subscriber is owed waits or is being handed out |
| `BranchPools` (`RoutingProofs`) | `RouterIsTruthful`, `RouterIsARegistry` | `LockHeld`: who is in a stage under the mutex holds it. `ListAgrees`: the list is the map without the pool that is being closed (`BeingClosed`), and the count follows it. `StageHolds`: what the double check and the eviction have established still holds when the pool is stored. `ChangesHold` |

**Refinements.** A theorem that one specification implements another shows that each step
of the first, taken in a state of the inductive invariant, is a step of the second or
leaves its variables alone. For `SessionsKeepThePromise` the live grants are those in a row
(`Held`); `UpdateTokens` is `Redeem`, also when its answer is lost, and whatever deletes rows is
`End`. That a new grant was never handed out is `InOrder`, and that only the redeemed one goes is
`OneHolder`. `PromiseIsKept` then states what a client may
conclude from `TokenGrants` alone, without rows, hashes or transactions. For
`RouterIsARegistry` a branch has the pool of the map unless it is marked as closed (`Entry`), and
a caller holds what it was handed until it leaves (`InHand`). The list, from which
the router removes a pool at once, agrees with the map in the stages between by
`ListAgrees`; that `Open` finds no pool of the branch and the count below the limit is
`StageHolds`, which is what the second check under the mutex is for.

**Lists.** The router's LRU list and the subscribers of a channel are sequences without
repetition. `TakenOut`, `RemovedFromList`, `AppendedToList` and `HeadAndRest` state once what
removing, appending and taking the head do to the elements, their order and their
distinctness; the proofs about both components cite them.

Each invariant was checked by TLC, in the instances of the runs, before it was proved.
The proofs rest on the assumptions of the modules. Beyond the types of the constants these
are: the requests of a login are finitely many (`IsFiniteSet(Logins)`), which counting
them needs; a cache of markers lives longer than no time (`CacheTTL > 0`;
`token_blacklist.go:180` has five seconds); and the names of requests are none of the words
that stand for an answer.

Only model-checked: all liveness (`EveryJobSettles`, `Takeover`, `SplitBrainHeals`,
`EveryEventSettles`, `SlowClientsLeave`, `EntriesSettle`, `LookupsReturn`). It rests on
fairness, hence on `ENABLED`, which is out of the prover's reach.
Of the type invariants that of `JobQueue` is among the properties of a run, and those of
`JobQueue`, `LeaderElection` and `SessionRotation` are theorems; the others are part of the inductive
invariants of the proofs, and are not repeated among the properties.

## Where code and words differ

Each run below ends in a violation; its counterexample is a history of the code
as it is.

| Run | Statement | What the code does |
|---|---|---|
| `JobQueueRestart` | `internal/jobs/manager.go:84`: live workers on other instances are never disrupted | a draining worker already counts as stopped, its jobs are taken away |
| `LeaderReelect` | `docs/src/content/docs/deployment/scaling.md:486`: another instance takes over | a leader elected for the second time has a dead scheduler |
| `MigrationRace` | `internal/migrations/executor.go:68`: the transaction prevents that a committed migration is executed again | the status is read before the lock and not again under it, so that two executors commit the script one after the other |

The models contain further histories that a reader of the documents would not
expect, and the properties are stated around them.

*Jobs and election*

- The table's CHECK has no status `interrupted` (`jobs.sql:219`): the write of a worker
  whose drain times out always fails, and the rows stay running.
- `progressTimeoutLoop` lists jobs in a context without a tenant (`worker.go:437`): it
  does not see the jobs of tenants, so that `EveryJobSettles` is checked for the others.
- A poll that passed its checks claims a job after the drain began; the drain,
  which counts only executions that have started, ends without it
  (`worker.go:286`, `497`). The job is recovered like that of a crash.
- A cancel that is served between the claim and `currentJobs.Store` signals
  nobody (`worker.go:502`); the script runs on and its result is discarded.
- `background-services` is shut down before `jobs`, so that an instance runs its
  scheduler for a moment without the lock (`module_background.go:130`); and a
  leader whose connection breaks schedules until its next tick. Both can enqueue
  a tick twice, which is why `EnqueuedOnce` is checked under kills only.
- The advisory lock is taken on each tick and released once, and a failed query
  returns an intact connection to the pool (`leader.go:144`, `194`): the
  instance's pool goes on holding the lock until that session ends. No second
  leader follows from it, but the takeover waits.

*Events and connections*

- A webhook listener whose connection breaks never listens again
  (`trigger.go:443`); its service lives on the backlog loop.
- A subscription that ends while a message is being handed out closes a channel that is
  about to be sent to (`pubsub/postgres.go:148`); the panic ends delivery for the instance.
  The removal also shifts the array that the delivery ranges over (`:217`). `listenLoop`
  never listens to the channels of the logs (`:91`), and a `LISTEN` that fails is only
  logged (`:97`).
- A presence key that a connection left for another one of the same channel stays
  after the connection has gone.
- An entry whose `Add` saw the batcher open just before `Close` may reach a channel that
  nobody reads any more (`batcher.go:67`).

*Requests*

- Two requests with one idempotency key that overlap may both run
  (`idempotency.go:244`), and so may one whose record has expired but was not cleaned up,
  since the insertion finds a conflict with it (`:365`).
- The lock of an administrator leaves an old `locked_until` in place, with which the
  next login lifts it (`user_management.go:475`).
- A sign-out whose token was refreshed meanwhile reports success and ends no session (`service.go:551`).

*Databases, uploads and schemas*

- Creations that run at once exceed the limit of branches by one less than their number
  (`branching/manager.go:104`); names that differ may share a database name.
- `RecoverTenant` makes a tenant active whatever it was before its deletion
  (`tenantdb/storage.go:358`); a request that read a tenant before its deletion opens its
  pool afterwards (`tenantdb/router.go:69`).
- A completion of an upload that is retried while the first one runs may remove
  the stored object; and a chunk that arrives late makes the session active again.
- "failed" is written over "applied" by an executor that lost the race for the lock's
  release (`migrations/executor.go:111`).
- A refresh of the schema cache that overlaps an invalidation clears its mark
  (`schema_cache.go:380`), and a schema that could not be read is left out until the TTL
  has passed.

## What is not modelled

Inside the modelled components: for jobs, the order of claims, request validation, progress
values, execution logs, the SQL of listings except for its tenant filter; for the election,
cron expressions, the limit on concurrent scheduled runs, changes to the schedules. A
loader of schedules whose five tries fail because the database is down is left out,
since nothing can be scheduled then. What is left out of each other component is noted with
it in `PROJECT.json`; it is the data that no property is about (payloads, signatures,
headers, published states, log entries, SQL texts), second backends with the same
operations (local and Redis publish/subscribe, S3) and statistics.

Components that keep state and are not modelled, with what was seen in them:

- *Listener pool* (`internal/realtime/listener_pool.go`): each of its connections listens to
  the same channels, so that a notification arrives once per connection (`:274`), and its
  workers may hand two notifications over in another order than they came (`:283`).
- *Executor of the tenants' migrations* (`internal/migrations`): its handler makes a new
  executor for each request, so that its mutex excludes nobody; the advisory lock does.
  *Declarative schemas* compare and generate SQL.
- *Metrics of realtime* (`internal/realtime/manager.go:79`) iterate over the
  subscriptions of a connection without its mutex.
- *Schedules edited through the API* of an instance that does not lead
  (`internal/jobs/handler_sync.go:394`) reach the runner of the leader only when it starts
  again.
- *Pools on other instances*: a deletion of a branch closes the pools of the instance that
  serves it; those of the others stay until they idle out. `BranchPools` is one instance.
- *Rate limiting* and the single-use tokens of the other authentication services are one
  atomic statement each.

The rest has no protocol to model: the query layer, REST and GraphQL, AI, MCP, functions,
RPC, settings, secrets, email, the command line, the admin interface and the SDKs
translate requests or data and keep no state between two requests that could be out of
step. They are most of the repository's lines, which is why the lines mapped are a small
share of it.
