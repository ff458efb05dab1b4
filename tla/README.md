# Longtail Forge: formal models and proofs

Longtail Forge is a Node.js server for small offices: tasks, time tracking, notes,
lists, clients and projects in workspaces, on one SQLite database (better-sqlite3). The
application code lies under `src/src/`; paths below are relative to that directory unless
they start with `docs/`, `help/` or a file of the repository's root.

This directory holds TLA+ modules of the parts of that server whose correctness depends on
interleaving, crashes and retries, TLC configurations that check them on small instances,
and TLAPS proofs of the same properties for every instance.

    tlc -config MCJobQueuePlain.cfg MCJobQueue      # a run; the others alike
    tlapm JobQueueSafetyProofs.tla                  # a proof module; the others alike

## 1. Inventory

One process serves HTTP. Background work is done by a *job worker*, which is either a timer
in that process (`LONGTAIL_WORKER_MODE=inline`, the default) or a second process
(`separate`, `worker.js`). Processes share the database file in WAL mode, a directory of
stored files, and two lock files. Inside a process everything is asynchronous: each `await`
between two database calls is a point where other requests run.

| component | state it keeps | operations | what is hard | what makes it correct |
|---|---|---|---|---|
| durable job queue (`core/jobs`, `services/jobs.service.js`) | table `jobs`, worker lock file, worker status in memory | enqueue with deduplication, claim, run, mark completed or failed, prune, start, shutdown | crash in mid-job, leases, verdicts without fencing, restart, signal, failing writes | one execution at a time (while one worker runs), no duplicate active row, terminal rows final, every job settles |
| SQLite adapter (`db/adapters/sqlite-adapter.js`) | one connection, the promise `transactionTail`, an async-local flag | query, get, run, transaction | concurrent callers on one connection, failing callbacks, a second process | calls are atomic, run in order, always answered |
| workspace purge (`services/workspace-purge.service.js`, `repositories/workspace-purge.repo.js`) | lifecycle row, tombstone, workspace status, stored files | request, cancel, fence, finalize, mark failure | running jobs of the workspace, cancellation at the last moment, files and rows deleted together | nothing runs or is removed before the grace period is over, a purge ends, nothing recorded stays |
| active timers (`modules/time-tracking/active-timers.*`, `modules/tasks/task-timers.service.js`) | table `active_work_timers` | save, pause, resume, finalize, remove, convert, compact slots | two browser tabs, statements without a transaction, a task's status moved first and reverted later | one running timer per user, no time lost or saved twice |
| search index (`services/search-index-*.js`, `services/search.service.js`) | table `search_index`, `search.index` jobs | queue reindex or removal, handle, rebuild | deduplication against a running handler, different keys for reindex and removal, swallowed enqueue errors | the index ends up agreeing with the records |
| task recurrence and reminders (`modules/tasks/task-jobs.service.js`, `task-recurrence.*`) | templates, instances, reminder and sweep jobs | complete, open, skip, archive, generate, sweep, fire | generation job, sweep and users at the same time; an instance made in several statements; a sweep that queues its successor | an instance is made once, a stopped chain has a reason and is revived, reminders fire once |
| notifications (`services/notifications.service.js`) | notifications, preferences, event jobs | queue event, fan out, read, dismiss | at-least-once jobs | a delivery key reaches each recipient once |
| files and scanner (`services/files.service.js`, `files-scanner-job.service.js`) | file rows, stored objects, scan jobs | upload, scan, quarantine, delete, purge | delete during a scan, row and object out of step | only scanned files are served, no lost objects |
| authentication throttle (`security/auth-throttle.js`, `repositories/authentication-throttle.repo.js`) | admission counters in memory, table of failures | admit, check, record failure, reset, prune | check and record are apart, slots given back on every path | limits hold, a lock lasts its time, counters return to zero |
| migrations and start-up (`db/migrations.js`, `migration-lock.js`, `startup-coordinator.js`) | migration table, lock file | lock, migrate, repair, release | crash in between, two processes starting | migrations run once and in order |
| sessions and support view (`services/sessions.service.js`, `support-view.service.js`) | sessions, support sessions | sign in, revoke, begin and end support view | expiry, revocation while a request runs | a support session never outlives what it rests on |
| notes catalog security (`modules/notes/catalog-security.service.js`) | transition rows, encrypted notes | secure, resume, complete | crash in mid-transition | readers see the secure policy from the first step on |
| public demo budgets (`core/public-demo-budgets.js`) | usage counters | reserve, count | concurrent requests at the limit | a budget is never overdrawn |
| permissions, settings, audit, help, reporting, workbench, lists, tags, clients, projects | plain rows | create, read, update, delete | - | covered by the repository's own tests |
| HTTP wiring, browser user interface, storage adapters, archives | - | I/O | - | out of scope |

How they interact: every component calls the database provider (`db/provider.js`, the
SQLite adapter). Mutations queue jobs; the worker claims them and calls the registered
handlers, which call the same services. The purge is itself a job and deletes the jobs of
its workspace. `PROJECT.json` lists every component with its sources and status, and every
hazard found with the line where it bites.

## 2. Plan

1. **JobQueue**, with the abstract **DurableOutbox** it implements. *Done*, proved.
2. **SqliteAdapter**, with the abstract **AtomicStore** it implements: this is what lets
   every other module treat a statement or a transaction as one step. *Done*, proved.
3. **ActiveTimers**: requests of one user as processes that take one statement per step.
   *Done*, proved.
4. **SearchIndex**: records, jobs and the two index tables; which gaps can last, and that
   nothing else does. *Done*, proved.
5. **TaskRecurrence**: completion, generation job, sweep and users. *Done*, proved.
6. **WorkspacePurge**, with the abstract **WorkspaceDeletion** it implements. *Done*, proved.
7. Left out after reading them again: the authentication throttle (its in-memory admissions
   change between awaits only and are given back in `finally` blocks; its failure windows are
   read and written in one transaction), notification fan-out (the id of a notification is
   derived from its delivery key, so a repeated job meets its own row), the public demo
   budgets (one transaction), and the migration lock (the protocol of the worker's lock file
   around a sequential program).
8. Worth adding next: the scan job of files against deletion; task reminders, whose
   memory of having fired is a job row that retention deletes; the securing transition of the
   notes catalog.

Abstract specifications are stated where a component promises more than a single invariant
can say: an outbox, an atomic store, a deletion. What the index and the recurrence promise
is one sentence each, and is stated as an invariant and a liveness property. Runs stay at two
processes or requests and two or three records each: every hazard listed needs two actors and
at most one fault, and the second fault shows what a repetition does.

## 3. The modules

| module | what it is |
|---|---|
| `JobQueue` | jobs table, producers, clock, pruning, worker processes, lock file, purge fence |
| `DurableOutbox` | what the queue promises its producers |
| `SqliteAdapter` | the promise chain of one process, its connection, a second process on the same file |
| `AtomicStore` | what callers of the provider rely on |
| `ActiveTimers` | the timers of one user, their tasks, and the requests of two tabs |
| `SearchIndex` | records, the jobs that index them, both index tables |
| `TaskRecurrence` | one recurring task: template, instances, users, generation and sweep jobs |
| `WorkspacePurge` | requests, cancellation, the purge job, uploads, backups and jobs of a workspace |
| `WorkspaceDeletion` | what the deletion of a workspace promises |
| `MC...` | the small instances TLC checks, with one `.cfg` per run |
| `JobQueueProofs` | type correctness and the ownership invariant |
| `JobQueueSafetyProofs` | the safety properties |
| `JobQueueRefinement` | JobQueue implements DurableOutbox |
| `SqliteAdapterProofs` | the adapter's invariants and its refinement of AtomicStore |
| `WorkspacePurgeProofs` | types, and WorkspacePurge implements WorkspaceDeletion |
| `SearchIndexProofs` | types, convergence, and what a successful rebuild guarantees |
| `TaskRecurrenceProofs` | types, instances made once, stopped chains accounted for |
| `ActiveTimersProofs` | types, and every other property of the timers |

How they compose. The later modules use what the first two establish instead of repeating
it: `SqliteAdapter` makes a statement, or a transaction, one step; `JobQueue` makes jobs run
one at a time (`ExclusiveExecution`) with one active row per deduplication key
(`DedupeUnique`), so a job appears in `SearchIndex`, `TaskRecurrence` and `WorkspacePurge` as
a row with a status and a number of attempts, claimed again after a crash.

### JobQueue

*State.* `jobs` is the table; a row keeps status, key, `attempt_count`, payload, whether it
is locked, and a timer: the ticks left to the moment the code compares `now` with
(`available_at`, `locked_at` + lock TTL, or the retention cutoff). A *key* stands for
workspace, job type and dedupe key; `NullKeys` are enqueued without a dedupe key. `wsState`
is `workspaces.status`. `lockFile` says whose `.longtail-forge-worker.lock` exists.
`pc`, `claim` and `stopping` are a worker process: where it stands, the row RETURNING gave
it, and `shutdownRequested`; `readiness` whether it has marked its lock file ready, or failed to.
`ran` and `contested` are history: the payloads whose handler returned, and the rows that were
claimed while another process was executing them. `enqueues` and `faults` count against bounds.

*Actions.*

| action | code |
|---|---|
| `EnqueueUpdate`, `EnqueueInsert` | `enqueueJob` (`core/jobs/job-queue.js:32`), one transaction; "deduped_running" changes nothing |
| `ClaimJob`, `NothingToClaim`, `ClaimFails` | `claimAvailableJobs` (`core/jobs/job-runner.js:265`), one transaction, claim limit 1 |
| `CheckWorkspace`, `HandlerSucceeds`, `HandlerThrows`, `RunFails` | `runClaimedJob` (`:324`); every database call in it may throw |
| `MarkCompleted`, `MarkFailed`, `MarkFailedRefused`, `MarkFailedAborts` | the verdicts (`:367`, `:386`), unfenced updates by `job_id`; the unique index refuses a retry beside another active row of the key |
| `Poll`, `RequestShutdown`, `Exit` | timer, signal and `stopJobWorker` / `shutdownWorker` |
| `Start`, `StartFails`, `Ready` | `startWorkerProcess` (`core/jobs/worker-cli.js:45-72`): the exclusive lock (`worker-process-lock.js:11`), the database, the runner with its timer and first poll |
| `MarkReady`, `MarkReadyFails` | `markReady` (`worker-cli.js:77`) while the runner is already polling; if it throws, the catch (`:84-93`) gives the lock back and the process goes on *unlocked* |
| `Crash`, `RemoveStaleLock` | process death at any point; the operator, who removes the lock once no worker runs, as its error message asks |
| `Prune` | `pruneStatus` (`services/jobs.service.js:97`), one batch |
| `PurgeFence`, `PurgeAlreadyComplete`, `PurgeFinalize`, `PurgeTorn` | `beginFence` and `finalize` (`repositories/workspace-purge.repo.js`) as called from the purge job's handler; `PurgeTorn` is a `finalize` under which the failed `markReady` closes the database |
| `Tick` | time |

A worker whose `markReady` failed is an ordinary worker without a lock: nothing stops its timer
(`job-runner.js:117`), and the first statement after the failure opens the database again
(`db/sqlite.js:219`). A second worker may then start, claim its expired rows and share them
with it. What a transaction that is open at that moment does, statement by statement without a
BEGIN, is modelled for the one that matters to the queue, the purge's `finalize` (`PurgeTorn`);
the single-step transactions of the queue are taken to be over.

The inline worker is the case of one worker: it has no lock file, but it lives and dies with
the only process that can start it. Enqueue and claim are single steps because
SqliteAdapter shows transactions to be atomic. `now` in a claim is the start of the poll
(`job-runner.js:269`), a moment earlier than the statement; the difference is below a tick.

*Abstracted.* Rows that tie in class and priority are chosen arbitrarily (the code goes on
to `available_at`, `created_at`, `job_id`); payloads are numbers; error texts, the admin
read-out and log lines are left out. A handler's own effects are left out except for the
purge, which changes the queue itself.

*DurableOutbox* is the promise: accepted work is queued, taken and executed one at a time by
the executors that are admitted, finished only by an execution of its own, and dropped only from
within an executing job. It knows neither leases nor attempts. An executor that lost its admission
may run beside another, and of a job the two have shared no more is promised than that it
exists. The refinement maps row statuses to stages, the job each process executes to `current`,
the processes whose `markReady` failed to `unlocked`, and `contested` to `shared`.

### SqliteAdapter

*State.* The database is one number (`store`): a statement adds one, a transaction reads it
and writes what it read plus one, so anything lost, doubled or leaked shows in the sum. Per
process: the connection (`inTx`, `snapshot`, `local`; `writer` is SQLite's write lock) and
the chain of promises (`tail` is `transactionTail`; `behind` what a call was chained on).
Per call: its `phase` and what its callback has `seen`.

*Actions.* `Issue` is the synchronous part of `query`, `get`, `run` and `transaction`: the
call is chained on the tail, and a transaction becomes the tail (lines 103 to 140 and 171).
`Settled` is `transactionTail.catch(() => {})`. `Turn` is the order in which reactions of a
settled promise run. `Execute` and `ExecuteFails` are a statement; `Begin`, `BeginFails`,
`Read`, `Write`, `WriteStale`, `Throw`, `Commit`, `Rollback`, `Resolve` are the steps of a
transaction; each `await` of a callback is a boundary between two of them. `Crash` is the
death of a process.

*External.* SQLite's own behaviour is stated from how the adapter uses it: deferred BEGIN,
snapshot at first read, one writer, SQLITE_BUSY_SNAPSHOT for a stale one, errors that may
have rolled back already. The operators concerned are marked external in the map.

*Abstracted.* Transactions that only read, and those that return early, are the ones that
never reach `Commit` of a write; they add nothing to the sum and are left out. Callbacks use
their own transaction client and wait for what they start; a survey of the uses of
`transaction()` in the repository found one `Promise.all` inside a callback
(`repositories/permissions.repo.js:247`), of reads, and no work left unawaited. Loss of the
last commits by power failure (`synchronous=NORMAL`) is not modelled.

### ActiveTimers

*State.* `timers` is `active_work_timers` for one user: a row's slot (a card number, `source:` of a
task, or the temporary `__compact:` slot), source task, status, accumulated seconds and start.
`task` is the status of each task. `req` is the request each tab has in flight: its kind, the
statement it is about to execute, and what it has read so far. The rest is history: what has
been booked, discarded, overwritten.

*Actions.* Each is one SQL statement; the tab's request says which comes next.

| action | code |
|---|---|
| `SendSave`, `SendBySlot`, `SendTaskTimer`, `SendTask` | what the pages send: `stop-watch.js`, `time-tracking-timer-dialog.js`, `workbench.js` under `public/js`, routes in `time-entries.routes.js` and `tasks.routes.js` |
| `ReadTask`, `ReadTaskTimer`, `MoveTask` | eligibility of a task and its move to in progress (`modules/tasks/task-timers.service.js:275-349`) |
| `ReadSlot` | `updateStatus` reads the row it will write back (`active-timers.service.js:191`) |
| `PauseOthers`, `Upsert` | the two statements of a start (`active-timers.repo.js:251`); the upsert conflicts on the slot only, so a second row with the same id or the same source task is refused by the other unique indexes |
| `Convert` | `convertManualToSource`, one transaction (`:160`) |
| `CreateEntry`, `DeleteTimer` | `finalize`: the time entry, then the row (`active-timers.service.js:273`) |
| `ListCards`, `Strand`, `Place` | `compactManualTimerSlots`: list, rename away, rename back (`active-timers.repo.js:364`) |
| `ReadEvidence`, `Revert` | the compensation of a start that failed (`task-timers.service.js:351-368`) |
| `CheckComplete`, `WriteTask`, `PauseBlocked` | completing a task, editing its status (`tasks.service.js:746`, `:955`, `:2425`) |
| `StatementFails`, `AuditFails`, `AnswerFails` | a failing statement or refusing check at any step, those of the compensation included; the audit record of a task's move, after the move; reading back or announcing a timer that is already written |
| `Crash`, `Tick` | process death, time |

A statement that is refused or fails is caught by the task timer service for starts, pauses and
links (`Caught`), which may then give back the task's status; elsewhere the request is answered
with the error. Three failures escape that: the move's audit record is written outside the `try`,
and the two statements of the compensation may fail themselves; all leave a task in progress
without a timer. A failed answer has the opposite effect: the compensation is forced and asks for
no evidence, so the task's status is given back although its timer runs.

*Constants.* Tabs are any set, with `Ids` finite; no timer id, row or task is the value that
stands for none; kinds of request and target statuses are among those the code knows; cards are
bounded by `MaxSlot`. No other bound is assumed to be anything.

*Abstracted.* Clients are honest: what a tab sends is what the table shows when it sends it.
Two open cards may be left by an earlier visit. Rates, descriptions and billing are data.

### SearchIndex

*State.* `record` and `module` are the truth; `index` and `fts` are `search_index` and its
full-text copy, each holding the version of a record; `job` has the active row of each
deduplication key (reindex and removal of a record, rebuild of the workspace, rebuild of the
app's start-up check); `run` is the job the worker executes; `owed` counts services that have
saved a record and not yet queued it; `excuse` remembers why a record may be wrong in the
index: restored without it, request missed (queueing failed, process died) or dropped (for a
running job), a waiting rebuild replaced by a dry run, job dead, module inactive. Only a later
reading of the record that may write clears it.

*Actions.* `Save`, `Delete`, `ToggleModule` are the services; `Enqueue`, `EnqueueFails` the
request that follows a save (`services/search-index-sync.service.js`), which logs a failure
and goes on; `RequestRebuild` and `StartupCheck` queue rebuilds, the first a *dry run* perhaps
(`search-index.routes.js:19`): it has the deduplication key of a real rebuild, so it takes the
place of one that waits (`search-index-jobs.service.js:102`, `:280`; `job-queue.js:57`), and it
succeeds without writing. `Claim`, `ReadTypes`, `Read`,
`Upsert`, `SyncFts`, `ReadStale`, `RemoveDocument`, `Repair`, `Verdict` are the steps of a
job (`search.service.js:499`, `search-index-rebuild.service.js`,
`core/search/adapters/sqlite-search-adapter.js`); `StatementFails` is a failing statement, which a
reindex passes to the queue and a rebuild counts and carries on from; `WebCrash` and
`WorkerCrash` are the deaths of the two processes.

*Abstracted.* A document is its record's version. One searchable type stands for all: a
rebuild treats them one after the other, and they share nothing. The operator's script
`scripts/search-index-rebuild.mjs`, which rebuilds outside the worker, is left out.

### TaskRecurrence

*State.* `template` (status, recovery checkpoint, and the rule: anchor date, end date, interval),
`task` (the instance of each date with its status, how many of the statements that fill it have
run, and how often it was announced), `gen` (the generation job of each instance), `sweep` and
`later` (the sweep that is due and the one queued for twelve hours from now), and `act`, what
each process is in the middle of. `cause` is history: why an instance has no successor (series
paused or ended when it was asked for, instance archived, a later one detached, request dropped
or lost, job dead). `torn` has the instances whose creator was cut short.

*Actions.*

| action | code |
|---|---|
| `CreateTemplate`, `CreateFirst` | saving a recurring task (`tasks.service.js:696`) |
| `Complete`, `Handoff`, `Enqueue` | `complete`, then `completeRecurrenceHandoff` (`:955`, `:1198`; `task-recurrence.service.js:107`; `task-jobs.service.js:247`) |
| `Touch` | `materializeRecurrenceInstance` (`tasks.service.js:489`) |
| `Skip`, `SkipCommit` | the plan and the transaction of skip to current (`:1001`; `tasks.repo.js:500`) |
| `Edit` | an edit of the series: its status and rule (`tasks.service.js:797`) |
| `Detach` | recurrence turned off for this task only (`:835`): the task leaves the series, whatever its status and whatever is under way for it |
| `Archive`, `Restore`, `Reopen` | the other operations that change instances |
| `Insert`, `Copy`, `Announce` | `materializeInstance`: the row, its checklist and links, its audit, event and search request |
| `Generate`, `Verdict` | the generation job |
| `Sweep`, `QueueSuccessor`, `SweepDue`, `StartupSweep` | the recurrence sweep and the chain of its successors (`task-jobs.service.js:484-629`) |
| `RequestFails`, `JobFails`, `WebCrash`, `WorkerCrash` | a failing statement, process death |

*Abstracted.* A rule is an interval of days from an anchor to an end; weekday and monthly rules
change which dates exist, not what happens to them. A detached task leaves the model: its
remaining statements and its job no longer touch the series, and if it is made recurring again it
is another series. A request reads and writes in one step unless an action of the table divides it.
Users may do what they ask, and instances have no running timers (ActiveTimers has
them). Reminders are left out.

### WorkspacePurge

*State.* The rows of the deletion (`workspace`, `lifecycle`, `purgeAfter`, `tombstone`), the
purge job and the other jobs of the workspace, each file or backup archive with how far its
upload has come and whether it is in storage, where the purge's run stands and what it is still
to delete, and requests of administrators and the operator that have passed their checks but
not written yet.

*Actions.* `ReadForRequest`, `Create`, `ReadForCancel`, `Withdraw` are the two halves of
request and cancellation (`services/workspace-deletion.service.js`); `CheckPurge`,
`QueuePurge` the operator's command; `Begin`, `Store`, `Record` the three steps of an upload or
backup; `QueueWork`, `ClaimWork`, `EndWork` the jobs; `Claim`, `Fence`, `RefuseFence`,
`BeginFinalize`, `DeleteObject`, `DeleteArchives`, `Conflict`, `Commit`, `Fail` the purge
(`services/workspace-purge.service.js`, `repositories/workspace-purge.repo.js`), whose second
transaction deletes objects while it is open: `snapshot` says whether another connection has
written since it began, in which case its first write fails, after the deletions. The other
connection may belong to any workspace, since all share the file: `Elsewhere` is such a commit,
at any time and any number of times. `Throw` and `Crash` are the faults.

*WorkspaceDeletion* is the promise: kept until requested and due, then doomed, then purged
once nothing recorded is left and no job runs. Its phase "abandoned" is an exception the
code makes (see "Observed" below).

## 4. The runs

| run | asks | instance |
|---|---|---|
| `queue` | Is the table sane under retries, pruning, crashes, restarts, and a worker without a lock? | two keys (one deduplicated with two attempts, one without key, urgent, one attempt), two workers, two rows, three enqueues, two faults |
| `fence` | Does the purge fence hold, and does the queue implement the outbox? | one ordinary job and the purge of its workspace, two workers, two rows, two faults |
| `queue_live` | Does every job settle and every shutdown end? | the same job and purge (one attempt), one fault, fairness |
| `attempts` | Is `max_attempts` a bound on attempts? (no) | one job, one worker, two faults |
| `two_workers` | Is there one worker at most? (no) | one job, two workers, one fault |
| `sqlite` | Are calls atomic and in order, and is each answered? | app server with two transactions and a statement, worker with a transaction, every failure, fairness |
| `timers` | Do two tabs leave a consistent table, and is time kept? | two tabs, three timers, one task, all kinds of request, zero or two old cards, three requests of which two may overlap, one fault (2 103 833 states) |
| `timers_two_starts` | Is one timer running at most? (no) | two tabs, two starts |
| `search` | Does the index converge, and does a rebuild heal? | two records, two changes, two attempts, two faults, fairness (1 133 475 states) |
| `recurrence` | Is an instance made once, and does a chain go on? | two users, three dates, two rules, two requests after the creation, two attempts, two faults, two days, fairness (899 097 states) |
| `purge` | Does the purge implement the deletion, and does it end? | a file and a backup, two administrators, two requests, two attempts, one fault, one day of grace, commits elsewhere without bound, fairness (1 281 284 states) |
| `purge_in_flight` | Does anything stay in storage? (yes) | the same without faults, one administrator |

*Bounds.* `MaxJobs`, `MaxEnqueues` and `MaxFaults` cap counters that are unbounded in the
code. Two rows are enough for a row in execution beside one that waits, has ended or has the same
key (row ids are never reused, so a key can be enqueued again after its first row has ended);
three enqueues add a payload that replaces one. Two faults are enough for a crash
during the recovery from a crash, for a row to exceed `max_attempts` by two, and for a worker
without a lock whose neighbour fails. The lock
TTL is longer than a retry delay and short enough to expire while a handler runs. In the
adapter, two transactions and a statement give every relative order of a waiting
transaction, a failed one, and a statement before, between and after; the second process
contributes the write lock and the stale snapshot. The proofs remove all these bounds except
that the counters remain bounded by constants of any size.

Two tabs with one overlap give every pair of requests, interleaved statement by statement, in
every table a first request can leave; three timers let a compaction move two cards past a hole.
Two records let a job or a rebuild be right about one and wrong about the other; two changes are
a save and a deletion (or a switch of the module) between any two steps of a job, or a rebuild
and a dry run; two attempts and two faults reach a dead job and the recovery from it. Three dates
are the instance that is completed, the next, and the one a second completion or a sweep would
create; the two rules differ in end and interval, so that an edit ends the series before the
instances it has; two requests and the two job kinds give four creators of one instance; `Copies`
is one because a second copied statement behaves as the first. A file and a backup are the two
kinds of artifact; two attempts let a purge fail half-way and be repeated or die; one tick of
grace separates "due" from "not due".

*Deadlock.* The runs of the last four modules end when all bounded requests are answered and
switch the check off; their liveness properties say what must still happen. The queue's runs
check it: time, producers and the operator always leave a step, or pruning has emptied the table
and a worker polls. The adapter's runs end when all calls are answered, so they switch the check
off and `EveryCallSettles` takes its place.

*Symmetry* is used in safety runs only, over the workers of the queue and over tabs, timers and
tasks; no definition distinguishes them.

*Fairness.* `queue_live` assumes that time passes; that a live process continues (handlers end,
the poll timer fires); and that the operator clears a stale lock and something starts a worker
again (`compose.yaml` has `restart: unless-stopped`). Nothing is assumed about the scheduling of
faults, which are bounded. `sqlite` assumes that reactions run, that callbacks end and that a
busy connection is served when the write lock is free (the busy timeout of 5000 ms; its expiry is
`Throw` or `ExecuteFails`). `search` and `recurrence` assume that the worker takes its next step
(`WorkerStep`), that a request that has begun continues (`WebStep`, `Proceed`), and that the
sweep that was queued for later falls due. `purge` assumes that the worker goes on with the purge
and with other jobs, and its liveness property has two premises, neither of which the code
provides. The operator repeats the command, because attempts run out and only the operator queues
a purge: a purge left to itself can end dead with the workspace fenced. And commits elsewhere
stop overtaking it: its last transaction is deferred, takes its snapshot at the first read,
deletes every object and writes only then (`workspace-purge.repo.js:183-204`,
`sqlite-adapter.js:153`), so each commit of another process in that time makes it fail and start
again, and nothing bounds how often. (docs/workspace-deletion.md:39 speaks of the "final database
write lock"; the lock is not held while objects are deleted.) Users are never assumed to do
anything.

### What the properties say

- `LockGuardsProcess`, `ExclusiveExecution`, `ClaimOwnsRow`: the runner's verdicts are
  `UPDATE ... WHERE job_id` with no check of `locked_by`, and the lease is never renewed.
  They are safe as long as a second worker cannot exist while the first lives, which the lock file
  ensures except for a worker whose `markReady` failed (finding `two_workers`). So a live process
  holds the lock or is one of those; two processes execute one row only if one of them is, and
  then as different attempts; and a claimed row changes under its worker only if it is
  *contested*, that is, was claimed while another process executed it. Of contested rows the
  verdicts are not safe: the later one overwrites the earlier. `ClaimOwnsRow` is what a fence
  in the SQL would otherwise have to ensure.
- `DedupeUnique`, `WaitingHasCapacity`, `TerminalIsFinal`, `ActiveRowsSurvive`: the table;
  the second and third for rows that are not contested.
- `AttemptsPaidFor`: attempts beyond `max_attempts` are paid for by executions without a
  verdict.
- `CompletedRan`: "completed" means that the handler returned, or that the workspace was
  being purged: a job of such a workspace is skipped and recorded as completed
  (`job-runner.js:326`), and if the purge is then abandoned, that record is all that is left of it.
- `FencedWorkspaceQuiet`, `FenceHolds`, `NoOrphanRows`: the status check before a handler
  is not repeated, and need not be (for a job that is not contested).
- `EveryJobSettles`, `ShutdownCompletes`, `EveryCallSettles`: nothing waits for ever.
- `AppliedOnce`, `InIssueOrder`, `OneAtATime`: the adapter's promises, one by one;
  `ImplementsAtomicStore` puts them together.

- `OneRowEach`: the key by which requests find a timer names one row, also while slots are
  being renamed. `Accounted`: what is booked and shown is what was worked; `Settled`: at
  rest one timer runs, none on a blocked task, no card in a temporary slot; `NoTimerLost`: a
  row goes only after it was saved or discarded. The last three are claimed for requests that
  do not overlap (with faults): the code does not keep them otherwise (see below).
  `StartAlone` says that a start leaves its timer the only one running whatever overlapping
  requests did before; `FailedStartRestores` is the compensation: a failed start gives the task
  back its status, unless a statement of the compensation itself or the move's audit record is
  what failed.
- `Converged`: when nothing is queued or owed for a record, both tables agree with it or the
  excuse is one of six; `RebuildHeals`: a rebuild recorded as successful leaves no old error,
  unless it ran on the payload of a dry run or while the module was disabled;
  `EventuallySettled`: no record waits for ever. Reindex and removal of one record have
  different keys and may be queued together in either order; these say that it does not matter.
- `OnceOnly`: four kinds of creator may come to one date at once; the unique index decides
  who fills it. `ChainAccounted`: an active series without an open instance has a reason that its
  latest instance records, whoever detached, archived or edited what in between, so nothing is
  lost silently; `ChainHeals`: the sweep revives it.
- `ImplementsDeletion`, `PurgeEnds`: the promises of the purge, the second under the premises
  above.

Every property has a seeded fault (an operator `Mutant...` beside the definition it alters)
that breaks it under the same configuration, and none other than its own code.

### Findings

`attempts`: docs/database.md:452 says "When `attempt_count` reaches `max_attempts`, the
runner moves the row to `dead`". Only `markJobFailed` does that. A worker that dies in
mid-handler leaves the row running; after the lock TTL `claimAvailableJobs` claims it again
and increments `attempt_count` whatever `max_attempts` says (`job-runner.js:283`), so a job
that kills its process is executed without bound. `AttemptsPaidFor` is the property that
does hold.

`two_workers`: docs/sqlite-small-office-mode.md:17 allows "at most one local worker process" and
says that the worker's lock is there "to prevent a second local worker". `startWorkerProcess`
starts the runner and its timer before it marks the lock ready (`worker-cli.js:72`, `:77`). If that
write fails, the lock is released and only the exit code set; the timer keeps the process polling
and executing (`job-runner.js:117`, `db/sqlite.js:219`), and a second worker can start beside it.
`LockGuardsProcess` and `ExclusiveExecution` are what does hold.

`timers_two_starts`: help/framework/time-tracking-basics.md:3 says "Only one timer runs at a
time for a user in a workspace." Starting a timer pauses the others in one statement and
writes the started one in the next (`active-timers.repo.js:254`), so two starts that
interleave leave both running. `StartAlone` is what does hold.

`purge_in_flight`: docs/workspace-deletion.md:39 says that cleaning up under the final
database lock "closes the gap in which an already-in-flight request could otherwise leave
a new object". An upload writes its object before its row and without a lock
(`files.service.js:1944`); if the purge commits in between, the row is refused and the object
stays, named by nothing. `ImplementsDeletion` is what does hold, for everything recorded.

### Observed

Other disagreements TLC showed on the way. The properties state what holds nevertheless, and
name the exception where they need one.

- Timers, requests overlapping: a start that races with blocking the task leaves a running
  timer on a blocked task (`task-timers.service.js:57`; docs/tasks-module.md:51); finalizing
  or discarding by slot after a compaction removes another timer
  (`active-timers.service.js:309`).
- Timers, one request at a time: editing a task's status to complete does not make the check
  for active timers that completing it makes (`tasks.service.js:797`, `:960`); the Create
  Timer dialog overwrites the elapsed time of a task's timer
  (`public/js/time-tracking-timer-dialog.js:591`;
  help/modules/time-tracking/timers-and-saved-duration.md:5), which `dropped` counts.
- Search: a module enabled again after a rebuild that ran while it was disabled leaves its
  records unindexed (excuse "inactive"); a restored database whose first record is indexed
  before the start-up check skips the rebuild (excuse "restored").
- Recurrence: a generation or touch that read the template before a skip to current commits
  creates an instance below the recovery checkpoint (docs/database.md:131;
  `task-recurrence.service.js:80`); saving a new recurring task can fail on the unique index
  when a sweep or a touch creates its first instance between template and task
  (`tasks.service.js:698`); a generation delayed past a sweep leaves two open instances.
- Purge: a cancellation checked just before the deadline removes the lifecycle row after the
  fence, so the workspace stays in `purging` with no deletion pending, perhaps with files
  deleted (`workspace-deletion.service.js:76`; docs/workspace-deletion.md:25). This is the
  phase "abandoned".

## 5. The proofs

Assumed are only the named assumptions on the constants: sets of ids and the functions on
them, positive durations, a retry delay capped at 64 times the first (as in the code: 1 s and
60 s), rules whose dates lie within the calendar, counters with upper bounds of any size.

*Queue.* `JobQueueProofs` proves an inductive invariant in two layers. `Shape` is type
correctness (`TypeCorrect`) with what a row may be: live, or absent and empty; absent beyond
`inserted`; and a busy process's claim names a row. `Ownership` says of the processes that a live
one holds the lock file or is unlocked (`Admission`), and that two which execute one row do so as
different attempts of a contested row (`Apart`); of a busy process's row that it is the one it
claimed, with that attempt and payload, unless it is contested or a purge deleted it, and that it
never falls behind a claim of it (`Owns`); and that past the fence a workspace has no rows but
its purge's (`Fenced`). Neither `ExclusiveExecution` nor `ClaimOwnsRow` is inductive without it:
the step that could break them is a claim of an expired row whose first worker still lives, which
needs a process without the lock and makes the row contested. On it rest `LockHolds`,
`ExclusiveExecutionHolds` and `ClaimOwnsRowHolds`. `JobQueueSafetyProofs` adds, each from what
stands before it: uniqueness of active keys; capacity of waiting rows (a verdict "failed" has
attempts left, and attempts of a waiting row never change); the action properties; `Budget`,
which charges each run without a verdict to a fault; `Fence`, which describes the workspace
between fence and finalization, torn ones included; and `CompletedRan`. They say nothing of
contested rows where the property does not. `JobQueueRefinement` proves that each action of the
queue is a step of the outbox or a stutter.

*Adapter.* `SqliteAdapterProofs` proves `TypeOK`, then `Queueing` and `Connected` together.
`Queueing`: calls of a process are numbered as they are made, the tail is the last transaction
made, a call stands behind the last transaction made before it, and waiting calls are a suffix;
so at most one call of a process is started. `Connected`: only a started transaction has the
connection; once it has written it holds the write lock and its local value is the store plus its
own effect; before that its reads are those of its snapshot. `AppliedOnce` then follows by
counting, and each action maps to a step of `AtomicStore` or a stutter.

*Search index.* `SearchIndexProofs` proves `Converged` by an invariant in six parts beside the
types. `Dryness` says that only rebuilds are dry, and that a run is as dry as its row. `Control`
ties the step a run is at to its job and its remaining work; `Progress` says what each step has
achieved (a record dealt with agrees in both tables with the document that was
read); `Current` says that a document that was read is still the record's, unless something
else is queued or owed for that record or a gap is known; `Gone` says that a queued removal
names a deleted record. Progress and Current meet at the verdict, which is the only step that
may make a record "not outstanding". `RebuildsHeal` follows from the same invariant.

*Recurrence.* `TaskRecurrenceProofs` needs three parts beside the types. `Roles` says who
may be doing what, and that the worker's generation job is running. `MadeOnce` says that an
instance between its insertion and its announcement has one maker, who knows how far it is;
the unique index makes that an invariant, since only the process that inserts becomes a maker.
`Chain` says of every finished instance that it has a later one, or that a cause is recorded, or
that its handoff is under way, or that its job is active. No step but a detachment takes an
instance away (`NextOnward`), so what follows an instance follows it after every other step, rules
edited or not, and a step that gives up a handoff or a job leaves one of the other reasons. For the
detachment there are two lemmas: `WithoutFacts`, what a detached task takes along from the
processes that were busy with it, and `DetachChain`, that the instance which becomes the latest
has its cause recorded.

*Timers.* `ActiveTimersProofs` proves all seven properties of the timers' run from one
invariant in seven parts.
- `Typed` is type correctness with what a request of each kind carries and has read at each
  step (`Fit`), and `OneRowEach`. The unique indexes give `OneRowEach` for `Upsert`, whatever
  other requests do; for the renaming of slots it needs that a waiting slot has the name of its
  card, so that nobody else can be in it.
- `Lone` and `Fresh` are about a request that has been alone since it left: what it read is still
  the row (`Holds`), the row it names is still where it was (`Named`), every other timer is paused
  before the upsert of a start (`Stopped`), its task is in progress or its former status is known
  (`Begun`), and the cards it has renamed are exactly those behind its position (`Ordered`). The
  claim is void as soon as a second request leaves, which is where the code's guarantees end.
  `StartAlone` and `FailedStartRestores` follow, one step at a time. The step that could break
  `StartAlone` is an upsert refused by the source index: it is refused only for a timer out of
  its slot.
- `Solo`: while requests come one at a time, a task's timer is in its source slot and at most one
  runs. With it the deletion hits the timer that was saved or discarded (`NoTimerLost`).
- `Calm`: while there is no fault either, no request meets an error, and the table is at rest but
  for what the request in flight is about to do: the blocked task whose timer it still has to
  pause, the cards it still has to place. When it is answered nothing is left of that (`Settled`).
- `Once` and `Balanced` give `Accounted`. `Balanced` is `TimeKept` and `TimeEarned` with the time
  under way: the seconds since the request left, which its upsert will count from the time it
  carried, and the entry that is booked while its row is still there. A finalization in flight
  violates both books without these terms.

The sums in `Shown` and `Entries` are folds. What the proof needs of them (a change of one value
changes the sum by the difference, zeros add up to zero) is itself proved, in `PartialSums` and
the lemmas after it: a sum is the last value of a function on subsets, and whatever fails for
some subset would fail for one of least cardinality.

*Purge.* `WorkspacePurgeProofs` proves the refinement from the invariant `Safe`, two parts
beside the types: `Closed`, that what the fence closes stays closed and a run past the fence
meets no running job; and `Seen`, that as long as no other connection has written, the run has
seen every recorded artifact, so that a commit (which fails otherwise) leaves none. Commits
elsewhere are stutters of the deletion.

| theorem | module | states |
|---|---|---|
| `TypeCorrect`, `OwnershipHolds` | JobQueueProofs | `TypeOK`, `Ownership` |
| `LockHolds`, `ExclusiveExecutionHolds`, `ClaimOwnsRowHolds` | JobQueueSafetyProofs | who may live, execute, and find its row as claimed |
| `DedupeHolds`, `CapacityHolds`, `TerminalRowsStay`, `ActiveRowsStay` | JobQueueSafetyProofs | the table |
| `BudgetHolds`, `CompletedRanHolds` | JobQueueSafetyProofs | attempts and completions |
| `QuietHolds`, `FenceStands`, `NoOrphans` | JobQueueSafetyProofs | the purge fence |
| `OutboxImplemented` | JobQueueRefinement | `ImplementsOutbox` |
| `AdapterTypes`, `OrderHolds`, `Exclusive`, `AppliedHolds`, `AtomicStoreImplemented` | SqliteAdapterProofs | all safety properties of the adapter |
| `DeletionImplemented`, with `TypeCorrect`, `SafeHolds` | WorkspacePurgeProofs | `ImplementsDeletion`, `TypeOK` |
| `IndexConverges`, `RebuildsHeal`, with `TypeCorrect`, `InvariantHolds` | SearchIndexProofs | `Converged`, `RebuildHeals`, `TypeOK` |
| `OnceOnlyHolds`, `ChainHolds`, with `TypeCorrect`, `InvariantHolds` | TaskRecurrenceProofs | `OnceOnly`, `ChainAccounted`, `TypeOK` |
| `OneRowEachHolds`, `AccountedHolds`, `SettledHolds`, with `TypesHold` | ActiveTimersProofs | `OneRowEach`, `Accounted`, `Settled`, `TypeOK` |
| `NoTimerLostHolds`, `StartAloneHolds`, `FailedStartRestoresHolds` | ActiveTimersProofs | what a step of the timers may never do |

*Only model-checked:* the liveness properties `EveryJobSettles`, `ShutdownCompletes`,
`EveryCallSettles`, `EventuallySettled`, `ChainHeals` and `PurgeEnds` (leads-to under
fairness, which needs ENABLED, is beyond the prover). Every safety property of the passing
runs, and both refinements of an abstract specification's steps, are also proved.

## 6. Not modelled

The components of section 1 that are not in section 3, for the reasons `PROJECT.json`
gives: some hold by a single transaction or a `finally` block (section 2), some are record
keeping whose single statements leave no room for interleaving, and most of the repository is
I/O, rendering, browser code, schema texts and its own regression scripts. Within the modelled
parts:

- queue and adapter: parameter binding, SQL dialect seams, health checks, the contents of the
  lock file and its heartbeat, job payloads, and the effects of power loss;
- timers: several users and workspaces (rows are keyed by both), the edit of a saved entry;
- search: the operator's rebuild script, queries, snippets and permissions on results, several
  searchable types at once;
- recurrence: reminders, rules other than an interval of days, notifications of a created
  instance, a detached task's later life;
- purge: a final transaction torn by a closing database (JobQueue has it), the contents of the
  tables that the final transaction empties (it empties all that name the workspace, in one
  transaction), export receipts, the scan of an uploaded file.
