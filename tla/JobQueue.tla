------------------------------ MODULE JobQueue ------------------------------
(***************************************************************************)
(* The durable job queue of Longtail Forge: the "jobs" table, the          *)
(* transactional enqueue with its active-row deduplication, the polling    *)
(* job runner and the worker process that hosts it (separate mode) with    *)
(* its exclusive lock file, start-up, graceful shutdown, crashes and the   *)
(* operator who removes a stale lock.                                      *)
(*                                                                         *)
(* A key stands for one (workspace_id, job_type, dedupe_key) triple; the   *)
(* priority and max_attempts a producer passes are fixed by the key.  Time *)
(* is relative: a row's timer counts the ticks to the moment the code      *)
(* compares "now" with, which is available_at for pending and failed rows, *)
(* locked_at + lock TTL for running ones, and the retention cutoff for     *)
(* completed and dead ones.                                                *)
(*                                                                         *)
(* Operators named "Mutant..." are seeded faults: each stands just before  *)
(* the definition it would replace, and the property it is paired with     *)
(* must catch it.  Nothing else refers to them.                            *)
(***************************************************************************)
EXTENDS Integers, FiniteSets

CONSTANTS
  Workspaces,          \* workspace ids
  Keys,                \* (workspace, job type, dedupe key) triples that are enqueued
  PurgeKeys,           \* the keys whose job type is workspace.purge
  NullKeys,            \* the keys enqueued without a dedupe key
  WorkspaceOf,         \* workspace_id of a key
  Priority,            \* priority of a key
  MaxAttempts,         \* max_attempts of a key
  Workers,             \* worker processes the operator may start
  NoKey, NoWorker,     \* "no key", "no worker" (model values)
  LockTtl,             \* LONGTAIL_JOB_LOCK_TTL_SECONDS, in ticks
  MinRetryDelay,       \* first retry delay, in ticks
  MaxRetryDelay,       \* retry delay cap, in ticks
  Delays,              \* how far ahead of now a producer may set available_at
  CompletedRetention,  \* retention of completed rows, in ticks
  DeadRetention,       \* retention of dead rows, in ticks
  BatchSize,           \* rows one prune transaction deletes at most
  MaxJobs,             \* bound: rows ever inserted
  MaxEnqueues,         \* bound: enqueue calls that change the table
  MaxFaults            \* bound: crashes and failed database calls

ASSUME KeyAssumption ==
  /\ PurgeKeys \subseteq Keys
  /\ NullKeys \subseteq Keys \ PurgeKeys
  /\ NoKey \notin Keys
  /\ WorkspaceOf \in [Keys -> Workspaces]
  /\ \A k, l \in PurgeKeys : WorkspaceOf[k] = WorkspaceOf[l] => k = l
  /\ Priority \in [Keys -> Int]
  /\ MaxAttempts \in [Keys -> Nat \ {0}]

ASSUME WorkerAssumption == NoWorker \notin Workers

\* 64 is 2^6, the largest doubling RetryDelay tabulates (the code caps 1 s at 60 s).
ASSUME TimeAssumption ==
  /\ LockTtl \in Nat \ {0}
  /\ MinRetryDelay \in Nat \ {0}
  /\ MaxRetryDelay \in Nat
  /\ MinRetryDelay <= MaxRetryDelay
  /\ MaxRetryDelay <= 64 * MinRetryDelay
  /\ Delays \subseteq Nat
  /\ CompletedRetention \in Nat
  /\ DeadRetention \in Nat

ASSUME BoundAssumption ==
  /\ BatchSize \in Nat \ {0}
  /\ MaxJobs \in Nat
  /\ MaxEnqueues \in Nat
  /\ MaxFaults \in Nat

VARIABLES
  jobs,         \* the jobs table: a row per job id, AbsentRow where there is none
  inserted,     \* job ids handed out so far; an id is never reused
  wsState,      \* workspaces.status: "active", "purging", or "gone" (row deleted)
  lockFile,     \* the process whose .longtail-forge-worker.lock exists, or NoWorker
  pc,           \* where each worker process stands
  claim,        \* the claimed row as RETURNING handed it to the runner
  stopping,     \* shutdownRequested of each process
  readiness,    \* whether a process has marked its lock file ready, or failed to
  ran,          \* history: payloads whose handler returned without throwing
  contested,    \* history: jobs claimed while another process was executing them
  enqueues,     \* bounded count of enqueue calls that changed the table
  faults        \* bounded count of crashes and failed database calls

table == <<jobs, inserted, wsState>>
door == <<lockFile, readiness>>
process == <<door, pc, claim, stopping>>
history == <<ran, contested>>
vars == <<table, process, history, enqueues, faults>>

JobIds == 1..MaxJobs
Payloads == 1..MaxEnqueues          \* each accepted enqueue carries its own payload
WorkspaceStates == {"active", "purging", "gone"}
ActiveStatuses == {"pending", "failed", "running"}   \* ACTIVE_DEDUPE_STATUSES
TerminalStatuses == {"completed", "dead"}
Statuses == ActiveStatuses \union TerminalStatuses \union {"absent"}

\* "off": no process; "starting": lock held, database initialising; "polling": a
\* run has begun; "idle": waiting for the poll timer; the rest: one claimed job.
BusyStates == {"checking", "handling", "fenced", "completing", "failing"}
ProcessStates == {"off", "starting", "polling", "idle"} \union BusyStates

\* "pending" until markReady has rewritten the lock file; "failed" if that write
\* threw: the process then gives the lock back, and its poll timer keeps it alive.
Readiness == {"pending", "ready", "failed"}

Row == [status: Statuses, key: Keys \union {NoKey}, timer: Nat, locked: BOOLEAN,
        attempts: Nat, payload: Nat]
AbsentRow == [status |-> "absent", key |-> NoKey, timer |-> 0, locked |-> FALSE,
              attempts |-> 0, payload |-> 0]
Claim == [job: JobIds \union {0}, key: Keys \union {NoKey}, attempts: Nat, payload: Nat]
NoClaim == [job |-> 0, key |-> NoKey, attempts |-> 0, payload |-> 0]

Minimum(a, b) == IF a <= b THEN a ELSE b

\* calculateRetryDelayMs: MinRetryDelay doubled per earlier attempt, capped.
Doubling == <<1, 2, 4, 8, 16, 32, 64>>
RetryDelay(attempts) ==
  Minimum(MaxRetryDelay, MinRetryDelay * Doubling[Minimum(attempts, 7)])

-----------------------------------------------------------------------------
(* Rows *)

Present(j) == jobs[j].status # "absent"
InWorkspace(ws) == {j \in JobIds : Present(j) /\ WorkspaceOf[jobs[j].key] = ws}

MutantWaitingRunning(k) == {j \in JobIds : jobs[j].key = k /\ jobs[j].status \in ActiveStatuses}
MutantWaitingDead(k) ==
  {j \in JobIds : jobs[j].key = k /\ jobs[j].status \in {"pending", "failed", "dead"}}

\* The rows of key k the upsert of enqueueJob rewrites, and those that block it.
Waiting(k) == {j \in JobIds : jobs[j].key = k /\ jobs[j].status \in {"pending", "failed"}}
Running(k) == {j \in JobIds : jobs[j].key = k /\ jobs[j].status = "running"}

\* Row j with the columns a claim, a verdict or a tick changes.
Written(j, status, locked, timer, attempts) ==
  [status |-> status, key |-> jobs[j].key, timer |-> timer, locked |-> locked,
   attempts |-> attempts, payload |-> jobs[j].payload]

Removed(gone) == [j \in JobIds |-> IF j \in gone THEN AbsentRow ELSE jobs[j]]

MutantExpiredNever == {j \in JobIds : FALSE}

\* The claim's ORDER BY: expired running rows before due pending and failed ones,
\* then the highest priority.  Rows that tie (same class and priority) are ordered
\* by available_at, created_at and job_id in the code, arbitrarily here.
Expired == {j \in JobIds : jobs[j].status = "running" /\ jobs[j].locked /\ jobs[j].timer = 0}
Due == {j \in JobIds : jobs[j].status \in {"pending", "failed"} /\ jobs[j].timer = 0}
FirstClass == IF Expired # {} THEN Expired ELSE Due
Claimable == {j \in FirstClass : \A i \in FirstClass : Priority[jobs[i].key] <= Priority[jobs[j].key]}

Init ==
  /\ jobs = [j \in JobIds |-> AbsentRow]
  /\ inserted = 0
  /\ wsState = [ws \in Workspaces |-> "active"]
  /\ lockFile = NoWorker
  /\ pc = [w \in Workers |-> "off"]
  /\ claim = [w \in Workers |-> NoClaim]
  /\ stopping = [w \in Workers |-> FALSE]
  /\ readiness = [w \in Workers |-> "pending"]
  /\ ran = {}
  /\ contested = {}
  /\ enqueues = 0
  /\ faults = 0

-----------------------------------------------------------------------------
(* Producers and the clock *)

MutantAcceptsPurging(k) == wsState[WorkspaceOf[k]] # "gone"
MutantAcceptsGone(k) == wsState[WorkspaceOf[k]] \in {"active", "gone"} \/ k \in PurgeKeys

\* A purge job may be queued while its workspace is purging; queueWorkspacePurge
\* refuses once the lifecycle row is gone.  Other jobs need an active workspace.
WorkspaceAccepts(k) ==
  \/ wsState[WorkspaceOf[k]] = "active"
  \/ k \in PurgeKeys /\ wsState[WorkspaceOf[k]] = "purging"

\* The row an accepted enqueue leaves.  An update keeps attempt_count.
PendingRow(k, delay, attempts) ==
  [status |-> "pending", key |-> k, timer |-> delay, locked |-> FALSE,
   attempts |-> attempts, payload |-> enqueues + 1]

\* enqueueJob returning "updated": a pending or failed row of the key is rewritten.
EnqueueUpdate(k, delay) ==
  /\ enqueues < MaxEnqueues
  /\ WorkspaceAccepts(k)
  /\ k \notin NullKeys
  /\ Waiting(k) # {}
  /\ jobs' = [j \in JobIds |-> IF j \in Waiting(k)
                               THEN PendingRow(k, delay, jobs[j].attempts)
                               ELSE jobs[j]]
  /\ enqueues' = enqueues + 1
  /\ UNCHANGED <<inserted, wsState, process, history, faults>>

MutantInsertBesideRunning(k, delay) ==
  /\ enqueues < MaxEnqueues
  /\ inserted < MaxJobs
  /\ WorkspaceAccepts(k)
  /\ k \in NullKeys \/ Waiting(k) = {}
  /\ jobs' = [jobs EXCEPT ![inserted + 1] = PendingRow(k, delay, 0)]
  /\ inserted' = inserted + 1
  /\ enqueues' = enqueues + 1
  /\ UNCHANGED <<wsState, process, history, faults>>

\* enqueueJob returning "inserted".  When a running row has the key the call
\* returns "deduped_running" and changes nothing, so it is no step here.
EnqueueInsert(k, delay) ==
  /\ enqueues < MaxEnqueues
  /\ inserted < MaxJobs
  /\ WorkspaceAccepts(k)
  /\ k \in NullKeys \/ (Waiting(k) = {} /\ Running(k) = {})
  /\ jobs' = [jobs EXCEPT ![inserted + 1] = PendingRow(k, delay, 0)]
  /\ inserted' = inserted + 1
  /\ enqueues' = enqueues + 1
  /\ UNCHANGED <<wsState, process, history, faults>>

Enqueue == \E k \in Keys, delay \in Delays : EnqueueUpdate(k, delay) \/ EnqueueInsert(k, delay)

\* One tick of wall-clock time.
Tick ==
  /\ \E j \in JobIds : jobs[j].timer > 0
  /\ jobs' = [j \in JobIds |-> Written(j, jobs[j].status, jobs[j].locked,
                                       IF jobs[j].timer > 0 THEN jobs[j].timer - 1 ELSE 0,
                                       jobs[j].attempts)]
  /\ UNCHANGED <<inserted, wsState, process, history, enqueues, faults>>

MutantPruneByAge(status) ==
  /\ \E batch \in SUBSET {j \in JobIds : Present(j) /\ jobs[j].timer = 0} :
       batch # {} /\ jobs' = Removed(batch)
  /\ UNCHANGED <<inserted, wsState, process, history, enqueues, faults>>

\* One transaction of pruneOldJobs, which the app server and the worker both run
\* while they start: a batch of rows of one terminal status past its retention.
Prune(status) ==
  /\ \E batch \in SUBSET {j \in JobIds : jobs[j].status = status /\ jobs[j].timer = 0} :
       /\ batch # {}
       /\ Cardinality(batch) <= BatchSize
       /\ jobs' = Removed(batch)
  /\ UNCHANGED <<inserted, wsState, process, history, enqueues, faults>>

-----------------------------------------------------------------------------
(* The worker process *)

Fault == faults < MaxFaults /\ faults' = faults + 1
Goto(w, state) == pc' = [pc EXCEPT ![w] = state]
Idle(w) == Goto(w, "idle") /\ claim' = [claim EXCEPT ![w] = NoClaim]
Busy(w) == pc[w] \in BusyStates

\* The processes that execute job j.
Executing(j) == {w \in Workers : Busy(w) /\ claim[w].job = j}

\* A live process whose markReady failed polls on without the lock.
Unlocked(w) == readiness[w] = "failed"

MutantStartOverLock(w) ==
  /\ pc[w] = "off"
  /\ lockFile' = w
  /\ Goto(w, "starting")
  /\ UNCHANGED <<table, claim, stopping, readiness, history, enqueues, faults>>

\* startWorkerProcess: creating the lock file with "wx" fails while one exists,
\* and then the process exits at once.
Start(w) ==
  /\ pc[w] = "off"
  /\ lockFile = NoWorker
  /\ lockFile' = w
  /\ Goto(w, "starting")
  /\ UNCHANGED <<table, claim, stopping, readiness, history, enqueues, faults>>

\* Start-up fails before the runner has started: releaseWorkerResources removes the
\* lock and nothing keeps the process alive.
StartFails(w) ==
  /\ pc[w] = "starting"
  /\ Fault
  /\ lockFile' = NoWorker
  /\ Goto(w, "off")
  /\ UNCHANGED <<table, claim, stopping, readiness, history, enqueues>>

\* startJobWorker sets the poll timer and begins a first run at once.
Ready(w) ==
  /\ pc[w] = "starting"
  /\ Goto(w, "polling")
  /\ UNCHANGED <<table, door, claim, stopping, history, enqueues, faults>>

\* The lock is marked ready and the signal handlers are registered, while the first
\* run, or a later one, is under way.
MarkReady(w) ==
  /\ pc[w] \notin {"off", "starting"}
  /\ readiness[w] = "pending"
  /\ readiness' = [readiness EXCEPT ![w] = "ready"]
  /\ UNCHANGED <<table, lockFile, pc, claim, stopping, history, enqueues, faults>>

\* The write of markReady throws: the lock is released (or that fails too and only
\* is warned of), the database is closed, to be opened again by the next statement,
\* and the poll timer goes on.
NotReady(w) ==
  /\ readiness[w] = "pending"
  /\ Fault
  /\ readiness' = [readiness EXCEPT ![w] = "failed"]
  /\ lockFile' \in {NoWorker, w}

MarkReadyFails(w) ==
  /\ pc[w] \notin {"off", "starting"}
  /\ NotReady(w)
  /\ UNCHANGED <<table, pc, claim, stopping, history, enqueues>>

MutantPollDespiteShutdown(w) ==
  /\ pc[w] = "idle"
  /\ Goto(w, "polling")
  /\ UNCHANGED <<table, door, claim, stopping, history, enqueues, faults>>

\* The poll timer fires: no run is active and no shutdown was requested.
Poll(w) ==
  /\ pc[w] = "idle"
  /\ ~stopping[w]
  /\ Goto(w, "polling")
  /\ UNCHANGED <<table, door, claim, stopping, history, enqueues, faults>>

\* claimAvailableJobs with the claim limit 1 both callers use.
ClaimJob(w) ==
  /\ pc[w] = "polling"
  /\ \E j \in Claimable :
       /\ jobs' = [jobs EXCEPT ![j] =
            Written(j, "running", TRUE, LockTtl, jobs[j].attempts + 1)]
       /\ claim' = [claim EXCEPT ![w] =
            [job |-> j, key |-> jobs[j].key, attempts |-> jobs[j].attempts + 1,
             payload |-> jobs[j].payload]]
       /\ contested' = contested \union {i \in {j} : Executing(i) # {}}
  /\ Goto(w, "checking")
  /\ UNCHANGED <<inserted, wsState, door, stopping, ran, enqueues, faults>>

NothingToClaim(w) ==
  /\ pc[w] = "polling"
  /\ Claimable = {}
  /\ Goto(w, "idle")
  /\ UNCHANGED <<table, door, claim, stopping, history, enqueues, faults>>

\* The claim transaction throws: the run ends, the table is as before.
ClaimFails(w) ==
  /\ pc[w] = "polling"
  /\ Fault
  /\ Goto(w, "idle")
  /\ UNCHANGED <<table, door, claim, stopping, history, enqueues>>

\* workspaceCanRunClaimedJob: in an unavailable workspace every job but the purge
\* itself is marked completed without running.
CheckWorkspace(w) ==
  /\ pc[w] = "checking"
  /\ Goto(w, IF claim[w].key \in PurgeKeys \/ wsState[WorkspaceOf[claim[w].key]] = "active"
             THEN "handling" ELSE "completing")
  /\ UNCHANGED <<table, door, claim, stopping, history, enqueues, faults>>

\* A database call of runClaimedJob throws: the job counts as failed.
RunFails(w) ==
  /\ pc[w] \in {"checking", "completing"}
  /\ Fault
  /\ Goto(w, "failing")
  /\ UNCHANGED <<table, door, claim, stopping, history, enqueues>>

\* The handler of an ordinary job returns.
HandlerSucceeds(w) ==
  /\ pc[w] = "handling"
  /\ claim[w].key \notin PurgeKeys
  /\ ran' = ran \union {claim[w].payload}
  /\ Goto(w, "completing")
  /\ UNCHANGED <<table, door, claim, stopping, contested, enqueues, faults>>

MutantErrorSwallowed(w) ==
  /\ pc[w] \in {"handling", "fenced"}
  /\ Goto(w, "completing")
  /\ UNCHANGED <<table, door, claim, stopping, history, enqueues, faults>>

\* The handler throws, or none is registered for the type.
HandlerThrows(w) ==
  /\ pc[w] \in {"handling", "fenced"}
  /\ Goto(w, "failing")
  /\ UNCHANGED <<table, door, claim, stopping, history, enqueues, faults>>

MutantFenceDropsRunning(w) ==
  LET ws == WorkspaceOf[claim[w].key]
  IN /\ pc[w] = "handling"
     /\ claim[w].key \in PurgeKeys
     /\ wsState' = [wsState EXCEPT ![ws] = "purging"]
     /\ jobs' = Removed(InWorkspace(ws) \ {claim[w].job})
     /\ Goto(w, "fenced")
     /\ UNCHANGED <<inserted, door, claim, stopping, history, enqueues, faults>>

MutantFenceWithoutDrain(w) ==
  LET ws == WorkspaceOf[claim[w].key]
  IN /\ pc[w] = "handling"
     /\ claim[w].key \in PurgeKeys
     /\ wsState[ws] # "gone"
     /\ wsState' = [wsState EXCEPT ![ws] = "purging"]
     /\ jobs' = Removed({j \in InWorkspace(ws) \ {claim[w].job} : jobs[j].status # "running"})
     /\ Goto(w, "fenced")
     /\ UNCHANGED <<inserted, door, claim, stopping, history, enqueues, faults>>

\* The purge handler's beginFence: the workspace becomes purging and its other rows
\* go unless they are running; running ones make the handler throw ("draining").
PurgeFence(w) ==
  LET ws == WorkspaceOf[claim[w].key]
      others == InWorkspace(ws) \ {claim[w].job}
      busy == {j \in others : jobs[j].status = "running"}
  IN /\ pc[w] = "handling"
     /\ claim[w].key \in PurgeKeys
     /\ wsState[ws] # "gone"
     /\ wsState' = [wsState EXCEPT ![ws] = "purging"]
     /\ jobs' = Removed(others \ busy)
     /\ Goto(w, IF busy = {} THEN "fenced" ELSE "failing")
     /\ UNCHANGED <<inserted, door, claim, stopping, history, enqueues, faults>>

\* purgeWorkspace finds the tombstone complete: the handler returns at once.
PurgeAlreadyComplete(w) ==
  /\ pc[w] = "handling"
  /\ claim[w].key \in PurgeKeys
  /\ wsState[WorkspaceOf[claim[w].key]] = "gone"
  /\ ran' = ran \union {claim[w].payload}
  /\ Goto(w, "completing")
  /\ UNCHANGED <<table, door, claim, stopping, contested, enqueues, faults>>

\* The purge handler's finalize: every row of the workspace goes, the row of the
\* purge job among them, and then the workspace itself.
PurgeFinalize(w) ==
  LET ws == WorkspaceOf[claim[w].key]
  IN /\ pc[w] = "fenced"
     /\ wsState' = [wsState EXCEPT ![ws] = "gone"]
     /\ jobs' = Removed(InWorkspace(ws))
     /\ ran' = ran \union {claim[w].payload}
     /\ Goto(w, "completing")
     /\ UNCHANGED <<inserted, door, claim, stopping, contested, enqueues, faults>>

\* markReady fails while finalize waits for the removal of objects: its transaction
\* is rolled back with the connection, what it has still to do commits statement by
\* statement on the next one, as far as it gets, and its COMMIT throws.
PurgeTorn(w) ==
  LET ws == WorkspaceOf[claim[w].key]
  IN /\ pc[w] = "fenced"
     /\ NotReady(w)
     /\ \/ UNCHANGED <<jobs, wsState>>
        \/ /\ jobs' = Removed(InWorkspace(ws))
           /\ wsState' \in {wsState, [wsState EXCEPT ![ws] = "gone"]}
     /\ Goto(w, "failing")
     /\ UNCHANGED <<inserted, claim, stopping, history, enqueues>>

\* The two writes that end a claim address the row by job_id alone.
Verdict(w, status, timer) ==
  LET j == claim[w].job
  IN jobs' = IF Present(j)
             THEN [jobs EXCEPT ![j] = Written(j, status, FALSE, timer, jobs[j].attempts)]
             ELSE jobs

MarkCompleted(w) ==
  /\ pc[w] = "completing"
  /\ Verdict(w, "completed", CompletedRetention + 1)
  /\ Idle(w)
  /\ UNCHANGED <<inserted, wsState, door, stopping, history, enqueues, faults>>

MutantRetryInPast(w) ==
  /\ pc[w] = "failing"
  /\ IF claim[w].attempts >= MaxAttempts[claim[w].key]
     THEN Verdict(w, "dead", DeadRetention + 1)
     ELSE Verdict(w, "failed", 0 - RetryDelay(claim[w].attempts))
  /\ Idle(w)
  /\ UNCHANGED <<inserted, wsState, door, stopping, history, enqueues, faults>>
MutantOneMoreAttempt(w) ==
  /\ pc[w] = "failing"
  /\ IF claim[w].attempts > MaxAttempts[claim[w].key]
     THEN Verdict(w, "dead", DeadRetention + 1)
     ELSE Verdict(w, "failed", RetryDelay(claim[w].attempts))
  /\ Idle(w)
  /\ UNCHANGED <<inserted, wsState, door, stopping, history, enqueues, faults>>

\* A retry would make a second active row with the key: the unique index refuses it.
RetryRefused(w) ==
  /\ claim[w].attempts < MaxAttempts[claim[w].key]
  /\ claim[w].key \notin NullKeys
  /\ \E i \in JobIds \ {claim[w].job} :
       jobs[i].key = claim[w].key /\ jobs[i].status \in ActiveStatuses

\* markJobFailed decides on the attempt_count and max_attempts of the claimed row.
MarkFailed(w) ==
  /\ pc[w] = "failing"
  /\ ~RetryRefused(w)
  /\ IF claim[w].attempts >= MaxAttempts[claim[w].key]
     THEN Verdict(w, "dead", DeadRetention + 1)
     ELSE Verdict(w, "failed", RetryDelay(claim[w].attempts))
  /\ Idle(w)
  /\ UNCHANGED <<inserted, wsState, door, stopping, history, enqueues, faults>>

MarkFailedRefused(w) ==
  /\ pc[w] = "failing"
  /\ RetryRefused(w)
  /\ Idle(w)
  /\ UNCHANGED <<table, door, stopping, history, enqueues, faults>>

\* markJobFailed itself throws: the run is abandoned and the row stays running.
MarkFailedAborts(w) ==
  /\ pc[w] = "failing"
  /\ Fault
  /\ Idle(w)
  /\ UNCHANGED <<table, door, stopping, history, enqueues>>

MutantUnlockAtSignal(w) ==
  /\ readiness[w] = "ready"
  /\ ~stopping[w]
  /\ stopping' = [stopping EXCEPT ![w] = TRUE]
  /\ lockFile' = NoWorker
  /\ UNCHANGED <<table, readiness, pc, claim, history, enqueues, faults>>

\* SIGINT or SIGTERM, once the handlers are registered.
RequestShutdown(w) ==
  /\ readiness[w] = "ready"
  /\ ~stopping[w]
  /\ stopping' = [stopping EXCEPT ![w] = TRUE]
  /\ UNCHANGED <<table, door, pc, claim, history, enqueues, faults>>

\* shutdownWorker: the active run has ended; the lock is released and the process ends.
Exit(w) ==
  /\ pc[w] = "idle"
  /\ stopping[w]
  /\ lockFile' = NoWorker
  /\ Goto(w, "off")
  /\ stopping' = [stopping EXCEPT ![w] = FALSE]
  /\ readiness' = [readiness EXCEPT ![w] = "pending"]
  /\ UNCHANGED <<table, claim, history, enqueues, faults>>

\* The process dies anywhere; its claim is lost, the lock file is left as it is.
Crash(w) ==
  /\ pc[w] # "off"
  /\ Fault
  /\ Goto(w, "off")
  /\ claim' = [claim EXCEPT ![w] = NoClaim]
  /\ stopping' = [stopping EXCEPT ![w] = FALSE]
  /\ readiness' = [readiness EXCEPT ![w] = "pending"]
  /\ UNCHANGED <<table, lockFile, history, enqueues>>

\* The operator removes a stale lock, having confirmed that no worker is running.
RemoveStaleLock ==
  /\ lockFile # NoWorker
  /\ \A w \in Workers : pc[w] = "off"
  /\ lockFile' = NoWorker
  /\ UNCHANGED <<table, readiness, pc, claim, stopping, history, enqueues, faults>>

-----------------------------------------------------------------------------

\* What a process does by itself while nothing goes wrong.
Progress(w) ==
  \/ Ready(w) \/ MarkReady(w) \/ Poll(w) \/ ClaimJob(w) \/ NothingToClaim(w)
  \/ CheckWorkspace(w) \/ HandlerSucceeds(w) \/ HandlerThrows(w)
  \/ PurgeFence(w) \/ PurgeAlreadyComplete(w) \/ PurgeFinalize(w)
  \/ MarkCompleted(w) \/ MarkFailed(w) \/ MarkFailedRefused(w) \/ Exit(w)

Failure(w) ==
  \/ StartFails(w) \/ MarkReadyFails(w) \/ PurgeTorn(w)
  \/ ClaimFails(w) \/ RunFails(w) \/ MarkFailedAborts(w) \/ Crash(w)

Next ==
  \/ Enqueue \/ Tick
  \/ \E status \in TerminalStatuses : Prune(status)
  \/ RemoveStaleLock
  \/ \E w \in Workers : Start(w) \/ RequestShutdown(w) \/ Progress(w) \/ Failure(w)

Spec == Init /\ [][Next]_vars

\* Time passes, a live process keeps running, and the operator (or the container's
\* restart policy) clears a stale lock and starts a worker again.
Fairness ==
  /\ WF_vars(Tick)
  /\ WF_vars(RemoveStaleLock)
  /\ WF_vars(\E w \in Workers : Start(w))
  /\ \A w \in Workers : WF_vars(Progress(w))

FairSpec == Spec /\ Fairness

-----------------------------------------------------------------------------
(* Safety *)

Active(j) == jobs[j].status \in ActiveStatuses

\* Every variable has the type the schema and the runner give it.
TypeOK ==
  /\ jobs \in [JobIds -> Row]
  /\ inserted \in 0..MaxJobs
  /\ wsState \in [Workspaces -> WorkspaceStates]
  /\ lockFile \in Workers \union {NoWorker}
  /\ pc \in [Workers -> ProcessStates]
  /\ claim \in [Workers -> Claim]
  /\ stopping \in [Workers -> BOOLEAN]
  /\ readiness \in [Workers -> Readiness]
  /\ ran \subseteq Payloads
  /\ contested \subseteq JobIds
  /\ enqueues \in 0..MaxEnqueues
  /\ faults \in 0..MaxFaults

\* A live process holds the lock file, or its markReady failed: so of two live
\* processes one has reported a failed start-up, and crashes, the operator's removal
\* and the shutdown of an unlocked process never open the lock of another.
LockGuardsProcess == \A w \in Workers : pc[w] # "off" => lockFile = w \/ Unlocked(w)

\* The unique index idx_jobs_active_dedupe is never violated: two rows with a
\* dedupe key in common are never both pending, running or failed.
DedupeUnique ==
  \A i, j \in JobIds :
    /\ Active(i) /\ Active(j)
    /\ jobs[i].key = jobs[j].key
    /\ jobs[i].key \notin NullKeys
    => i = j

\* The row a worker is executing is still the row it claimed - running, same
\* attempt, same payload - unless it is the job of a purge, deleted by that purge, or
\* another process has claimed it meanwhile.  This is what makes the unfenced
\* "WHERE job_id" writes that end a claim safe.
ClaimOwnsRow ==
  \A w \in Workers : Busy(w) =>
    LET c == claim[w]
        row == jobs[c.job]
    IN \/ /\ row.status = "running"
          /\ row.key = c.key
          /\ row.attempts = c.attempts
          /\ row.payload = c.payload
       \/ /\ row.status = "absent"
          /\ c.key \in PurgeKeys
          /\ wsState[WorkspaceOf[c.key]] # "active"
       \/ c.job \in contested

\* Two processes execute one row at a time only if one of them runs unlocked, and
\* then as different attempts: the lease that lets a row be claimed again while its
\* handler may still be running never hands out one attempt twice.
ExclusiveExecution ==
  \A v, w \in Workers :
    Busy(v) /\ Busy(w) /\ claim[v].job = claim[w].job /\ v # w =>
      /\ Unlocked(v) \/ Unlocked(w)
      /\ claim[v].attempts # claim[w].attempts

\* A row waiting to be claimed always has an attempt left, also after updates that
\* keep its attempt_count, unless two processes have executed it at a time.
WaitingHasCapacity ==
  \A j \in JobIds \ contested :
    jobs[j].status \in {"pending", "failed"} => jobs[j].attempts < MaxAttempts[jobs[j].key]

\* A claim past max_attempts happens only after a crash or a failed write left the
\* row running: at most one extra attempt per such fault, unless two processes have
\* executed the row at a time.
AttemptsPaidFor ==
  \A j \in JobIds \ contested :
    Present(j) => jobs[j].attempts <= MaxAttempts[jobs[j].key] + faults

\* A completed row's payload, as last written by a producer, was handled without an
\* exception, unless its workspace was fenced and the job skipped, or two processes
\* have executed it at a time.
CompletedRan ==
  \A j \in JobIds \ contested :
    jobs[j].status = "completed" =>
      jobs[j].payload \in ran \/ wsState[WorkspaceOf[jobs[j].key]] # "active"

\* Once a purge has found its workspace drained, no handler but the purge's runs in
\* it: the status check before the handler is not repeated, yet never goes stale.  A
\* job two processes execute escapes: the verdict of one hides the other.
FencedWorkspaceQuiet ==
  \A w \in Workers :
    pc[w] = "handling" /\ claim[w].key \notin PurgeKeys /\ claim[w].job \notin contested =>
      LET ws == WorkspaceOf[claim[w].key]
      IN /\ wsState[ws] # "gone"
         /\ \A v \in Workers : pc[v] = "fenced" => WorkspaceOf[claim[v].key] # ws

\* Between the fence and the finalization a workspace has no rows but those of its
\* purge, although producers keep enqueueing and late verdicts keep arriving.
FenceHolds ==
  \A w \in Workers :
    pc[w] = "fenced" =>
      \A j \in InWorkspace(WorkspaceOf[claim[w].key]) : jobs[j].key \in PurgeKeys

\* A deleted workspace has no job rows (the foreign key jobs.workspace_id).
NoOrphanRows == \A ws \in Workspaces : wsState[ws] = "gone" => InWorkspace(ws) = {}

(* Action properties *)

\* A completed or dead row never becomes active again, unless two processes have
\* executed it at a time; it can only be deleted.
TerminalIsFinal ==
  [][\A j \in JobIds \ contested : jobs[j].status \in TerminalStatuses =>
        jobs'[j].status \in {jobs[j].status, "absent"}]_vars

\* Active rows are deleted by nothing but the purge of their workspace; retention
\* pruning spares them whatever their age.
ActiveRowsSurvive ==
  [][\A j \in JobIds : Active(j) /\ jobs'[j].status = "absent" =>
        wsState'[WorkspaceOf[jobs[j].key]] # "active"]_vars

(* Liveness, under FairSpec *)

\* Every accepted job settles: it is completed, dead or purged in the end, whatever
\* crashes, failed writes and restarts come in between.
EveryJobSettles == \A j \in JobIds : Active(j) ~> ~Active(j)

\* A graceful shutdown ends: the active run drains and the process leaves.
ShutdownCompletes == \A w \in Workers : stopping[w] ~> pc[w] = "off"

(* What the documents say and the code does not do *)

\* "When attempt_count reaches max_attempts, the runner moves the row to dead": no
\* row is ever claimed for an attempt beyond max_attempts.
AttemptsWithinMax ==
  \A j \in JobIds : Present(j) => jobs[j].attempts <= MaxAttempts[jobs[j].key]

\* "At most one local worker process" polls a database (docs/sqlite-small-office-mode.md).
OneWorkerProcess == \A v, w \in Workers : pc[v] # "off" /\ pc[w] # "off" => v = w

-----------------------------------------------------------------------------
(* Refinement *)

StageOf(status) ==
  CASE status \in {"pending", "failed"} -> "queued"
    [] status = "running" -> "taken"
    [] status = "completed" -> "done"
    [] OTHER -> status

\* The job each process is executing.
CurrentJob == [w \in Workers |-> IF Busy(w) THEN claim[w].job ELSE 0]

Outbox == INSTANCE DurableOutbox WITH
  Jobs <- JobIds,
  Executors <- Workers,
  work <- [j \in JobIds |-> StageOf(jobs[j].status)],
  current <- CurrentJob,
  unlocked <- {w \in Workers : Unlocked(w)},
  shared <- contested

\* Rows, leases, retries, crashes and the purge together keep the outbox's promise.
ImplementsOutbox == Outbox!Spec
=============================================================================
