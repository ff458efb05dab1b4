------------------------ MODULE JobQueueSafetyProofs ------------------------
(***************************************************************************)
(* What follows from Shape and Ownership, for every value of JobQueue's    *)
(* constants: who executes a row, how a row may evolve, deduplication,     *)
(* the attempt budget and the fence around a purged workspace.             *)
(***************************************************************************)
EXTENDS JobQueueProofs

USE DEF JobIds, Payloads

(***************************************************************************)
(* Consequences of ownership                                               *)
(***************************************************************************)

\* A worker process without the lock is one whose markReady failed, whatever
\* crashes, failed start-ups and stale lock files there were.
THEOREM LockHolds == Spec => []LockGuardsProcess
<1>1. Ownership => LockGuardsProcess
  BY DEF Ownership, Admission
<1> QED
  BY <1>1, OwnershipHolds, PTL

\* Two processes execute one row only if one of them has no lock, and never as the
\* same attempt.
THEOREM ExclusiveExecutionHolds == Spec => []ExclusiveExecution
<1>1. ASSUME Ownership, NEW v \in Workers, NEW w \in Workers,
             Busy(v), Busy(w), claim[v].job = claim[w].job, v # w
      PROVE  /\ Unlocked(v) \/ Unlocked(w)
             /\ claim[v].attempts # claim[w].attempts
  <2>1. pc[v] # "off" /\ pc[w] # "off"
    BY <1>1 DEF Busy, BusyStates
  <2> QED
    BY <1>1, <2>1 DEF Ownership, Admission, LockGuardsProcess, Apart
<1>2. Ownership => ExclusiveExecution
  BY <1>1 DEF ExclusiveExecution
<1> QED
  BY <1>2, OwnershipHolds, PTL

\* The writes that end a claim meet the row that was claimed, none if a purge has
\* deleted it, or a row that another process has claimed meanwhile.
THEOREM ClaimOwnsRowHolds == Spec => []ClaimOwnsRow
<1>1. Ownership => ClaimOwnsRow
  BY DEF Ownership, Owns, Held, Dropped, Ws, ClaimOwnsRow
<1> QED
  BY <1>1, OwnershipHolds, PTL

\* Past the fence a workspace has no rows but its purge's.
THEOREM FenceStands == Spec => []FenceHolds
<1>1. Ownership => FenceHolds
  BY DEF Ownership, Fenced, FenceHolds, Ws
<1> QED
  BY <1>1, OwnershipHolds, PTL

\* A deleted workspace leaves no row behind and receives none.
THEOREM NoOrphans == Spec => []NoOrphanRows
<1>1. Ownership => NoOrphanRows
  BY DEF Ownership
<1> QED
  BY <1>1, OwnershipHolds, PTL

\* No handler but the purge runs in a workspace that is drained or gone: the row of
\* the handler's job would stand in the way.
THEOREM QuietHolds == Spec => []FencedWorkspaceQuiet
<1>1. ASSUME Shape, Ownership, NEW w \in Workers,
             pc[w] = "handling", claim[w].key \notin PurgeKeys, claim[w].job \notin contested
      PROVE  /\ wsState[Ws(w)] # "gone"
             /\ \A v \in Workers : pc[v] = "fenced" => Ws(v) # Ws(w)
  <2>1. Busy(w)
    BY <1>1 DEF Busy, BusyStates
  <2>2. Held(w)
    BY <1>1, <2>1 DEF Ownership, Owns, Dropped
  <2>3. claim[w].job \in InWorkspace(Ws(w)) /\ jobs[claim[w].job].key \notin PurgeKeys
    BY <1>1, <2>1, <2>2, BusyTypes DEF Held, InWorkspace, Present, Ws
  <2>4. wsState[Ws(w)] # "gone"
    BY <1>1, <2>1, <2>3, BusyTypes DEF Ownership, NoOrphanRows
  <2>5. \A v \in Workers : pc[v] = "fenced" => Ws(v) # Ws(w)
    BY <1>1, <2>3 DEF Ownership, Fenced
  <2> QED
    BY <2>4, <2>5
<1>2. Shape /\ Ownership => FencedWorkspaceQuiet
  BY <1>1 DEF FencedWorkspaceQuiet, Ws
<1> QED
  BY <1>2, ShapeCorrect, OwnershipHolds, PTL

(***************************************************************************)
(* How a row may evolve in one step                                        *)
(***************************************************************************)

\* No other active row has the key k.
SoleActive(j, k) == \A i \in JobIds \ {j} : ~(Active(i) /\ jobs[i].key = k)

\* A producer inserts row j, the only change, and no active row shares its key.
Inserted(j) ==
  /\ jobs[j].status = "absent"
  /\ jobs'[j].status = "pending"
  /\ jobs'[j].key \in Keys
  /\ jobs'[j].attempts = 0
  /\ \A i \in JobIds \ {j} : jobs'[i] = jobs[i]
  /\ jobs'[j].key \notin NullKeys => SoleActive(j, jobs'[j].key)

\* A producer rewrites a waiting row; its attempt count stays.
Rewritten(j) ==
  /\ jobs[j].status \in {"pending", "failed"}
  /\ jobs'[j].status = "pending"
  /\ jobs'[j].key = jobs[j].key
  /\ jobs'[j].attempts = jobs[j].attempts

\* A process claims a waiting row, or one whose lease ran out; the row is contested
\* from then on if another still executes it.
Claimed(j) ==
  /\ Active(j)
  /\ jobs'[j].status = "running"
  /\ jobs'[j].key = jobs[j].key
  /\ jobs'[j].attempts = jobs[j].attempts + 1
  /\ j \in contested' \/ \A w \in Workers : Busy(w) => claim[w].job # j
  /\ \E w \in Workers : Busy(w)' /\ claim'[w].job = j
  /\ faults' = faults

\* The process that holds row j gives its verdict; if several do, the row may be
\* finished already, yet a retry never makes a second active row with the key.
Concluded(j) ==
  /\ jobs'[j].status \in {"completed", "failed", "dead"}
  /\ jobs'[j].key = jobs[j].key
  /\ jobs'[j].attempts = jobs[j].attempts
  /\ \A i \in JobIds \ {j} : jobs'[i] = jobs[i]
  /\ jobs'[j].status = "failed" /\ jobs[j].key \notin NullKeys => SoleActive(j, jobs[j].key)
  /\ \/ j \in contested /\ Present(j)
     \/ /\ jobs[j].status = "running"
        /\ jobs'[j].status = "failed" => jobs[j].attempts < MaxAttempts[jobs[j].key]

\* Retention deletes a finished row, a purge any row of its workspace.
Deleted(j) ==
  /\ jobs'[j].status = "absent"
  /\ jobs[j].status \in TerminalStatuses \/ wsState'[WorkspaceOf[jobs[j].key]] # "active"

RowStep(j) ==
  SameRow(j) \/ Inserted(j) \/ Rewritten(j) \/ Claimed(j) \/ Concluded(j) \/ Deleted(j)

LEMMA RowSteps ==
  ASSUME Shape, Ownership, [Next]_vars
  PROVE  \A j \in JobIds : RowStep(j)
<1> USE BoundAssumption, KeyAssumption, WorkerAssumption
<1>0. ASSUME UNCHANGED jobs, NEW j \in JobIds
      PROVE  RowStep(j)
  BY <1>0 DEF RowStep, SameRow
<1>1. ASSUME NEW k \in Keys, NEW d \in Delays, EnqueueUpdate(k, d), NEW j \in JobIds
      PROVE  RowStep(j)
  <2>1. CASE j \in Waiting(k)
    BY <1>1, <2>1 DEF EnqueueUpdate, Waiting, PendingRow, Rewritten, RowStep
  <2>2. CASE j \notin Waiting(k)
    BY <1>1, <2>2 DEF EnqueueUpdate, SameRow, RowStep
  <2> QED
    BY <2>1, <2>2
<1>2. ASSUME NEW k \in Keys, NEW d \in Delays, EnqueueInsert(k, d), NEW j \in JobIds
      PROVE  RowStep(j)
  <2>1. /\ inserted \in Nat /\ inserted + 1 \in JobIds
        /\ jobs' = [jobs EXCEPT ![inserted + 1] = PendingRow(k, d, 0)]
    BY <1>2 DEF EnqueueInsert, Shape, TypeOK
  <2>2. CASE j # inserted + 1
    BY <2>1, <2>2 DEF SameRow, RowStep, Shape
  <2>3. CASE j = inserted + 1
    <3>1. jobs[j].status = "absent"
      BY <2>1, <2>3 DEF Shape, AbsentRow
    <3>2. jobs'[j] = PendingRow(k, d, 0)
      BY <2>1, <2>3 DEF Shape
    <3>3. \A i \in JobIds \ {j} : jobs'[i] = jobs[i]
      BY <2>1, <2>3 DEF Shape
    <3>4. k \notin NullKeys => SoleActive(j, k)
      BY <1>2 DEF EnqueueInsert, Waiting, Running, Active, ActiveStatuses, SoleActive
    <3> QED
      BY <3>1, <3>2, <3>3, <3>4 DEF PendingRow, Inserted, RowStep
  <2> QED
    BY <2>2, <2>3
<1>3. ASSUME Tick, NEW j \in JobIds
      PROVE  RowStep(j)
  BY <1>3 DEF Tick, Written, SameRow, RowStep
<1>4. ASSUME NEW status \in TerminalStatuses, Prune(status), NEW j \in JobIds
      PROVE  RowStep(j)
  <2>1. PICK batch : /\ \A i \in batch : jobs[i].status = status
                     /\ jobs' = Removed(batch)
    BY <1>4 DEF Prune
  <2>2. CASE j \in batch
    BY <2>1, <2>2 DEF Removed, AbsentRow, Deleted, RowStep
  <2>3. CASE j \notin batch
    BY <2>1, <2>3 DEF Removed, SameRow, RowStep
  <2> QED
    BY <2>2, <2>3
<1>5. ASSUME RemoveStaleLock \/ UNCHANGED vars
      PROVE  UNCHANGED jobs
  BY <1>5 DEF RemoveStaleLock, vars, table
<1>6. ASSUME NEW w \in Workers, Step(w), ~RowWrite(w)
      PROVE  UNCHANGED jobs
  BY <1>6, QuietStep DEF table
<1>7. ASSUME NEW w \in Workers, ClaimJob(w), NEW j \in JobIds
      PROVE  RowStep(j)
  <2>1. PICK i \in JobIds :
          /\ Active(i) /\ Busy(w)'
          /\ jobs' = [jobs EXCEPT ![i] = Written(i, "running", TRUE, LockTtl, jobs[i].attempts + 1)]
          /\ claim'[w] = [job |-> i, key |-> jobs[i].key, attempts |-> jobs[i].attempts + 1,
                          payload |-> jobs[i].payload]
          /\ contested' = contested \union {l \in {i} : Executing(l) # {}}
          /\ faults' = faults
    BY <1>7, ClaimStep
  <2>2. CASE j = i
    <3>1. i \in contested' \/ \A v \in Workers : Busy(v) => claim[v].job # i
      BY <2>1 DEF Executing
    <3>2. jobs'[i] = Written(i, "running", TRUE, LockTtl, jobs[i].attempts + 1)
      BY <2>1 DEF Shape
    <3>3. claim'[w].job = i
      BY <2>1
    <3> QED
      BY <2>1, <2>2, <3>1, <3>2, <3>3 DEF Written, Claimed, RowStep
  <2>3. CASE j # i
    BY <2>1, <2>3 DEF SameRow, RowStep, Shape
  <2> QED
    BY <2>2, <2>3
<1>8. ASSUME NEW w \in Workers, MarkCompleted(w) \/ MarkFailed(w), NEW j \in JobIds
      PROVE  RowStep(j)
  <2>1. Busy(w) /\ claim[w].job \in JobIds /\ Owns(w)
    BY <1>8, BusyTypes DEF MarkCompleted, MarkFailed, Busy, BusyStates, Ownership
  <2>2. PICK status, timer :
          /\ status \in {"completed", "failed", "dead"}
          /\ Verdict(w, status, timer)
          /\ status = "failed" => /\ ~RetryRefused(w)
                                  /\ ~(claim[w].attempts >= MaxAttempts[claim[w].key])
    BY <1>8 DEF MarkCompleted, MarkFailed
  <2>3. CASE j = claim[w].job /\ Present(j)
    <3>1. jobs'[j] = Written(j, status, FALSE, timer, jobs[j].attempts)
      BY <2>2, <2>3 DEF Verdict, Shape
    <3>2. \A i \in JobIds \ {j} : jobs'[i] = jobs[i]
      BY <2>2, <2>3 DEF Verdict, Shape
    <3>3. jobs[j].key = claim[w].key
      BY <2>1, <2>3 DEF Owns
    <3>4. status = "failed" => claim[w].attempts < MaxAttempts[claim[w].key]
      <4>1. claim[w].attempts \in Nat /\ MaxAttempts[claim[w].key] \in Nat
        BY <2>1, BusyTypes
      <4> QED
        BY <2>2, <4>1
    <3>5. status = "failed" /\ jobs[j].key \notin NullKeys => SoleActive(j, jobs[j].key)
      BY <2>2, <2>3, <3>3, <3>4 DEF RetryRefused, SoleActive, Active
    <3>6. \/ j \in contested
          \/ /\ jobs[j].status = "running"
             /\ status = "failed" => jobs[j].attempts < MaxAttempts[jobs[j].key]
      BY <2>1, <2>3, <3>4 DEF Owns, Held, Dropped, Present
    <3> QED
      BY <2>2, <2>3, <3>1, <3>2, <3>5, <3>6 DEF Written, Concluded, RowStep
  <2>4. CASE ~(j = claim[w].job /\ Present(j))
    BY <2>2, <2>4 DEF Verdict, SameRow, RowStep, Shape
  <2> QED
    BY <2>3, <2>4
<1>9. ASSUME NEW w \in Workers, PurgeFence(w) \/ PurgeFinalize(w) \/ PurgeTorn(w), NEW j \in JobIds
       PROVE  RowStep(j)
  <2>1. Busy(w) /\ Ws(w) \in Workspaces
    BY <1>9, BusyTypes DEF PurgeFence, PurgeFinalize, PurgeTorn, Busy, BusyStates
  <2>2. PICK gone : gone \subseteq InWorkspace(Ws(w)) /\ jobs' = Removed(gone)
    <3>1. CASE PurgeFence(w) \/ PurgeFinalize(w)
      BY <3>1 DEF PurgeFence, PurgeFinalize, Ws
    <3>2. CASE PurgeTorn(w)
      <4>1. jobs' = jobs \/ jobs' = Removed(InWorkspace(Ws(w)))
        BY <3>2 DEF PurgeTorn, Ws
      <4>2. jobs = Removed({})
        BY DEF Removed, Shape
      <4> QED
        BY <4>1, <4>2
    <3> QED
      BY <1>9, <3>1, <3>2
  <2>3. wsState'[Ws(w)] # "active"
    BY <1>9, <2>1 DEF PurgeFence, PurgeFinalize, PurgeTorn, Ownership, Fenced, Ws, Shape, TypeOK
  <2>4. CASE j \in gone
    BY <2>2, <2>3, <2>4 DEF InWorkspace, Removed, AbsentRow, Deleted, RowStep
  <2>5. CASE j \notin gone
    BY <2>2, <2>5 DEF Removed, SameRow, RowStep
  <2> QED
    BY <2>4, <2>5
<1> QED
  BY <1>0, <1>1, <1>2, <1>3, <1>4, <1>5, <1>6, <1>7, <1>8, <1>9, Steps
     DEF TableStep, Enqueue, RowWrite

(***************************************************************************)
(* Invariants and action properties of rows                                *)
(***************************************************************************)

\* The unique index over active rows is never violated.
THEOREM DedupeHolds == Spec => []DedupeUnique
<1>1. Init => DedupeUnique
  BY DEF Init, DedupeUnique, Active, ActiveStatuses, AbsentRow
<1>2. ASSUME Shape, Ownership, DedupeUnique, [Next]_vars
      PROVE  DedupeUnique'
  <2>1. SUFFICES ASSUME NEW i \in JobIds, NEW j \in JobIds,
                        Active(i)', Active(j)', jobs'[i].key = jobs'[j].key,
                        jobs'[i].key \notin NullKeys, i # j
                 PROVE  FALSE
    BY DEF DedupeUnique
  <2>2. ASSUME NEW x \in {i, j}
        PROVE  \/ /\ SoleActive(x, jobs'[x].key)
                  /\ \A y \in JobIds \ {x} : jobs'[y] = jobs[y]
               \/ Active(x) /\ jobs'[x].key = jobs[x].key
    <3>1. RowStep(x)
      BY <1>2, RowSteps
    <3>2. Active(x)' /\ jobs'[x].key \notin NullKeys
      BY <2>1
    <3>3. CASE SameRow(x) \/ Rewritten(x) \/ Claimed(x) \/ Deleted(x)
      BY <3>2, <3>3 DEF SameRow, Rewritten, Claimed, Deleted, Active, ActiveStatuses
    <3>4. CASE Inserted(x)
      BY <3>2, <3>4 DEF Inserted
    <3>5. CASE Concluded(x)
      BY <3>2, <3>5 DEF Concluded, Active, ActiveStatuses
    <3> QED
      BY <3>1, <3>3, <3>4, <3>5 DEF RowStep
  <2>3. ASSUME NEW x \in {i, j}, NEW y \in {i, j}, x # y, SoleActive(x, jobs'[x].key),
               \A z \in JobIds \ {x} : jobs'[z] = jobs[z]
        PROVE  FALSE
    BY <2>1, <2>3 DEF SoleActive, Active
  <2> QED
    BY <1>2, <2>1, <2>2, <2>3 DEF DedupeUnique
<1> QED
  BY <1>1, <1>2, ShapeCorrect, OwnershipHolds, PTL DEF Spec

\* A waiting row has an attempt left, unless it was shared.
THEOREM CapacityHolds == Spec => []WaitingHasCapacity
<1>1. Init => WaitingHasCapacity
  BY DEF Init, WaitingHasCapacity, AbsentRow
<1>2. ASSUME Shape, Ownership, WaitingHasCapacity, [Next]_vars
      PROVE  WaitingHasCapacity'
  <2>1. SUFFICES ASSUME NEW j \in JobIds, j \notin contested', jobs'[j].status \in {"pending", "failed"}
                 PROVE  jobs'[j].attempts < MaxAttempts[jobs'[j].key]
    BY DEF WaitingHasCapacity
  <2>2. RowStep(j) /\ j \notin contested
    BY <1>2, <2>1, RowSteps, Monotone
  <2>3. CASE Inserted(j)
    BY <2>3, KeyAssumption DEF Inserted
  <2> QED
    BY <1>2, <2>1, <2>2, <2>3
       DEF RowStep, SameRow, Rewritten, Claimed, Concluded, Deleted, WaitingHasCapacity
<1> QED
  BY <1>1, <1>2, ShapeCorrect, OwnershipHolds, PTL DEF Spec

\* Finished rows nobody shared stay finished until they are deleted.
THEOREM TerminalRowsStay == Spec => TerminalIsFinal
<1>1. ASSUME Shape, Ownership, [Next]_vars
      PROVE  [\A j \in JobIds \ contested : jobs[j].status \in TerminalStatuses =>
                jobs'[j].status \in {jobs[j].status, "absent"}]_vars
  BY <1>1, RowSteps DEF RowStep, SameRow, Inserted, Rewritten, Claimed, Concluded, Deleted,
                        Active, ActiveStatuses, TerminalStatuses
<1> QED
  BY <1>1, ShapeCorrect, OwnershipHolds, PTL DEF Spec, TerminalIsFinal

\* Only the purge of its workspace deletes an active row.
THEOREM ActiveRowsStay == Spec => ActiveRowsSurvive
<1>1. ASSUME Shape, Ownership, [Next]_vars
      PROVE  [\A j \in JobIds : Active(j) /\ jobs'[j].status = "absent" =>
                wsState'[WorkspaceOf[jobs[j].key]] # "active"]_vars
  BY <1>1, RowSteps DEF RowStep, SameRow, Inserted, Rewritten, Claimed, Concluded, Deleted,
                        Active, ActiveStatuses, TerminalStatuses
<1> QED
  BY <1>1, ShapeCorrect, OwnershipHolds, PTL DEF Spec, ActiveRowsSurvive

(***************************************************************************)
(* The attempt budget.  A running row nobody executes was orphaned by a    *)
(* fault, which pays for the one claim more that its lease will bring.     *)
(***************************************************************************)

Orphan(j) == jobs[j].status = "running" /\ \A w \in Workers : Busy(w) => claim[w].job # j

Budget ==
  \A j \in JobIds \ contested :
    /\ Present(j) => jobs[j].attempts <= MaxAttempts[jobs[j].key] + faults
    /\ Orphan(j) => jobs[j].attempts < MaxAttempts[jobs[j].key] + faults

\* A row is orphaned only by a fault; the refusal of a retry is none, but it meets
\* shared rows only.
LEMMA OrphanStep ==
  ASSUME Shape, Ownership, DedupeUnique, [Next]_vars, NEW j \in JobIds, j \notin contested,
         Orphan(j)', jobs[j].status = "running"
  PROVE  Orphan(j) \/ faults' = faults + 1
<1> SUFFICES ASSUME NEW w \in Workers, Busy(w), claim[w].job = j
             PROVE  faults' = faults + 1
  BY DEF Orphan
<1>1. Present(j) /\ jobs[j].key = claim[w].key
  BY DEF Present, Ownership, Owns
<1>2. ~Busy(w)' \/ claim'[w].job # j
  BY DEF Orphan
<1>3. ASSUME pc'[w] = pc[w], claim'[w] = claim[w]
      PROVE  FALSE
  BY <1>2, <1>3 DEF Busy
<1>4. CASE TableStep
  BY <1>3, <1>4, TableStepFrame
<1>5. ASSUME NEW v \in Workers, Step(v)
      PROVE  faults' = faults + 1
  <2>1. CASE v # w
    BY <1>3, <1>5, <2>1, StepFrame
  <2>2. CASE v = w /\ (MarkCompleted(w) \/ MarkFailed(w))
    <3>1. PICK status, timer : status \in {"completed", "failed", "dead"} /\ Verdict(w, status, timer)
      BY <2>2 DEF MarkCompleted, MarkFailed
    <3>2. jobs'[j].status = status
      BY <1>1, <3>1 DEF Verdict, Written, Shape
    <3> QED
      BY <3>1, <3>2 DEF Orphan
  <2>3. CASE v = w /\ MarkFailedRefused(w)
    <3>1. PICK i \in JobIds \ {j} : jobs[i].key = jobs[j].key /\ Active(i)
      BY <1>1, <2>3 DEF MarkFailedRefused, RetryRefused, Active
    <3>2. jobs[j].key \notin NullKeys
      BY <1>1, <2>3 DEF MarkFailedRefused, RetryRefused
    <3> QED
      BY <3>1, <3>2 DEF DedupeUnique, Active, ActiveStatuses
  <2>4. CASE v = w /\ (CheckWorkspace(w) \/ HandlerSucceeds(w) \/ HandlerThrows(w)
                        \/ PurgeFence(w) \/ PurgeAlreadyComplete(w) \/ PurgeFinalize(w)
                        \/ PurgeTorn(w) \/ RunFails(w))
    <3>1. claim' = claim /\ pc'[w] \in BusyStates
      BY <2>4 DEF CheckWorkspace, HandlerSucceeds, HandlerThrows, PurgeFence, PurgeAlreadyComplete,
         PurgeFinalize, PurgeTorn, RunFails, Goto, BusyStates, Shape, TypeOK
    <3> QED
      BY <1>2, <3>1 DEF Busy
  <2>5. CASE v = w /\ (RequestShutdown(w) \/ MarkReady(w) \/ MarkReadyFails(w))
    BY <1>3, <2>5 DEF RequestShutdown, MarkReady, MarkReadyFails
  <2>6. CASE v = w /\ (Start(w) \/ Ready(w) \/ Poll(w) \/ ClaimJob(w) \/ NothingToClaim(w)
                        \/ Exit(w) \/ StartFails(w) \/ ClaimFails(w))
    BY <2>6 DEF Start, Ready, Poll, ClaimJob, NothingToClaim, Exit, StartFails, ClaimFails, Busy,
       BusyStates
  <2>7. CASE v = w /\ (MarkFailedAborts(w) \/ Crash(w))
    BY <2>7 DEF MarkFailedAborts, Crash, Fault
  <2> QED
    BY <1>5, <2>1, <2>2, <2>3, <2>4, <2>5, <2>6, <2>7 DEF Step, Progress, Failure
<1> QED
  BY <1>4, <1>5, Steps

LEMMA FaultsGrow == ASSUME Shape, [Next]_vars PROVE faults \in Nat /\ faults' \in Nat /\ faults <= faults'
<1>1. faults \in Nat
  BY BoundAssumption DEF Shape, TypeOK
<1>2. ASSUME NEW w \in Workers, Step(w)
      PROVE  faults' = faults \/ faults' = faults + 1
  BY <1>2 DEF Step, Progress, Failure, Start, RequestShutdown, Ready, MarkReady, Poll, ClaimJob,
     NothingToClaim, CheckWorkspace, HandlerSucceeds, HandlerThrows, PurgeFence,
     PurgeAlreadyComplete, PurgeFinalize, PurgeTorn, MarkCompleted, MarkFailed, MarkFailedRefused,
     Exit, StartFails, MarkReadyFails, NotReady, ClaimFails, RunFails, MarkFailedAborts, Crash, Fault
<1>3. faults' = faults \/ faults' = faults + 1
  BY <1>2, Steps, TableStepFrame
<1> QED
  BY <1>1, <1>3

\* max_attempts is exceeded by no more than one attempt per crash or failed write.
THEOREM BudgetHolds == Spec => []AttemptsPaidFor
<1>1. Init => Budget
  BY DEF Init, Budget, Orphan, Present, AbsentRow
<1>2. ASSUME Shape, Ownership, DedupeUnique, WaitingHasCapacity, Budget, [Next]_vars
      PROVE  Budget'
  <2> SUFFICES ASSUME NEW j \in JobIds, j \notin contested', Present(j)'
               PROVE  /\ jobs'[j].attempts <= MaxAttempts[jobs'[j].key] + faults'
                      /\ Orphan(j)' => jobs'[j].attempts < MaxAttempts[jobs'[j].key] + faults'
    BY DEF Budget, Orphan, Present
  <2>0. j \notin contested
    BY <1>2, Monotone
  <2>1. faults \in Nat /\ faults' \in Nat /\ faults <= faults'
    BY <1>2, FaultsGrow
  <2>2. RowStep(j)
    BY <1>2, RowSteps
  <2>3. CASE Inserted(j)
    BY <2>1, <2>3, KeyAssumption DEF Inserted, Orphan
  <2>4. ASSUME Present(j)
        PROVE  /\ jobs[j].attempts \in Nat
               /\ MaxAttempts[jobs[j].key] \in Nat
               /\ jobs[j].attempts <= MaxAttempts[jobs[j].key] + faults
    BY <1>2, <2>0, <2>4, PresentIsLive, KeyAssumption DEF LiveRow, Budget
  <2>5. CASE SameRow(j)
    <3>1. Present(j)
      BY <2>5 DEF SameRow, Present
    <3>2. Orphan(j)' => Orphan(j) \/ faults' = faults + 1
      BY <1>2, <2>0, <2>5, OrphanStep DEF SameRow, Orphan
    <3>3. Orphan(j) => jobs[j].attempts < MaxAttempts[jobs[j].key] + faults
      BY <1>2, <2>0 DEF Budget
    <3> QED
      BY <2>1, <2>4, <2>5, <3>1, <3>2, <3>3 DEF SameRow
  <2>6. CASE Rewritten(j)
    BY <2>1, <2>4, <2>6 DEF Rewritten, Present, Orphan
  <2>7. CASE Claimed(j)
    <3>1. Present(j) /\ ~Orphan(j)'
      BY <2>7 DEF Claimed, Active, ActiveStatuses, Present, Orphan
    <3>2. jobs[j].status = "running" => Orphan(j)
      BY <2>7 DEF Claimed, Orphan
    <3>3. jobs[j].attempts < MaxAttempts[jobs[j].key] + faults
      BY <1>2, <2>0, <2>1, <2>4, <2>7, <3>1, <3>2
         DEF Claimed, Active, ActiveStatuses, WaitingHasCapacity, Budget
    <3> QED
      BY <2>1, <2>4, <2>7, <3>1, <3>3 DEF Claimed
  <2>8. CASE Concluded(j)
    BY <2>0, <2>1, <2>4, <2>8 DEF Concluded, Present, Orphan
  <2> QED
    BY <2>2, <2>3, <2>5, <2>6, <2>7, <2>8 DEF RowStep, Deleted, Present
<1>3. Budget => AttemptsPaidFor
  BY DEF Budget, AttemptsPaidFor
<1> QED
  BY <1>1, <1>2, <1>3, ShapeCorrect, OwnershipHolds, DedupeHolds, CapacityHolds, PTL DEF Spec

(***************************************************************************)
(* What "completed" means                                                  *)
(***************************************************************************)

\* A process about to complete its claim has run the handler, or the workspace is
\* fenced.
Done(w) == claim[w].payload \in ran \/ wsState[Ws(w)] # "active"

Completion ==
  /\ CompletedRan
  /\ \A w \in Workers : pc[w] = "completing" => Done(w)

\* A row nobody shares becomes completed only by the verdict of the process that
\* holds it.
LEMMA CompletedBy ==
  ASSUME Shape, Ownership, [Next]_vars, NEW j \in JobIds, j \notin contested,
         jobs'[j].status = "completed", jobs[j].status # "completed"
  PROVE  \E w \in Workers :
           /\ pc[w] = "completing" /\ Held(w)
           /\ jobs'[j].key = claim[w].key /\ jobs'[j].payload = claim[w].payload
<1>0. ASSUME NEW gone, jobs' = Removed(gone)
      PROVE  FALSE
  BY <1>0 DEF Removed, AbsentRow
<1>1. ASSUME TableStep
      PROVE  FALSE
  <2>1. ASSUME NEW k \in Keys, NEW d \in Delays, EnqueueUpdate(k, d)
        PROVE  FALSE
    BY <2>1 DEF EnqueueUpdate, PendingRow
  <2>2. ASSUME NEW k \in Keys, NEW d \in Delays, EnqueueInsert(k, d)
        PROVE  FALSE
    BY <2>2 DEF EnqueueInsert, PendingRow, Shape, TypeOK
  <2>3. ASSUME NEW status \in TerminalStatuses, Prune(status)
        PROVE  FALSE
    BY <1>0, <2>3 DEF Prune
  <2>4. CASE Tick
    BY <2>4 DEF Tick, Written
  <2>5. CASE RemoveStaleLock \/ UNCHANGED vars
    BY <2>5 DEF RemoveStaleLock, vars, table
  <2> QED
    BY <1>1, <2>1, <2>2, <2>3, <2>4, <2>5 DEF TableStep, Enqueue
<1>2. PICK w \in Workers : Step(w)
  BY <1>1, Steps
<1>3. RowWrite(w)
  BY <1>2, QuietStep DEF table
<1>4. ~ClaimJob(w)
  <2>1. SUFFICES ASSUME ClaimJob(w)
                 PROVE  FALSE
    OBVIOUS
  <2>2. PICK i \in JobIds :
          jobs' = [jobs EXCEPT ![i] = Written(i, "running", TRUE, LockTtl, jobs[i].attempts + 1)]
    BY <2>1, ClaimStep
  <2> QED
    BY <2>2 DEF Written, Shape
<1>5. ~PurgeFence(w) /\ ~PurgeFinalize(w) /\ ~PurgeTorn(w)
  BY <1>0 DEF PurgeFence, PurgeFinalize, PurgeTorn
<1>6. PICK status, timer :
        /\ Busy(w) /\ Verdict(w, status, timer)
        /\ status = "completed" => pc[w] = "completing"
  BY <1>3, <1>4, <1>5 DEF RowWrite, MarkCompleted, MarkFailed, Busy, BusyStates
<1>7. j = claim[w].job /\ Present(j) /\ status = "completed"
  BY <1>6 DEF Verdict, Written, Shape
<1>8. Held(w)
  BY <1>6, <1>7 DEF Ownership, Owns, Dropped, Present
<1>9. jobs'[j] = Written(j, "completed", FALSE, timer, jobs[j].attempts)
  BY <1>6, <1>7 DEF Verdict, Shape
<1> QED
  BY <1>6, <1>7, <1>8, <1>9 DEF Held, Written

\* "completed" is never recorded for a payload no handler finished, except in a
\* workspace that is being purged or for a row that was shared.
THEOREM CompletedRanHolds == Spec => []CompletedRan
<1>1. Init => Completion
  BY DEF Init, Completion, CompletedRan, AbsentRow
<1>2. ASSUME Shape, Ownership, Completion, [Next]_vars
      PROVE  Completion'
  <2>1. /\ ran \subseteq ran' /\ contested \subseteq contested'
        /\ \A ws \in Workspaces : wsState[ws] # "active" => wsState'[ws] # "active"
    BY <1>2, Monotone
  <2>2. ASSUME NEW w \in Workers, Busy(w), Done(w)
        PROVE  claim[w].payload \in ran' \/ wsState'[Ws(w)] # "active"
    BY <1>2, <2>1, <2>2, BusyTypes DEF Done
  <2>3. ASSUME NEW j \in JobIds, j \notin contested', jobs'[j].status = "completed"
        PROVE  jobs'[j].payload \in ran' \/ wsState'[WorkspaceOf[jobs'[j].key]] # "active"
    <3>0. j \notin contested
      BY <2>1, <2>3
    <3>1. CASE jobs[j].status = "completed"
      <4>1. SameRow(j)
        BY <1>2, <2>3, <3>0, <3>1, RowSteps DEF RowStep, Inserted, Rewritten, Claimed, Concluded,
           Deleted, Active, ActiveStatuses
      <4>2. jobs[j].key \in Keys
        BY <1>2, <3>1, PresentIsLive DEF Present, LiveRow
      <4> QED
        BY <1>2, <2>1, <3>0, <3>1, <4>1, <4>2, KeyAssumption DEF SameRow, Completion, CompletedRan
    <3>2. CASE jobs[j].status # "completed"
      <4>1. PICK w \in Workers :
              /\ pc[w] = "completing"
              /\ jobs'[j].key = claim[w].key /\ jobs'[j].payload = claim[w].payload
        BY <1>2, <2>3, <3>0, <3>2, CompletedBy
      <4>2. Busy(w) /\ Done(w)
        BY <1>2, <4>1 DEF Completion, Busy, BusyStates
      <4> QED
        BY <2>2, <4>1, <4>2 DEF Ws
    <3> QED
      BY <3>1, <3>2
  <2>4. ASSUME NEW w \in Workers, pc'[w] = "completing"
        PROVE  Done(w)'
    <3>1. CASE pc[w] = "completing" /\ claim'[w] = claim[w]
      BY <1>2, <2>2, <3>1 DEF Completion, Busy, BusyStates, Done, Ws
    <3>2. CASE CheckWorkspace(w)
      BY <1>2, <2>4, <3>2 DEF CheckWorkspace, Goto, table, Done, Ws, Shape, TypeOK
    <3>3. CASE HandlerSucceeds(w) \/ PurgeAlreadyComplete(w) \/ PurgeFinalize(w)
      BY <3>3 DEF HandlerSucceeds, PurgeAlreadyComplete, PurgeFinalize, Done
    <3>4. CASE ~(pc[w] = "completing" /\ claim'[w] = claim[w])
      <4>1. ASSUME TableStep
            PROVE  FALSE
        BY <2>4, <3>4, <4>1, TableStepFrame
      <4>2. ASSUME NEW v \in Workers, Step(v), v # w
            PROVE  FALSE
        BY <1>2, <2>4, <3>4, <4>2, StepFrame
      <4>3. ASSUME Step(w)
            PROVE  \/ CheckWorkspace(w)
                   \/ HandlerSucceeds(w) \/ PurgeAlreadyComplete(w) \/ PurgeFinalize(w)
        BY <1>2, <2>4, <3>4, <4>3 DEF Step, Start, RequestShutdown, Progress, Failure, Ready,
           MarkReady, Poll, ClaimJob, NothingToClaim, HandlerThrows, PurgeFence, PurgeTorn,
           MarkCompleted, MarkFailed, MarkFailedRefused, Exit, StartFails, MarkReadyFails,
           ClaimFails, RunFails, MarkFailedAborts, Crash, Idle, Goto, Shape, TypeOK
      <4> QED
        BY <1>2, <3>2, <3>3, <4>1, <4>2, <4>3, Steps
    <3> QED
      BY <3>1, <3>4
  <2> QED
    BY <2>3, <2>4 DEF Completion, CompletedRan
<1>3. Completion => CompletedRan
  BY DEF Completion
<1> QED
  BY <1>1, <1>2, <1>3, ShapeCorrect, OwnershipHolds, PTL DEF Spec
=============================================================================
