--------------------------- MODULE JobQueueProofs ---------------------------
(***************************************************************************)
(* Theorems about JobQueue for every number of rows, workers, keys and     *)
(* workspaces, every lease, delay and retention, and every fault budget.   *)
(***************************************************************************)
EXTENDS JobQueue, TLAPS

USE DEF JobIds, Payloads

(***************************************************************************)
(* Shape: types, and what the code's writes keep true of rows and claims.  *)
(***************************************************************************)

LiveRow == [status: Statuses \ {"absent"}, key: Keys, timer: Nat, locked: BOOLEAN,
            attempts: Nat, payload: Payloads]
LiveClaim == [job: JobIds, key: Keys, attempts: Nat \ {0}, payload: Payloads]

Shape ==
  /\ TypeOK
  /\ jobs \in [JobIds -> LiveRow \union {AbsentRow}]
  /\ \A j \in JobIds : j > inserted => jobs[j] = AbsentRow
  /\ \A w \in Workers : pc[w] \in BusyStates => claim[w] \in LiveClaim

\* The table's type follows from the shape of its rows.
LEMMA RowTypes == LiveRow \union {AbsentRow} \subseteq Row
<1>1. AbsentRow \in Row
  BY DEF AbsentRow, Row, Statuses
<1>2. Payloads \subseteq Nat
  BY BoundAssumption
<1>3. ASSUME NEW row \in LiveRow
      PROVE  row \in Row
  BY <1>2, <1>3 DEF LiveRow, Row, Payloads
<1> QED
  BY <1>1, <1>3

\* Being present and being a live row is the same.
LEMMA PresentIsLive ==
  ASSUME Shape, NEW j \in JobIds
  PROVE  Present(j) <=> jobs[j] \in LiveRow
  BY DEF Shape, Present, LiveRow, AbsentRow

\* Rewriting a live row leaves a live row.
LEMMA WrittenLive ==
  ASSUME NEW j \in JobIds, jobs[j] \in LiveRow,
         NEW status \in Statuses \ {"absent"}, NEW locked \in BOOLEAN,
         NEW timer \in Nat, NEW attempts \in Nat
  PROVE  Written(j, status, locked, timer, attempts) \in LiveRow
  BY DEF Written, LiveRow

\* The retry delay is a number of ticks: the table covers every attempt count.
LEMMA RetryDelayType == ASSUME NEW n \in Nat \ {0} PROVE RetryDelay(n) \in Nat
<1>1. Minimum(n, 7) \in 1..7
  BY DEF Minimum
<1>2. Doubling[Minimum(n, 7)] \in Nat
  BY <1>1 DEF Doubling
<1>3. MinRetryDelay * Doubling[Minimum(n, 7)] \in Nat
  BY <1>2, TimeAssumption
<1> QED
  BY <1>3, TimeAssumption DEF RetryDelay, Minimum

LEMMA InitShape == Init => Shape
  BY BoundAssumption, KeyAssumption, WorkerAssumption
     DEF Init, Shape, TypeOK, AbsentRow, NoClaim, Row, Claim, Statuses, ActiveStatuses,
         TerminalStatuses, ProcessStates, BusyStates, WorkspaceStates, Readiness

\* Rows that leave the table leave it in shape.
LEMMA RemovedShape ==
  ASSUME NEW gone, Shape, jobs' = Removed(gone)
  PROVE  /\ jobs' \in [JobIds -> LiveRow \union {AbsentRow}]
         /\ \A j \in JobIds : j > inserted => jobs'[j] = AbsentRow
  BY DEF Removed, Shape

\* So does the row a verdict is written to.
LEMMA VerdictShape ==
  ASSUME Shape, NEW w \in Workers, Busy(w),
         NEW status \in Statuses \ {"absent"}, NEW timer \in Nat,
         Verdict(w, status, timer)
  PROVE  /\ jobs' \in [JobIds -> LiveRow \union {AbsentRow}]
         /\ \A j \in JobIds : j > inserted => jobs'[j] = AbsentRow
<1> DEFINE j == claim[w].job
<1>1. j \in JobIds
  BY DEF Shape, LiveClaim, Busy
<1>2. CASE ~Present(j)
  BY <1>2 DEF Verdict, Shape
<1>3. CASE Present(j)
  <2>1. jobs[j] \in LiveRow
    BY <1>1, <1>3, PresentIsLive
  <2>2. jobs[j].attempts \in Nat
    BY <2>1 DEF LiveRow
  <2>3. Written(j, status, FALSE, timer, jobs[j].attempts) \in LiveRow
    BY <1>1, <2>1, <2>2, WrittenLive
  <2>4. jobs' = [jobs EXCEPT ![j] = Written(j, status, FALSE, timer, jobs[j].attempts)]
    BY <1>3 DEF Verdict
  <2>5. ~(j > inserted)
    BY <1>1, <1>3 DEF Shape, Present, AbsentRow
  <2> QED
    BY <1>1, <2>3, <2>4, <2>5 DEF Shape
<1> QED
  BY <1>2, <1>3

LEMMA NextShape == Shape /\ [Next]_vars => Shape'
<1> SUFFICES ASSUME Shape, [Next]_vars
             PROVE  Shape'
  OBVIOUS
<1> USE BoundAssumption, KeyAssumption, WorkerAssumption, TimeAssumption
<1>0. jobs' \in [JobIds -> LiveRow \union {AbsentRow}] => jobs' \in [JobIds -> Row]
  BY RowTypes
<1>1. ASSUME NEW k \in Keys, NEW d \in Delays, EnqueueUpdate(k, d)
      PROVE  Shape'
  <2>1. \A j \in Waiting(k) : PendingRow(k, d, jobs[j].attempts) \in LiveRow
    BY <1>1 DEF EnqueueUpdate, Waiting, PendingRow, LiveRow, AbsentRow, Shape, TypeOK, Statuses,
                ActiveStatuses
  <2>2. jobs' \in [JobIds -> LiveRow \union {AbsentRow}]
    BY <1>1, <2>1 DEF EnqueueUpdate, Shape
  <2>3. \A j \in JobIds : j > inserted => j \notin Waiting(k)
    BY DEF Waiting, Shape, AbsentRow
  <2> QED
    BY <1>0, <1>1, <2>2, <2>3 DEF EnqueueUpdate, Shape, TypeOK, process, door, history
<1>2. ASSUME NEW k \in Keys, NEW d \in Delays, EnqueueInsert(k, d)
      PROVE  Shape'
  <2>1. PendingRow(k, d, 0) \in LiveRow
    BY <1>2 DEF EnqueueInsert, PendingRow, LiveRow, Statuses, ActiveStatuses, Shape, TypeOK
  <2>2. jobs' \in [JobIds -> LiveRow \union {AbsentRow}]
    BY <1>2, <2>1 DEF EnqueueInsert, Shape
  <2> QED
    BY <1>0, <1>2, <2>2 DEF EnqueueInsert, Shape, TypeOK, process, door, history
<1>3. CASE Tick
  <2> DEFINE down(j) == IF jobs[j].timer > 0 THEN jobs[j].timer - 1 ELSE 0
             ticked(j) == Written(j, jobs[j].status, jobs[j].locked, down(j), jobs[j].attempts)
  <2>1. ASSUME NEW j \in JobIds, jobs[j] \in LiveRow
        PROVE  ticked(j) \in LiveRow
    <3>1. /\ jobs[j].status \in Statuses \ {"absent"}
          /\ jobs[j].locked \in BOOLEAN
          /\ jobs[j].timer \in Nat
          /\ jobs[j].attempts \in Nat
      BY <2>1 DEF LiveRow
    <3>2. down(j) \in Nat
      BY <3>1
    <3> QED
      BY <2>1, <3>1, <3>2, WrittenLive
  <2>2. ASSUME NEW j \in JobIds, jobs[j] = AbsentRow
        PROVE  ticked(j) = AbsentRow
    BY <2>2 DEF AbsentRow, Written
  <2>3. jobs' = [j \in JobIds |-> ticked(j)]
    BY <1>3 DEF Tick
  <2>4. jobs' \in [JobIds -> LiveRow \union {AbsentRow}]
    BY <2>1, <2>2, <2>3 DEF Shape
  <2>5. \A j \in JobIds : j > inserted => jobs'[j] = AbsentRow
    BY <2>2, <2>3 DEF Shape
  <2> QED
    BY <1>0, <1>3, <2>4, <2>5 DEF Tick, Shape, TypeOK, process, door, history
<1>4. ASSUME NEW status \in TerminalStatuses, Prune(status)
      PROVE  Shape'
  BY <1>0, <1>4, RemovedShape DEF Prune, process, door, history, Shape, TypeOK
<1>5. CASE RemoveStaleLock
  BY <1>5 DEF RemoveStaleLock, table, history, Shape, TypeOK
<1>6. ASSUME NEW w \in Workers, Start(w) \/ RequestShutdown(w)
      PROVE  Shape'
  BY <1>6 DEF Start, RequestShutdown, Goto, table, door, history, ProcessStates, BusyStates, Shape,
              TypeOK
<1>7. ASSUME NEW w \in Workers, Progress(w)
      PROVE  Shape'
  <2>1. CASE Ready(w) \/ Poll(w) \/ NothingToClaim(w) \/ HandlerThrows(w) \/ CheckWorkspace(w)
    BY <2>1 DEF Ready, Poll, NothingToClaim, HandlerThrows, CheckWorkspace, Goto, table, door,
                history, ProcessStates, BusyStates, Shape, TypeOK
  <2>2. CASE ClaimJob(w)
    <3>1. PICK j \in JobIds :
            /\ jobs[j].status \in ActiveStatuses
            /\ jobs' = [jobs EXCEPT ![j] = Written(j, "running", TRUE, LockTtl, jobs[j].attempts + 1)]
            /\ claim' = [claim EXCEPT ![w] =
                 [job |-> j, key |-> jobs[j].key, attempts |-> jobs[j].attempts + 1,
                  payload |-> jobs[j].payload]]
            /\ contested' = contested \union {i \in {j} : Executing(i) # {}}
      BY <2>2 DEF ClaimJob, Claimable, FirstClass, Expired, Due, ActiveStatuses
    <3>2. jobs[j] \in LiveRow /\ ~(j > inserted)
      BY <3>1, PresentIsLive DEF Shape, AbsentRow, ActiveStatuses
    <3>3. jobs[j].attempts + 1 \in Nat \ {0}
      BY <3>2 DEF LiveRow
    <3>4. Written(j, "running", TRUE, LockTtl, jobs[j].attempts + 1) \in LiveRow
      BY <3>2, <3>3, WrittenLive DEF Statuses, ActiveStatuses
    <3>5. claim'[w] \in LiveClaim
      BY <3>1, <3>2, <3>3 DEF LiveClaim, LiveRow, Shape, TypeOK
    <3>6. claim'[w] \in Claim
      BY <3>5 DEF LiveClaim, Claim
    <3>7. claim' \in [Workers -> Claim]
      BY <3>1, <3>6 DEF Shape, TypeOK
    <3>8. \A v \in Workers : pc'[v] \in BusyStates => claim'[v] \in LiveClaim
      BY <2>2, <3>1, <3>5 DEF ClaimJob, Goto, Shape, TypeOK
    <3>9. /\ jobs' \in [JobIds -> LiveRow \union {AbsentRow}]
          /\ \A i \in JobIds : i > inserted => jobs'[i] = AbsentRow
      BY <3>1, <3>2, <3>4 DEF Shape
    <3>10. contested' \subseteq JobIds
      BY <3>1 DEF Shape, TypeOK
    <3>12. pc' \in [Workers -> ProcessStates]
      BY <2>2 DEF ClaimJob, Goto, ProcessStates, BusyStates, Shape, TypeOK
    <3>11. UNCHANGED <<inserted, wsState, lockFile, readiness, stopping, ran, enqueues, faults>>
      BY <2>2 DEF ClaimJob, door
    <3> QED
      BY <1>0, <3>7, <3>8, <3>9, <3>10, <3>11, <3>12 DEF Shape, TypeOK
  <2>3. CASE HandlerSucceeds(w) \/ PurgeAlreadyComplete(w)
    BY <2>3 DEF HandlerSucceeds, PurgeAlreadyComplete, Goto, table, door, ProcessStates, BusyStates,
                LiveClaim, Shape, TypeOK
  <2>4. CASE PurgeFence(w)
    BY <1>0, <2>4, RemovedShape DEF PurgeFence, Goto, door, history, ProcessStates, BusyStates,
                WorkspaceStates, Shape, TypeOK
  <2>5. CASE PurgeFinalize(w)
    BY <1>0, <2>5, RemovedShape DEF PurgeFinalize, Goto, door, ProcessStates, BusyStates,
                WorkspaceStates, LiveClaim, Shape, TypeOK
  <2>6. CASE MarkCompleted(w) \/ MarkFailed(w)
    <3>1. /\ jobs' \in [JobIds -> LiveRow \union {AbsentRow}]
          /\ \A j \in JobIds : j > inserted => jobs'[j] = AbsentRow
      <4>1. Busy(w)
        BY <2>6 DEF MarkCompleted, MarkFailed, Busy, BusyStates
      <4>2. RetryDelay(claim[w].attempts) \in Nat
        BY <4>1, RetryDelayType DEF Busy, LiveClaim, Shape
      <4>3. PICK status \in {"completed", "failed", "dead"}, timer \in Nat :
              Verdict(w, status, timer)
        BY <2>6, <4>2 DEF MarkCompleted, MarkFailed
      <4> QED
        BY <4>1, <4>3, VerdictShape DEF Statuses, ActiveStatuses, TerminalStatuses
    <3>2. NoClaim \in Claim
      BY DEF NoClaim, Claim
    <3> QED
      BY <1>0, <2>6, <3>1, <3>2 DEF MarkCompleted, MarkFailed, Idle, Goto, door, history,
                ProcessStates, BusyStates, Shape, TypeOK
  <2>7. CASE Exit(w) \/ MarkReady(w)
    BY <2>7 DEF Exit, MarkReady, Readiness, Goto, table, history, ProcessStates, BusyStates, Shape,
                TypeOK
  <2>8. CASE MarkFailedRefused(w)
    <3>1. NoClaim \in Claim
      BY DEF NoClaim, Claim
    <3> QED
      BY <2>8, <3>1 DEF MarkFailedRefused, Idle, Goto, table, door, history, ProcessStates,
                BusyStates, Shape, TypeOK
  <2> QED
    BY <1>7, <2>1, <2>2, <2>3, <2>4, <2>5, <2>6, <2>7, <2>8 DEF Progress
<1>8. ASSUME NEW w \in Workers, Failure(w)
      PROVE  Shape'
  <2>1. NoClaim \in Claim
    BY DEF NoClaim, Claim
  <2>2. CASE StartFails(w)
    BY <2>2 DEF StartFails, Fault, Goto, table, history, ProcessStates, BusyStates, Shape, TypeOK
  <2>3. CASE RunFails(w)
    BY <2>3 DEF RunFails, Fault, Goto, table, door, history, ProcessStates, BusyStates, Shape, TypeOK
  <2>8. CASE ClaimFails(w)
    BY <2>8 DEF ClaimFails, Fault, Goto, table, door, history, ProcessStates, BusyStates, Shape,
                TypeOK
  <2>4. CASE MarkFailedAborts(w)
    BY <2>1, <2>4 DEF MarkFailedAborts, Fault, Idle, Goto, table, door, history, ProcessStates,
                BusyStates, Shape, TypeOK
  <2>5. CASE Crash(w)
    BY <2>1, <2>5 DEF Crash, Fault, Goto, table, history, ProcessStates, BusyStates, Readiness,
                Shape, TypeOK
  <2>6. CASE MarkReadyFails(w)
    BY <2>6 DEF MarkReadyFails, NotReady, Fault, table, history, Readiness, Shape, TypeOK
  <2>7. CASE PurgeTorn(w)
    <3>1. /\ jobs' \in [JobIds -> LiveRow \union {AbsentRow}]
          /\ \A j \in JobIds : j > inserted => jobs'[j] = AbsentRow
      BY <2>7, RemovedShape DEF PurgeTorn, Shape
    <3>2. wsState' \in [Workspaces -> WorkspaceStates]
      BY <2>7 DEF PurgeTorn, WorkspaceStates, Shape, TypeOK
    <3>3. /\ pc' \in [Workers -> ProcessStates] /\ claim' = claim
          /\ \A v \in Workers : pc'[v] \in BusyStates => pc[v] \in BusyStates
      BY <2>7 DEF PurgeTorn, Goto, ProcessStates, BusyStates, Shape, TypeOK
    <3>4. /\ faults' \in 0..MaxFaults /\ readiness' \in [Workers -> Readiness]
          /\ lockFile' \in Workers \union {NoWorker}
      BY <2>7 DEF PurgeTorn, NotReady, Fault, Readiness, Shape, TypeOK
    <3> QED
      BY <1>0, <2>7, <3>1, <3>2, <3>3, <3>4 DEF PurgeTorn, history, Shape, TypeOK
  <2> QED
    BY <1>8, <2>2, <2>3, <2>4, <2>5, <2>6, <2>7, <2>8 DEF Failure
<1>9. CASE UNCHANGED vars
  BY <1>9 DEF vars, table, process, door, history, Shape, TypeOK
<1> QED
  BY <1>1, <1>2, <1>3, <1>4, <1>5, <1>6, <1>7, <1>8, <1>9 DEF Next, Enqueue

\* The table, the processes and the claims always have the types of the schema and
\* the runner.
THEOREM ShapeCorrect == Spec => []Shape
<1> QED
  BY InitShape, NextShape, PTL DEF Spec

THEOREM TypeCorrect == Spec => []TypeOK
<1> QED
  BY ShapeCorrect, PTL DEF Shape

(***************************************************************************)
(* Frames: what a step leaves alone.                                       *)
(***************************************************************************)

\* The steps of process w, and those of them that write to the jobs table.
Step(w) == Start(w) \/ RequestShutdown(w) \/ Progress(w) \/ Failure(w)
RowWrite(w) ==
  \/ ClaimJob(w) \/ MarkCompleted(w) \/ MarkFailed(w)
  \/ PurgeFence(w) \/ PurgeFinalize(w) \/ PurgeTorn(w)
TableStep ==
  \/ Enqueue \/ Tick \/ (\E status \in TerminalStatuses : Prune(status))
  \/ RemoveStaleLock \/ UNCHANGED vars

LEMMA Steps == [Next]_vars <=> TableStep \/ \E w \in Workers : Step(w)
  BY DEF Next, TableStep, Step

\* Producers, the clock, retention and the operator move no process.
LEMMA TableStepFrame ==
  ASSUME TableStep
  PROVE  /\ pc' = pc /\ claim' = claim /\ readiness' = readiness /\ faults' = faults
         /\ stopping' = stopping /\ wsState' = wsState /\ contested' = contested /\ ran' = ran
  BY DEF TableStep, Enqueue, EnqueueUpdate, EnqueueInsert, Tick, Prune, RemoveStaleLock, vars,
     table, process, door, history

\* A process moves itself only.
LEMMA StepFrame ==
  ASSUME Shape, NEW w \in Workers, Step(w), NEW v \in Workers, v # w
  PROVE  /\ pc'[v] = pc[v] /\ claim'[v] = claim[v]
         /\ readiness'[v] = readiness[v] /\ stopping'[v] = stopping[v]
<1>1. CASE Start(w) \/ RequestShutdown(w) \/ Ready(w) \/ MarkReady(w) \/ Poll(w) \/ Exit(w)
  BY <1>1 DEF Start, RequestShutdown, Ready, MarkReady, Poll, Exit, Goto, door, Shape, TypeOK
<1>2. CASE ClaimJob(w) \/ NothingToClaim(w) \/ CheckWorkspace(w) \/ HandlerSucceeds(w)
           \/ HandlerThrows(w) \/ PurgeFence(w) \/ PurgeAlreadyComplete(w) \/ PurgeFinalize(w)
  BY <1>2 DEF ClaimJob, NothingToClaim, CheckWorkspace, HandlerSucceeds, HandlerThrows, PurgeFence,
     PurgeAlreadyComplete, PurgeFinalize, Goto, door, Shape, TypeOK
<1>3. CASE MarkCompleted(w) \/ MarkFailed(w) \/ MarkFailedRefused(w) \/ MarkFailedAborts(w)
  BY <1>3 DEF MarkCompleted, MarkFailed, MarkFailedRefused, MarkFailedAborts, Idle, Goto, door,
     Shape, TypeOK
<1>4. CASE StartFails(w) \/ MarkReadyFails(w) \/ PurgeTorn(w) \/ ClaimFails(w) \/ RunFails(w)
           \/ Crash(w)
  BY <1>4 DEF StartFails, MarkReadyFails, NotReady, PurgeTorn, ClaimFails, RunFails, Crash, Goto,
     door, Shape, TypeOK
<1> QED
  BY <1>1, <1>2, <1>3, <1>4 DEF Step, Progress, Failure

\* Most of its steps leave the table alone.
LEMMA QuietStep ==
  ASSUME NEW w \in Workers, Step(w), ~RowWrite(w)
  PROVE  UNCHANGED table /\ contested' = contested
  BY DEF Step, RowWrite, Progress, Failure, Start, RequestShutdown, Ready, MarkReady, Poll, Exit,
     NothingToClaim, CheckWorkspace, HandlerSucceeds, HandlerThrows, PurgeAlreadyComplete,
     MarkFailedRefused, MarkFailedAborts, StartFails, MarkReadyFails, ClaimFails, RunFails, Crash,
     table, history

\* A busy process was busy with the same claim before, unless it has just claimed.
LEMMA ClaimsStay ==
  ASSUME Shape, NEW w \in Workers, Step(w), ~ClaimJob(w), Busy(w)'
  PROVE  Busy(w) /\ claim'[w] = claim[w]
<1>1. CASE Start(w) \/ RequestShutdown(w) \/ Ready(w) \/ MarkReady(w) \/ Poll(w) \/ Exit(w)
           \/ NothingToClaim(w) \/ StartFails(w) \/ MarkReadyFails(w) \/ ClaimFails(w) \/ Crash(w)
  BY <1>1 DEF Start, RequestShutdown, Ready, MarkReady, Poll, Exit, NothingToClaim, StartFails,
     MarkReadyFails, ClaimFails, Crash, Goto, Busy, BusyStates, Shape, TypeOK
<1>2. CASE CheckWorkspace(w) \/ HandlerSucceeds(w) \/ HandlerThrows(w) \/ PurgeFence(w)
           \/ PurgeAlreadyComplete(w) \/ PurgeFinalize(w) \/ PurgeTorn(w) \/ RunFails(w)
  BY <1>2 DEF CheckWorkspace, HandlerSucceeds, HandlerThrows, PurgeFence, PurgeAlreadyComplete,
     PurgeFinalize, PurgeTorn, RunFails, Busy, BusyStates
<1>3. CASE MarkCompleted(w) \/ MarkFailed(w) \/ MarkFailedRefused(w) \/ MarkFailedAborts(w)
  BY <1>3 DEF MarkCompleted, MarkFailed, MarkFailedRefused, MarkFailedAborts, Idle, Goto, Busy,
     BusyStates, Shape, TypeOK
<1> QED
  BY <1>1, <1>2, <1>3 DEF Step, Progress, Failure

\* A claim: which row, and what becomes of it.
LEMMA ClaimStep ==
  ASSUME Shape, NEW w \in Workers, ClaimJob(w)
  PROVE  \E j \in JobIds :
           /\ Active(j) /\ ~Busy(w) /\ Busy(w)'
           /\ jobs' = [jobs EXCEPT ![j] = Written(j, "running", TRUE, LockTtl, jobs[j].attempts + 1)]
           /\ claim'[w] = [job |-> j, key |-> jobs[j].key, attempts |-> jobs[j].attempts + 1,
                           payload |-> jobs[j].payload]
           /\ contested' = contested \union {i \in {j} : Executing(i) # {}}
           /\ wsState' = wsState /\ inserted' = inserted /\ faults' = faults
  BY DEF ClaimJob, Claimable, FirstClass, Expired, Due, Active, ActiveStatuses, Goto, Busy,
     BusyStates, Shape, TypeOK

\* A fence is never lifted, ids are never reused and the histories only grow.
LEMMA Monotone ==
  ASSUME Shape, [Next]_vars
  PROVE  /\ ran \subseteq ran' /\ contested \subseteq contested'
         /\ inserted \in Nat /\ inserted' \in Nat /\ inserted <= inserted'
         /\ \A ws \in Workspaces : wsState[ws] # "active" => wsState'[ws] # "active"
<1>0. inserted \in Nat
  BY BoundAssumption DEF Shape, TypeOK
<1>1. CASE TableStep
  <2>1. inserted' = inserted \/ inserted' = inserted + 1
    BY <1>1 DEF TableStep, Enqueue, EnqueueUpdate, EnqueueInsert, Tick, Prune, RemoveStaleLock,
       vars, table
  <2> QED
    BY <1>0, <1>1, <2>1, TableStepFrame
<1>2. ASSUME NEW w \in Workers, Step(w)
      PROVE  /\ ran \subseteq ran' /\ contested \subseteq contested' /\ inserted' = inserted
             /\ \A ws \in Workspaces : wsState[ws] # "active" => wsState'[ws] # "active"
  <2>1. CASE ~RowWrite(w)
    <3>1. ran \subseteq ran'
      BY <1>2, <2>1 DEF Step, RowWrite, Progress, Failure, Start, RequestShutdown, Ready, MarkReady,
         Poll, Exit, NothingToClaim, CheckWorkspace, HandlerSucceeds, HandlerThrows,
         PurgeAlreadyComplete, MarkFailedRefused, MarkFailedAborts, StartFails, MarkReadyFails,
         ClaimFails, RunFails, Crash, history
    <3> QED
      BY <1>2, <2>1, <3>1, QuietStep DEF table
  <2>2. CASE RowWrite(w)
    BY <2>2 DEF RowWrite, ClaimJob, MarkCompleted, MarkFailed, PurgeFence, PurgeFinalize, PurgeTorn,
       history, Shape, TypeOK
  <2> QED
    BY <2>1, <2>2
<1> QED
  BY <1>0, <1>1, <1>2, Steps

(***************************************************************************)
(* Ownership: what ties a process to the lock and to the row it executes,  *)
(* and the fence of a purge to its workspace.  Inductive with Shape.       *)
(***************************************************************************)

\* The workspace a process works for.
Ws(w) == WorkspaceOf[claim[w].key]

\* The claimed row is untouched since the claim.
Held(w) ==
  /\ jobs[claim[w].job].status = "running"
  /\ jobs[claim[w].job].key = claim[w].key
  /\ jobs[claim[w].job].attempts = claim[w].attempts
  /\ jobs[claim[w].job].payload = claim[w].payload

\* The claimed row is that of a purge and was deleted by it.
Dropped(w) ==
  /\ jobs[claim[w].job].status = "absent"
  /\ claim[w].key \in PurgeKeys
  /\ wsState[Ws(w)] # "active"

\* The row keeps its key and never has fewer attempts than a claim of it, even where
\* two processes share it.
Owns(w) ==
  /\ claim[w].job <= inserted
  /\ Present(claim[w].job) => /\ jobs[claim[w].job].key = claim[w].key
                              /\ claim[w].attempts <= jobs[claim[w].job].attempts
  /\ Held(w) \/ Dropped(w) \/ claim[w].job \in contested

\* Two processes with one job know it as contested, and as different attempts.
Apart(v, w) ==
  claim[v].job = claim[w].job =>
    claim[v].job \in contested /\ claim[v].attempts # claim[w].attempts

\* The lock, and how far a process can come before markReady has run.
Admission ==
  /\ LockGuardsProcess
  /\ \A w \in Workers : /\ pc[w] \in {"off", "starting"} => readiness[w] = "pending"
                        /\ stopping[w] => readiness[w] = "ready"

\* Past the fence a workspace has no rows but its purge's.
Fenced(w) ==
  /\ claim[w].key \in PurgeKeys
  /\ wsState[Ws(w)] # "active"
  /\ \A j \in InWorkspace(Ws(w)) : jobs[j].key \in PurgeKeys

Ownership ==
  /\ Admission
  /\ \A w \in Workers : Busy(w) => Owns(w)
  /\ \A v, w \in Workers : Busy(v) /\ Busy(w) /\ v # w => Apart(v, w)
  /\ NoOrphanRows
  /\ \A w \in Workers : pc[w] = "fenced" => Fenced(w)

\* A row's identity and attempt: everything ownership sees of it.
SameRow(j) ==
  /\ jobs'[j].status = jobs[j].status
  /\ jobs'[j].key = jobs[j].key
  /\ jobs'[j].attempts = jobs[j].attempts
  /\ jobs'[j].payload = jobs[j].payload

\* What a step may do to a row that process w executes.
Spared(w) ==
  LET j == claim[w].job
  IN \/ SameRow(j)
     \/ /\ j \in contested'
        /\ Present(j)' => /\ Present(j)
                          /\ jobs'[j].key = jobs[j].key
                          /\ jobs[j].attempts <= jobs'[j].attempts
     \/ jobs'[j].status = "absent" /\ claim[w].key \in PurgeKeys /\ wsState'[Ws(w)] # "active"

LEMMA BusyTypes ==
  ASSUME Shape, NEW w \in Workers, Busy(w)
  PROVE  /\ claim[w].job \in JobIds /\ claim[w].job \in Nat \ {0}
         /\ claim[w].key \in Keys /\ claim[w].attempts \in Nat
         /\ Ws(w) \in Workspaces
  BY BoundAssumption, KeyAssumption DEF Shape, LiveClaim, Busy, Ws

LEMMA OwnsKept ==
  ASSUME Shape, Shape', [Next]_vars, NEW w \in Workers, Busy(w), Owns(w),
         claim'[w] = claim[w], Spared(w)
  PROVE  Owns(w)'
<1> DEFINE j == claim[w].job
<1>0. /\ j \in JobIds /\ j \in Nat /\ claim[w].attempts \in Nat /\ Ws(w) \in Workspaces
  BY BusyTypes
<1>1. /\ contested \subseteq contested'
      /\ inserted \in Nat /\ inserted' \in Nat /\ inserted <= inserted'
      /\ wsState[Ws(w)] # "active" => wsState'[Ws(w)] # "active"
  BY <1>0, Monotone
<1>2. claim'[w].job <= inserted'
  BY <1>0, <1>1 DEF Owns
<1>3. Present(j) => jobs[j].attempts \in Nat
  BY <1>0, PresentIsLive DEF LiveRow
<1>4. Present(j)' => jobs'[j].attempts \in Nat
  BY <1>0, BoundAssumption DEF Shape, TypeOK, Row
<1>5. CASE SameRow(j)
  BY <1>0, <1>1, <1>2, <1>5 DEF Owns, SameRow, Held, Dropped, Present, Ws
<1>6. CASE /\ j \in contested'
           /\ Present(j)' => /\ Present(j)
                             /\ jobs'[j].key = jobs[j].key
                             /\ jobs[j].attempts <= jobs'[j].attempts
  BY <1>0, <1>2, <1>3, <1>4, <1>6 DEF Owns
<1>7. CASE jobs'[j].status = "absent" /\ claim[w].key \in PurgeKeys /\ wsState'[Ws(w)] # "active"
  BY <1>2, <1>7 DEF Owns, Dropped, Present, Ws
<1> QED
  BY <1>5, <1>6, <1>7 DEF Spared

\* No step but its own verdict touches the row a process executes, unless the row is
\* shared or belongs to a purge.
LEMMA RowsSpared ==
  ASSUME Shape, Ownership, [Next]_vars, NEW v \in Workers, Busy(v), Busy(v)', claim'[v] = claim[v]
  PROVE  Spared(v)
<1> DEFINE j == claim[v].job
<1> USE BoundAssumption, KeyAssumption
<1>0. j \in JobIds /\ j \in Nat \ {0} /\ Owns(v)
  BY BusyTypes DEF Ownership
<1>a. jobs[j] \in LiveRow \/ jobs[j] = AbsentRow
  BY <1>0 DEF Shape
<1>b. CASE jobs'[j] = jobs[j]
  BY <1>b DEF Spared, SameRow
<1>c. contested \subseteq contested'
  BY Monotone
<1>d. ASSUME jobs'[j] = AbsentRow
      PROVE  \/ jobs[j] = AbsentRow \/ j \in contested
             \/ Held(v) /\ Present(j)
  BY <1>0, <1>a DEF Owns, Dropped, Held, Present, LiveRow
<1>1. CASE TableStep
  <2>1. ASSUME NEW k \in Keys, NEW d \in Delays, EnqueueUpdate(k, d)
        PROVE  Spared(v)
    <3>1. CASE j \notin Waiting(k)
      BY <1>0, <1>b, <2>1, <3>1 DEF EnqueueUpdate
    <3>2. CASE j \in Waiting(k)
      <4>1. j \in contested
        BY <1>0, <3>2 DEF Waiting, Owns, Held, Dropped
      <4>2. jobs'[j] = PendingRow(k, d, jobs[j].attempts) /\ jobs[j].key = k /\ Present(j)
        BY <1>0, <2>1, <3>2 DEF EnqueueUpdate, Waiting, Present
      <4>3. jobs[j].attempts \in Nat
        BY <1>0, <4>2, PresentIsLive DEF LiveRow
      <4> QED
        BY <1>c, <4>1, <4>2, <4>3 DEF PendingRow, Spared
    <3> QED
      BY <3>1, <3>2
  <2>2. ASSUME NEW k \in Keys, NEW d \in Delays, EnqueueInsert(k, d)
        PROVE  Spared(v)
    <3>1. j # inserted + 1
      BY <1>0 DEF Owns, Shape, TypeOK
    <3> QED
      BY <1>0, <1>b, <2>2, <3>1 DEF EnqueueInsert
  <2>3. CASE Tick
    BY <1>0, <2>3 DEF Tick, Written, Spared, SameRow
  <2>4. ASSUME NEW status \in TerminalStatuses, Prune(status)
        PROVE  Spared(v)
    <3>1. jobs'[j] = jobs[j] \/ (jobs'[j] = AbsentRow /\ jobs[j].status \in TerminalStatuses)
      BY <1>0, <2>4 DEF Prune, Removed
    <3>2. CASE jobs'[j] = AbsentRow /\ jobs[j].status \in TerminalStatuses
      <4>1. j \in contested
        BY <1>0, <3>2 DEF TerminalStatuses, Owns, Held, Dropped
      <4> QED
        BY <1>c, <3>2, <4>1 DEF Spared, Present, AbsentRow
    <3> QED
      BY <1>b, <3>1, <3>2
  <2>5. CASE RemoveStaleLock \/ UNCHANGED vars
    BY <1>b, <2>5 DEF RemoveStaleLock, vars, table
  <2> QED
    BY <1>1, <2>1, <2>2, <2>3, <2>4, <2>5 DEF TableStep, Enqueue
<1>2. ASSUME NEW w \in Workers, Step(w)
      PROVE  Spared(v)
  <2>1. CASE ~RowWrite(w)
    BY <1>2, <1>b, <2>1, QuietStep DEF table
  <2>2. CASE ClaimJob(w)
    <3>1. PICK i \in JobIds :
            /\ Active(i) /\ ~Busy(w)
            /\ jobs' = [jobs EXCEPT ![i] = Written(i, "running", TRUE, LockTtl, jobs[i].attempts + 1)]
            /\ contested' = contested \union {l \in {i} : Executing(l) # {}}
      BY <2>2, ClaimStep
    <3>2. CASE i = j
      <4>1. j \in contested'
        BY <3>1, <3>2 DEF Executing
      <4>2. Present(j) /\ jobs[j].attempts \in Nat
        BY <1>0, <1>a, <3>1, <3>2 DEF Active, ActiveStatuses, Present, LiveRow, AbsentRow
      <4>3. jobs'[j] = Written(j, "running", TRUE, LockTtl, jobs[j].attempts + 1)
        BY <1>0, <3>1, <3>2 DEF Shape
      <4> QED
        BY <4>1, <4>2, <4>3 DEF Spared, Written
    <3>3. CASE i # j
      BY <1>0, <1>b, <3>1, <3>3 DEF Shape
    <3> QED
      BY <3>2, <3>3
  <2>3. CASE MarkCompleted(w) \/ MarkFailed(w)
    <3>1. Busy(w) /\ ~Busy(w)'
      BY <2>3 DEF MarkCompleted, MarkFailed, Idle, Goto, Busy, BusyStates, Shape, TypeOK
    <3>2. PICK status, timer : Verdict(w, status, timer) /\ status # "absent"
      BY <2>3 DEF MarkCompleted, MarkFailed
    <3>3. CASE claim[w].job = j
      <4>1. j \in contested
        BY <3>1, <3>3 DEF Ownership, Apart
      <4>2. /\ Present(j)' => Present(j)
            /\ Present(j) => jobs'[j].key = jobs[j].key /\ jobs'[j].attempts = jobs[j].attempts
        BY <1>0, <3>2, <3>3 DEF Verdict, Written, Present, Shape
      <4>3. Present(j) => jobs[j].attempts \in Nat
        BY <1>0, PresentIsLive DEF LiveRow
      <4> QED
        BY <1>c, <4>1, <4>2, <4>3 DEF Spared
    <3>4. CASE claim[w].job # j
      BY <1>0, <1>b, <3>2, <3>4 DEF Verdict, Shape
    <3> QED
      BY <3>3, <3>4
  <2>4. CASE PurgeFence(w)
    <3>1. \/ jobs'[j] = jobs[j]
          \/ jobs'[j] = AbsentRow /\ jobs[j].status # "running" /\ Present(j)
      BY <1>0, <2>4 DEF PurgeFence, Removed, InWorkspace
    <3>2. CASE jobs'[j] = AbsentRow /\ jobs[j].status # "running" /\ Present(j)
      <4>1. j \in contested
        BY <1>0, <3>2 DEF Owns, Held, Dropped, Present
      <4> QED
        BY <1>c, <3>2, <4>1 DEF Spared, Present, AbsentRow
    <3> QED
      BY <1>b, <3>1, <3>2
  <2>5. CASE PurgeFinalize(w) \/ PurgeTorn(w)
    <3>1. Busy(w) /\ Fenced(w) /\ Ws(w) \in Workspaces
      BY <2>5, BusyTypes DEF PurgeFinalize, PurgeTorn, Busy, BusyStates, Ownership
    <3>2. wsState'[Ws(w)] # "active"
      BY <3>1, Monotone DEF Fenced
    <3>3. jobs'[j] = jobs[j] \/ (jobs'[j] = AbsentRow /\ j \in InWorkspace(Ws(w)))
      BY <1>0, <2>5 DEF PurgeFinalize, PurgeTorn, Removed, Ws
    <3>4. CASE jobs'[j] = AbsentRow /\ j \in InWorkspace(Ws(w))
      <4>1. jobs[j].key = claim[v].key /\ jobs[j].key \in PurgeKeys /\ Ws(v) = Ws(w)
        BY <1>0, <3>1, <3>4 DEF Owns, InWorkspace, Fenced, Ws
      <4> QED
        BY <3>2, <3>4, <4>1 DEF Spared, AbsentRow
    <3> QED
      BY <1>b, <3>3, <3>4
  <2> QED
    BY <2>1, <2>2, <2>3, <2>4, <2>5 DEF RowWrite
<1> QED
  BY <1>1, <1>2, Steps

\* The lock file follows the processes that are not known to have failed.
LEMMA NextAdmission == Shape /\ Admission /\ [Next]_vars => Admission'
<1> SUFFICES ASSUME Shape, Admission, [Next]_vars
             PROVE  Admission'
  OBVIOUS
<1> USE WorkerAssumption
<1>1. CASE TableStep
  <2>1. lockFile' = lockFile \/ \A w \in Workers : pc[w] = "off"
    BY <1>1 DEF TableStep, Enqueue, EnqueueUpdate, EnqueueInsert, Tick, Prune, RemoveStaleLock,
       vars, process, door
  <2> QED
    BY <1>1, <2>1, TableStepFrame DEF Admission, LockGuardsProcess, Unlocked
<1>2. ASSUME NEW w \in Workers, Step(w)
      PROVE  Admission'
  <2>0. \A v \in Workers : v # w => /\ pc'[v] = pc[v]
                                    /\ readiness'[v] = readiness[v] /\ stopping'[v] = stopping[v]
    BY <1>2, StepFrame
  <2> DEFINE admitted == /\ pc'[w] # "off" => lockFile' = w \/ readiness'[w] = "failed"
                         /\ pc'[w] \in {"off", "starting"} => readiness'[w] = "pending"
                         /\ stopping'[w] => readiness'[w] = "ready"
                         /\ \/ lockFile' = lockFile
                            \/ lockFile \in {w, NoWorker}
  <2>1. SUFFICES admitted
    BY <2>0 DEF Admission, LockGuardsProcess, Unlocked
  <2>2. CASE Start(w) \/ Exit(w) \/ StartFails(w) \/ Crash(w)
    BY <2>2 DEF Start, Exit, StartFails, Crash, Goto, Admission, LockGuardsProcess, Unlocked, Shape,
       TypeOK
  <2>3. CASE MarkReady(w) \/ RequestShutdown(w)
    BY <2>3 DEF MarkReady, RequestShutdown, door, Admission, LockGuardsProcess, Unlocked, Shape,
       TypeOK
  <2>4. CASE MarkReadyFails(w)
    BY <2>4 DEF MarkReadyFails, NotReady, Admission, LockGuardsProcess, Unlocked, Shape, TypeOK
  <2>5. CASE PurgeTorn(w)
    BY <2>5 DEF PurgeTorn, NotReady, Goto, Admission, LockGuardsProcess, Unlocked, Shape, TypeOK
  <2>6. CASE ~(Start(w) \/ RequestShutdown(w) \/ Exit(w) \/ StartFails(w) \/ Crash(w)
               \/ MarkReady(w) \/ MarkReadyFails(w) \/ PurgeTorn(w))
    <3>1. UNCHANGED <<lockFile, readiness, stopping>>
      BY <1>2, <2>6 DEF Step, Progress, Failure, Ready, Poll, ClaimJob, NothingToClaim,
         CheckWorkspace, HandlerSucceeds, HandlerThrows, PurgeFence, PurgeAlreadyComplete,
         PurgeFinalize, MarkCompleted, MarkFailed, MarkFailedRefused, ClaimFails, RunFails,
         MarkFailedAborts, door
    <3>2. pc[w] # "off"
      BY <1>2, <2>6 DEF Step, Progress, Failure, Ready, Poll, ClaimJob, NothingToClaim,
         CheckWorkspace, HandlerSucceeds, HandlerThrows, PurgeFence, PurgeAlreadyComplete,
         PurgeFinalize, MarkCompleted, MarkFailed, MarkFailedRefused, ClaimFails, RunFails,
         MarkFailedAborts
    <3>3. pc'[w] \notin {"off", "starting"}
      BY <1>2, <2>6 DEF Step, Progress, Failure, Ready, Poll, ClaimJob, NothingToClaim,
         CheckWorkspace, HandlerSucceeds, HandlerThrows, PurgeFence, PurgeAlreadyComplete,
         PurgeFinalize, MarkCompleted, MarkFailed, MarkFailedRefused, ClaimFails, RunFails,
         MarkFailedAborts, Idle, Goto, Shape, TypeOK
    <3> QED
      BY <3>1, <3>2, <3>3 DEF Admission, LockGuardsProcess, Unlocked
  <2> QED
    BY <2>2, <2>3, <2>4, <2>5, <2>6
<1> QED
  BY <1>1, <1>2, Steps

\* Rows that stay where they are or that producers add leave the fences standing.
LEMMA FencesKept ==
  ASSUME Shape, Ownership, wsState' = wsState,
         \A w \in Workers : pc'[w] = "fenced" => pc[w] = "fenced" /\ claim'[w] = claim[w],
         \A j \in JobIds : Present(j)' =>
           \/ Present(j) /\ jobs'[j].key = jobs[j].key
           \/ WorkspaceAccepts(jobs'[j].key)
  PROVE  NoOrphanRows' /\ \A w \in Workers : pc'[w] = "fenced" => Fenced(w)'
<1>1. NoOrphanRows'
  BY DEF Ownership, NoOrphanRows, InWorkspace, WorkspaceAccepts
<1>2. ASSUME NEW w \in Workers, pc'[w] = "fenced"
      PROVE  Fenced(w)'
  BY <1>2 DEF Ownership, Fenced, InWorkspace, Ws, WorkspaceAccepts
<1> QED
  BY <1>1, <1>2

\* A purge's deletions neither.
LEMMA NextFences ==
  ASSUME Shape, Ownership, [Next]_vars
  PROVE  NoOrphanRows' /\ \A w \in Workers : pc'[w] = "fenced" => Fenced(w)'
<1> USE BoundAssumption, KeyAssumption
<1>1. CASE TableStep
  <2>0. wsState' = wsState /\ pc' = pc /\ claim' = claim
    BY <1>1, TableStepFrame
  <2>1. ASSUME NEW k \in Keys, NEW d \in Delays, EnqueueUpdate(k, d), NEW j \in JobIds
        PROVE  Present(j)' => Present(j) /\ jobs'[j].key = jobs[j].key
    BY <2>1 DEF EnqueueUpdate, Waiting, PendingRow, Present
  <2>2. ASSUME NEW k \in Keys, NEW d \in Delays, EnqueueInsert(k, d), NEW j \in JobIds, Present(j)'
        PROVE  (Present(j) /\ jobs'[j].key = jobs[j].key) \/ WorkspaceAccepts(jobs'[j].key)
    <3>1. CASE j = inserted + 1
      BY <2>2, <3>1 DEF EnqueueInsert, PendingRow, Shape, TypeOK
    <3>2. CASE j # inserted + 1
      BY <2>2, <3>2 DEF EnqueueInsert, Present, Shape, TypeOK
    <3> QED
      BY <3>1, <3>2
  <2>3. ASSUME Tick, NEW j \in JobIds
        PROVE  Present(j)' => Present(j) /\ jobs'[j].key = jobs[j].key
    BY <2>3 DEF Tick, Written, Present
  <2>4. ASSUME NEW status \in TerminalStatuses, Prune(status), NEW j \in JobIds
        PROVE  Present(j)' => Present(j) /\ jobs'[j].key = jobs[j].key
    BY <2>4 DEF Prune, Removed, AbsentRow, Present
  <2>5. ASSUME RemoveStaleLock \/ UNCHANGED vars
        PROVE  jobs' = jobs
    BY <2>5 DEF RemoveStaleLock, vars, table
  <2>6. \A j \in JobIds : Present(j)' =>
           \/ Present(j) /\ jobs'[j].key = jobs[j].key
           \/ WorkspaceAccepts(jobs'[j].key)
    BY <1>1, <2>1, <2>2, <2>3, <2>4, <2>5 DEF TableStep, Enqueue, Present
  <2> QED
    BY <2>0, <2>6, FencesKept
<1>2. ASSUME NEW w \in Workers, Step(w)
      PROVE  NoOrphanRows' /\ \A v \in Workers : pc'[v] = "fenced" => Fenced(v)'
  <2>0. \A v \in Workers : v # w => pc'[v] = pc[v] /\ claim'[v] = claim[v]
    BY <1>2, StepFrame
  <2>1. CASE ~PurgeFence(w) /\ ~PurgeFinalize(w) /\ ~PurgeTorn(w)
    <3>1. wsState' = wsState /\ \A j \in JobIds : Present(j)' => Present(j) /\ jobs'[j].key = jobs[j].key
      <4>1. CASE ~RowWrite(w)
        BY <1>2, <4>1, QuietStep DEF table, Present
      <4>2. CASE ClaimJob(w)
        <5>1. PICK i \in JobIds :
                /\ Active(i) /\ wsState' = wsState
                /\ jobs' = [jobs EXCEPT ![i] = Written(i, "running", TRUE, LockTtl, jobs[i].attempts + 1)]
          BY <4>2, ClaimStep
        <5> QED
          BY <5>1 DEF Written, Active, ActiveStatuses, Present, Shape
      <4>3. CASE MarkCompleted(w) \/ MarkFailed(w)
        <5>1. PICK status, timer : Verdict(w, status, timer)
          BY <4>3 DEF MarkCompleted, MarkFailed
        <5>2. \A j \in JobIds : Present(j)' => Present(j) /\ jobs'[j].key = jobs[j].key
          BY <5>1 DEF Verdict, Written, Present, Shape
        <5> QED
          BY <4>3, <5>2 DEF MarkCompleted, MarkFailed
      <4> QED
        BY <2>1, <4>1, <4>2, <4>3 DEF RowWrite
    <3>2. pc'[w] = "fenced" => pc[w] = "fenced" /\ claim'[w] = claim[w]
      BY <1>2, <2>1 DEF Step, Progress, Failure, Start, RequestShutdown, Ready, MarkReady, Poll,
         ClaimJob, NothingToClaim, CheckWorkspace, HandlerSucceeds, HandlerThrows,
         PurgeAlreadyComplete, MarkCompleted, MarkFailed, MarkFailedRefused, Exit, StartFails,
         MarkReadyFails, ClaimFails, RunFails, MarkFailedAborts, Crash, Idle, Goto, Shape, TypeOK
    <3> QED
      BY <2>0, <3>1, <3>2, FencesKept
  <2>2. ASSUME PurgeFence(w) \/ PurgeFinalize(w) \/ PurgeTorn(w)
        PROVE  Busy(w) /\ claim[w].key \in PurgeKeys /\ Ws(w) \in Workspaces /\ claim' = claim
    <3>1. Busy(w) /\ claim' = claim
      BY <2>2 DEF PurgeFence, PurgeFinalize, PurgeTorn, Busy, BusyStates
    <3>2. claim[w].key \in PurgeKeys
      BY <2>2 DEF PurgeFence, PurgeFinalize, PurgeTorn, Ownership, Fenced
    <3> QED
      BY <3>1, <3>2, BusyTypes
  <2>3. CASE PurgeFence(w)
    <3>0. Busy(w) /\ claim[w].key \in PurgeKeys /\ Ws(w) \in Workspaces /\ claim' = claim
      BY <2>2, <2>3
    <3>1. wsState' = [wsState EXCEPT ![Ws(w)] = "purging"] /\ wsState[Ws(w)] # "gone"
      BY <2>3 DEF PurgeFence, Ws
    <3>2. \A j \in JobIds : Present(j)' => jobs'[j] = jobs[j]
      BY <2>3 DEF PurgeFence, Removed, Present, AbsentRow
    <3>3. NoOrphanRows'
      BY <3>0, <2>3, <3>1, <3>2 DEF Ownership, NoOrphanRows, InWorkspace, Present, Shape, TypeOK
    <3>4. ASSUME NEW v \in Workers, v # w, pc'[v] = "fenced"
          PROVE  Fenced(v)'
      <4>1. pc[v] = "fenced" /\ claim'[v] = claim[v] /\ Fenced(v) /\ Ws(v) \in Workspaces
        BY <2>0, <3>4, BusyTypes DEF Ownership, Busy, BusyStates
      <4>2. wsState'[Ws(v)] # "active"
        BY <3>1, <4>1 DEF Fenced, Shape, TypeOK
      <4> QED
        BY <3>2, <4>1, <4>2 DEF Fenced, InWorkspace, Present, Ws
    <3>5. ASSUME pc'[w] = "fenced"
          PROVE  Fenced(w)'
      <4> DEFINE others == InWorkspace(Ws(w)) \ {claim[w].job}
      <4>1. {j \in others : jobs[j].status = "running"} = {}
        BY <2>3, <3>5 DEF PurgeFence, Goto, Shape, TypeOK, Ws
      <4>2. jobs' = Removed(others)
        BY <2>3, <4>1 DEF PurgeFence, Ws
      <4>3. ASSUME NEW j \in JobIds, j \in InWorkspace(Ws(w))'
            PROVE  jobs'[j].key \in PurgeKeys
        <5>1. Present(j) /\ jobs'[j] = jobs[j] /\ WorkspaceOf[jobs[j].key] = Ws(w)
          BY <3>0, <3>2, <4>3 DEF InWorkspace, Present, Ws
        <5>2. j = claim[w].job
          BY <4>2, <4>3, <5>1 DEF Removed, InWorkspace, Present, AbsentRow
        <5> QED
          BY <3>0, <5>1, <5>2 DEF Ownership, Owns
      <4>4. wsState'[Ws(w)] # "active"
        BY <3>0, <3>1 DEF Shape, TypeOK
      <4> QED
        BY <3>0, <4>3, <4>4 DEF Fenced, InWorkspace, Ws
    <3> QED
      BY <3>3, <3>4, <3>5
  <2>4. CASE PurgeFinalize(w) \/ PurgeTorn(w)
    <3>1. \A j \in JobIds : Present(j)' => jobs'[j] = jobs[j]
      BY <2>4 DEF PurgeFinalize, PurgeTorn, Removed, Present, AbsentRow
    <3>2. \/ jobs' = jobs /\ wsState' = wsState
          \/ /\ jobs' = Removed(InWorkspace(Ws(w)))
             /\ wsState' \in {wsState, [wsState EXCEPT ![Ws(w)] = "gone"]}
      BY <2>4 DEF PurgeFinalize, PurgeTorn, Ws
    <3>0. Busy(w) /\ claim[w].key \in PurgeKeys /\ Ws(w) \in Workspaces /\ claim' = claim
      BY <2>2, <2>4
    <3>3. ASSUME jobs' = jobs, wsState' = wsState
          PROVE  NoOrphanRows'
      BY <3>3 DEF Ownership, NoOrphanRows, InWorkspace, Present
    <3>4. ASSUME jobs' = Removed(InWorkspace(Ws(w))),
                 wsState' \in {wsState, [wsState EXCEPT ![Ws(w)] = "gone"]}
          PROVE  NoOrphanRows'
      <4>1. \A j \in JobIds : ~(Present(j)' /\ WorkspaceOf[jobs'[j].key] = Ws(w))
        BY <3>1, <3>4 DEF Removed, InWorkspace, Present, AbsentRow
      <4>2. \A ws \in Workspaces : ws # Ws(w) => wsState'[ws] = wsState[ws]
        BY <3>4 DEF Shape, TypeOK
      <4> QED
        BY <3>1, <4>1, <4>2 DEF Ownership, NoOrphanRows, InWorkspace, Present
    <3>5. NoOrphanRows'
      BY <3>2, <3>3, <3>4
    <3>6. \A ws \in Workspaces : wsState[ws] # "active" => wsState'[ws] # "active"
      BY <3>2 DEF Shape, TypeOK
    <3>7. ASSUME NEW v \in Workers, pc'[v] = "fenced"
          PROVE  Fenced(v)'
      <4>1. pc[v] = "fenced" /\ claim'[v] = claim[v]
        BY <2>0, <2>4, <3>7 DEF PurgeFinalize, PurgeTorn, Goto, Shape, TypeOK
      <4>2. Fenced(v) /\ Ws(v) \in Workspaces
        BY <4>1, BusyTypes DEF Ownership, Busy, BusyStates
      <4> QED
        BY <3>1, <3>6, <4>1, <4>2 DEF Fenced, InWorkspace, Present, Ws
    <3> QED
      BY <3>5, <3>7
  <2> QED
    BY <2>1, <2>3, <2>4
<1> QED
  BY <1>1, <1>2, Steps

LEMMA NextOwnership == Shape /\ Ownership /\ Shape' /\ [Next]_vars => Ownership'
<1> SUFFICES ASSUME Shape, Ownership, Shape', [Next]_vars
             PROVE  Ownership'
  OBVIOUS
<1>0. contested \subseteq contested'
  BY Monotone
<1>1. ASSUME NEW v \in Workers, Busy(v), Busy(v)', claim'[v] = claim[v]
      PROVE  Owns(v)'
  BY <1>1, RowsSpared, OwnsKept DEF Ownership
<1>2. CASE TableStep \/ \E w \in Workers : Step(w) /\ ~ClaimJob(w)
  <2>1. ASSUME NEW v \in Workers, Busy(v)'
        PROVE  Busy(v) /\ claim'[v] = claim[v]
    <3>1. CASE TableStep
      BY <2>1, <3>1, TableStepFrame DEF Busy
    <3>2. ASSUME NEW w \in Workers, Step(w), ~ClaimJob(w)
          PROVE  Busy(v) /\ claim'[v] = claim[v]
      BY <2>1, <3>2, StepFrame, ClaimsStay DEF Busy
    <3> QED
      BY <1>2, <3>1, <3>2
  <2>2. \A v \in Workers : Busy(v)' => Owns(v)'
    BY <1>1, <2>1
  <2>3. \A v, w \in Workers : Busy(v)' /\ Busy(w)' /\ v # w => Apart(v, w)'
    BY <1>0, <2>1 DEF Ownership, Apart
  <2> QED
    BY <2>2, <2>3, NextAdmission, NextFences DEF Ownership
<1>3. ASSUME NEW w \in Workers, ClaimJob(w)
      PROVE  Ownership'
  <2>0. Step(w)
    BY <1>3 DEF Step, Progress
  <2>1. PICK j \in JobIds :
          /\ Active(j) /\ ~Busy(w) /\ Busy(w)'
          /\ jobs' = [jobs EXCEPT ![j] = Written(j, "running", TRUE, LockTtl, jobs[j].attempts + 1)]
          /\ claim'[w] = [job |-> j, key |-> jobs[j].key, attempts |-> jobs[j].attempts + 1,
                          payload |-> jobs[j].payload]
          /\ contested' = contested \union {i \in {j} : Executing(i) # {}}
          /\ inserted' = inserted
    BY <1>3, ClaimStep
  <2>2. jobs'[j] = Written(j, "running", TRUE, LockTtl, jobs[j].attempts + 1)
    BY <2>1 DEF Shape
  <2>3. Present(j) /\ jobs[j].attempts \in Nat
    <3>1. Present(j)
      BY <2>1 DEF Active, ActiveStatuses, Present
    <3> QED
      BY <3>1, PresentIsLive DEF LiveRow
  <2>4. ASSUME NEW v \in Workers, v # w
        PROVE  claim'[v] = claim[v] /\ (Busy(v)' <=> Busy(v))
    BY <2>0, <2>4, StepFrame DEF Busy
  <2>5. Owns(w)'
    <3>1. Held(w)' /\ jobs'[j].attempts = claim'[w].attempts
      BY <2>1, <2>2 DEF Held, Written
    <3>2. claim'[w].job <= inserted'
      <4>1. inserted \in Nat /\ j \in Nat
        BY BoundAssumption DEF Shape, TypeOK
      <4> QED
        BY <2>1, <2>3, <4>1 DEF Shape, Present, AbsentRow
    <3>3. claim'[w].job = j /\ claim'[w].attempts <= jobs'[j].attempts
      BY <2>1, <2>2, <2>3 DEF Written
    <3> QED
      BY <3>1, <3>2, <3>3 DEF Owns, Held
  <2>6. \A v \in Workers : Busy(v)' => Owns(v)'
    BY <1>1, <2>4, <2>5
  <2>7. ASSUME NEW v \in Workers, v # w, Busy(v)'
        PROVE  Apart(v, w)' /\ Apart(w, v)'
    <3>1. SUFFICES ASSUME claim[v].job = j
                   PROVE  j \in contested' /\ claim[v].attempts # jobs[j].attempts + 1
      BY <2>1, <2>4, <2>7 DEF Apart
    <3>2. Busy(v) /\ v \in Executing(j)
      BY <2>4, <2>7, <3>1 DEF Executing
    <3>3. claim[v].attempts <= jobs[j].attempts /\ claim[v].attempts \in Nat
      BY <2>3, <3>1, <3>2, BusyTypes DEF Ownership, Owns
    <3> QED
      BY <2>1, <2>3, <3>2, <3>3
  <2>8. ASSUME NEW u \in Workers, NEW v \in Workers, Busy(u)', Busy(v)', u # v
        PROVE  Apart(u, v)'
    <3>1. CASE u # w /\ v # w
      BY <1>0, <2>4, <2>8, <3>1 DEF Ownership, Apart
    <3> QED
      BY <2>7, <2>8, <3>1
  <2> QED
    BY <2>6, <2>8, NextAdmission, NextFences DEF Ownership
<1> QED
  BY <1>2, <1>3, Steps

LEMMA InitOwnership == Init => Ownership
  BY DEF Init, Ownership, Admission, LockGuardsProcess, Busy, BusyStates, NoOrphanRows, InWorkspace,
     Present, AbsentRow

\* Whatever crashes, failed start-ups and stale lock files there were: a process
\* executes the row it claimed, or it shares the row with another as a different
\* attempt, or its purge has deleted it; the fence of a purge stands meanwhile.
THEOREM OwnershipHolds == Spec => []Ownership
<1> QED
  BY InitOwnership, NextOwnership, NextShape, ShapeCorrect, PTL DEF Spec
=============================================================================
