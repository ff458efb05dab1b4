------------------------- MODULE JobQueueRefinement -------------------------
(***************************************************************************)
(* The job queue implements DurableOutbox, for every value of the          *)
(* constants: its initial states are the outbox's, and each of its steps   *)
(* is a step of the outbox or changes nothing the outbox can see.          *)
(***************************************************************************)
EXTENDS JobQueueSafetyProofs

USE DEF JobIds, Payloads

\* The stage of each row status.
LEMMA Stages ==
  /\ StageOf("pending") = "queued" /\ StageOf("failed") = "queued"
  /\ StageOf("running") = "taken" /\ StageOf("completed") = "done"
  /\ StageOf("dead") = "dead" /\ StageOf("absent") = "absent"
  BY DEF StageOf

\* What the outbox sees of the rows, and of the processes without the lock.
work == [j \in JobIds |-> StageOf(jobs[j].status)]
unlocked == {w \in Workers : Unlocked(w)}

LEMMA TakenIsRunning ==
  ASSUME Shape, NEW j \in JobIds
  PROVE  /\ work[j] = "taken" <=> jobs[j].status = "running"
         /\ work[j] = "absent" <=> ~Present(j)
         /\ work[j] \in {"queued", "taken"} <=> Active(j)
<1>1. jobs[j].status \in Statuses
  BY DEF Shape, TypeOK, Row
<1> QED
  BY <1>1, Stages DEF work, Statuses, ActiveStatuses, TerminalStatuses, Active, Present

\* Rows that leave the table leave the outbox.
LEMMA RemovedStages ==
  ASSUME NEW gone, jobs' = Removed(gone)
  PROVE  work' = [j \in JobIds |-> IF j \in gone THEN "absent" ELSE work[j]]
  BY Stages DEF work, Removed, AbsentRow

\* A step that touches no claim is not seen in the executors.
LEMMA SameCurrent ==
  ASSUME \A w \in Workers : Busy(w)' <=> Busy(w),
         \A w \in Workers : Busy(w) => claim'[w].job = claim[w].job
  PROVE  CurrentJob' = CurrentJob
  BY DEF CurrentJob

\* A process that stops being busy lets go of its job.
LEMMA CurrentGone ==
  ASSUME NEW w \in Workers, ~Busy(w)',
         \A v \in Workers : v # w => (Busy(v)' <=> Busy(v)) /\ claim'[v] = claim[v]
  PROVE  CurrentJob' = [CurrentJob EXCEPT ![w] = 0]
  BY DEF CurrentJob

\* An executor may always let go of a job that nobody else has finished.
LEMMA Releasable ==
  ASSUME Shape, Ownership, NEW w \in Workers, Busy(w)
  PROVE  /\ CurrentJob[w] = claim[w].job /\ claim[w].job \in JobIds /\ claim[w].job # 0
         /\ work[claim[w].job] \in {"taken", "absent"} \/ claim[w].job \in contested
<1>1. claim[w].job \in JobIds /\ claim[w].job # 0
  BY BusyTypes
<1> QED
  BY <1>1, TakenIsRunning DEF CurrentJob, Ownership, Owns, Held, Dropped, Present

LEMMA InitOutbox == Init => Outbox!Init
  BY Stages DEF Init, AbsentRow, CurrentJob, Busy, BusyStates, Unlocked, Outbox!Init

\* Producers, the clock, retention and the operator.
LEMMA TableOutbox ==
  ASSUME Shape, TableStep
  PROVE  [Outbox!Next]_(Outbox!vars)
<1> USE BoundAssumption, KeyAssumption
<1>0. UNCHANGED <<CurrentJob, unlocked, contested>>
  BY TableStepFrame, SameCurrent DEF Busy, unlocked, Unlocked
<1>a. ASSUME \A j \in JobIds : StageOf(jobs'[j].status) = StageOf(jobs[j].status)
      PROVE  UNCHANGED Outbox!vars
  BY <1>0, <1>a DEF Outbox!vars, unlocked
<1>1. ASSUME NEW k \in Keys, NEW d \in Delays, EnqueueUpdate(k, d)
      PROVE  UNCHANGED Outbox!vars
  <2>1. \A j \in JobIds : StageOf(jobs'[j].status) = StageOf(jobs[j].status)
    BY <1>1, Stages DEF EnqueueUpdate, Waiting, PendingRow
  <2> QED
    BY <1>a, <2>1
<1>2. ASSUME NEW k \in Keys, NEW d \in Delays, EnqueueInsert(k, d)
      PROVE  Outbox!Submit(inserted + 1) /\ inserted + 1 \in JobIds
  <2>1. /\ inserted + 1 \in JobIds
        /\ jobs' = [jobs EXCEPT ![inserted + 1] = PendingRow(k, d, 0)]
        /\ jobs[inserted + 1] = AbsentRow
    BY <1>2 DEF EnqueueInsert, Shape, TypeOK
  <2>2. work[inserted + 1] = "absent"
    BY <2>1, Stages DEF AbsentRow, work
  <2>3. work' = [work EXCEPT ![inserted + 1] = "queued"]
    <3>1. \A j \in JobIds : j # inserted + 1 => work'[j] = work[j]
      BY <2>1 DEF Shape, work
    <3>2. work'[inserted + 1] = "queued"
      BY <2>1, Stages DEF PendingRow, Shape, work
    <3> QED
      BY <2>1, <3>1, <3>2 DEF work
  <2> QED
    BY <1>0, <2>1, <2>2, <2>3 DEF Outbox!Submit, work, unlocked
<1>3. CASE Tick
  <2>1. \A j \in JobIds : StageOf(jobs'[j].status) = StageOf(jobs[j].status)
    BY <1>3 DEF Tick, Written
  <2> QED
    BY <1>a, <2>1
<1>4. ASSUME NEW status \in TerminalStatuses, Prune(status)
      PROVE  \E S \in SUBSET JobIds : Outbox!Forget(S)
  <2>1. PICK batch \in SUBSET JobIds : /\ \A j \in batch : jobs[j].status = status
                                       /\ jobs' = Removed(batch)
    BY <1>4 DEF Prune
  <2>2. \A j \in batch : work[j] \in {"done", "dead"}
    BY <2>1, Stages DEF TerminalStatuses, work
  <2>3. work' = [j \in JobIds |-> IF j \in batch THEN "absent" ELSE work[j]]
    BY <2>1, RemovedStages
  <2> QED
    BY <1>0, <2>2, <2>3 DEF Outbox!Forget, work, unlocked
<1>5. CASE RemoveStaleLock \/ UNCHANGED vars
  BY <1>a, <1>5 DEF RemoveStaleLock, vars, table
<1> QED
  <2>1. CASE Enqueue
    BY <1>1, <1>2, <2>1 DEF Enqueue, Outbox!Next
  <2>2. CASE \E status \in TerminalStatuses : Prune(status)
    BY <1>4, <2>2 DEF Outbox!Next
  <2> QED
    BY <1>3, <1>5, <2>1, <2>2 DEF TableStep

\* The steps of a process.
LEMMA StepOutbox ==
  ASSUME Shape, Ownership, DedupeUnique, NEW w \in Workers, Step(w)
  PROVE  [Outbox!Next]_(Outbox!vars)
<1> USE BoundAssumption, KeyAssumption, WorkerAssumption
<1>0. \A v \in Workers : v # w =>
        (Busy(v)' <=> Busy(v)) /\ claim'[v] = claim[v] /\ (Unlocked(v)' <=> Unlocked(v))
  BY StepFrame DEF Busy, Unlocked
<1>a. /\ Unlocked(w)' <=> Unlocked(w) => unlocked' = unlocked
      /\ Unlocked(w)' => unlocked' = unlocked \union {w}
      /\ ~Unlocked(w)' => unlocked' = unlocked \ {w}
  BY <1>0 DEF unlocked
\* Steps the outbox does not see.
<1>b. ASSUME jobs' = jobs, contested' = contested, Unlocked(w)' <=> Unlocked(w),
             Busy(w)' <=> Busy(w), Busy(w) => claim'[w].job = claim[w].job
      PROVE  UNCHANGED Outbox!vars
  BY <1>0, <1>a, <1>b, SameCurrent DEF Outbox!vars, unlocked
\* A busy process that lets go of its claim without a verdict releases it.
<1>c. ASSUME Busy(w), ~Busy(w)', jobs' = jobs, contested' = contested,
             ~Unlocked(w)' \/ readiness'[w] = readiness[w]
      PROVE  Outbox!Release(w)
  <2>1. CurrentJob' = [CurrentJob EXCEPT ![w] = 0] /\ work' = work
    BY <1>0, <1>c, CurrentGone DEF work
  <2>2. unlocked' \in {unlocked, unlocked \ {w}}
    BY <1>a, <1>c DEF Unlocked
  <2> QED
    BY <1>c, <2>1, <2>2, Releasable DEF Outbox!Release, work, unlocked
<1>1. CASE Start(w) \/ RequestShutdown(w) \/ Ready(w) \/ MarkReady(w) \/ Poll(w)
           \/ NothingToClaim(w) \/ Exit(w) \/ StartFails(w) \/ ClaimFails(w)
  <2>1. Unlocked(w)' <=> Unlocked(w)
    BY <1>1 DEF Start, RequestShutdown, Ready, MarkReady, Poll, NothingToClaim, Exit, StartFails,
       ClaimFails, door, Unlocked, Ownership, Admission, Shape, TypeOK
  <2>2. claim' = claim /\ (Busy(w)' <=> Busy(w))
    BY <1>1 DEF Start, RequestShutdown, Ready, MarkReady, Poll, NothingToClaim, Exit, StartFails,
       ClaimFails, Goto, Busy, BusyStates, Shape, TypeOK
  <2>3. jobs' = jobs /\ contested' = contested
    BY <1>1 DEF Start, RequestShutdown, Ready, MarkReady, Poll, NothingToClaim, Exit, StartFails,
       ClaimFails, table, history
  <2> QED
    BY <1>b, <2>1, <2>2, <2>3
<1>2. CASE CheckWorkspace(w) \/ HandlerSucceeds(w) \/ HandlerThrows(w) \/ PurgeAlreadyComplete(w)
           \/ RunFails(w)
  <2>1. /\ jobs' = jobs /\ contested' = contested /\ claim' = claim /\ readiness' = readiness
        /\ Busy(w) /\ Busy(w)'
    BY <1>2 DEF CheckWorkspace, HandlerSucceeds, HandlerThrows, PurgeAlreadyComplete, RunFails, Goto,
       table, door, history, Busy, BusyStates, Shape, TypeOK
  <2> QED
    BY <1>b, <2>1 DEF Unlocked
<1>3. CASE MarkReadyFails(w)
  <2>1. /\ jobs' = jobs /\ contested' = contested /\ claim' = claim /\ pc' = pc /\ Unlocked(w)'
    BY <1>3 DEF MarkReadyFails, NotReady, Unlocked, table, history, Shape, TypeOK
  <2>2. CurrentJob' = CurrentJob
    BY <2>1, SameCurrent DEF Busy
  <2> QED
    BY <1>a, <2>1, <2>2 DEF Outbox!Unlock, Outbox!Next, unlocked
<1>4. CASE ClaimJob(w)
  <2>1. PICK i \in JobIds :
          /\ Active(i) /\ ~Busy(w) /\ Busy(w)'
          /\ jobs' = [jobs EXCEPT ![i] = Written(i, "running", TRUE, LockTtl, jobs[i].attempts + 1)]
          /\ claim'[w] = [job |-> i, key |-> jobs[i].key, attempts |-> jobs[i].attempts + 1,
                          payload |-> jobs[i].payload]
          /\ contested' = contested \union {l \in {i} : Executing(l) # {}}
    BY <1>4, ClaimStep
  <2>2. pc[w] # "off" /\ unlocked' = unlocked
    BY <1>4, <1>a DEF ClaimJob, door, Unlocked
  <2>3. CurrentJob[w] = 0 /\ \A v \in Workers : v # w => CurrentJob'[v] = CurrentJob[v]
    BY <1>0, <2>1 DEF CurrentJob
  <2>4. CurrentJob' = [CurrentJob EXCEPT ![w] = i]
    <3>1. claim'[w].job = i
      BY <2>1
    <3> QED
      BY <1>0, <2>1, <3>1 DEF CurrentJob
  <2>5. w \in unlocked \/ \A v \in Workers \ unlocked : CurrentJob[v] = 0
    BY <2>1, <2>2 DEF Ownership, Admission, LockGuardsProcess, CurrentJob, Busy, BusyStates, unlocked
  <2>6. work[i] \in {"queued", "taken"}
    BY <2>1, TakenIsRunning
  <2>7. work' = [work EXCEPT ![i] = "taken"]
    <3>1. \A j \in JobIds : j # i => work'[j] = work[j]
      BY <2>1 DEF Shape, work
    <3>2. work'[i] = "taken"
      BY <2>1, Stages DEF Written, Shape, work
    <3> QED
      BY <3>1, <3>2 DEF work
  <2>8. Executing(i) = {v \in Workers : CurrentJob[v] = i}
    BY DEF Executing, CurrentJob
  <2>9. contested' = contested \union {l \in {i} : {v \in Workers : CurrentJob[v] = l} # {}}
    BY <2>1, <2>8
  <2> QED
    BY <2>2, <2>3, <2>4, <2>5, <2>6, <2>7, <2>9
       DEF Outbox!Take, Outbox!Holders, Outbox!Next, work, unlocked
<1>5. CASE MarkCompleted(w) \/ MarkFailed(w)
  <2> DEFINE j == claim[w].job
  <2>1. /\ Busy(w) /\ ~Busy(w)' /\ contested' = contested /\ readiness' = readiness
        /\ j \in JobIds /\ j # 0 /\ CurrentJob[w] = j
    <3>1. Busy(w) /\ ~Busy(w)' /\ contested' = contested /\ readiness' = readiness
      BY <1>5 DEF MarkCompleted, MarkFailed, Idle, Goto, Busy, BusyStates, door, history, Shape, TypeOK
    <3> QED
      BY <3>1, Releasable
  <2>2. PICK status, timer : status \in {"completed", "failed", "dead"} /\ Verdict(w, status, timer)
    BY <1>5 DEF MarkCompleted, MarkFailed
  <2>3. CASE Present(j)
    <3>1. work[j] = "taken" \/ (j \in contested /\ work[j] # "absent")
      BY <2>1, <2>3, TakenIsRunning DEF Ownership, Owns, Held, Dropped, Present
    <3>2. CurrentJob' = [CurrentJob EXCEPT ![w] = 0] /\ unlocked' = unlocked
      BY <1>0, <1>a, <2>1, CurrentGone DEF Unlocked
    <3>3. StageOf(status) \in {"queued", "done", "dead"}
      BY <2>2, Stages
    <3>4. work' = [work EXCEPT ![j] = StageOf(status)]
      <4>1. jobs' = [jobs EXCEPT ![j] = Written(j, status, FALSE, timer, jobs[j].attempts)]
        BY <2>2, <2>3 DEF Verdict
      <4>2. \A i \in JobIds : i # j => work'[i] = work[i]
        BY <4>1 DEF Shape, work
      <4>3. work'[j] = StageOf(status)
        BY <2>1, <4>1 DEF Written, Shape, work
      <4> QED
        BY <2>1, <4>2, <4>3 DEF work
    <3>5. Outbox!Conclude(w, StageOf(status))
      BY <2>1, <3>1, <3>2, <3>4 DEF Outbox!Conclude, work, unlocked
    <3> QED
      BY <3>3, <3>5 DEF Outbox!Next
  <2>4. CASE ~Present(j)
    BY <1>c, <2>1, <2>2, <2>4 DEF Verdict, Outbox!Next
  <2> QED
    BY <2>3, <2>4
<1>6. CASE PurgeFence(w) \/ PurgeFinalize(w) \/ PurgeTorn(w)
  <2> DEFINE j == claim[w].job
  <2>1. /\ Busy(w) /\ CurrentJob[w] = j /\ j \in JobIds /\ j # 0
        /\ CurrentJob' = CurrentJob /\ contested' = contested
    <3>1. Busy(w) /\ Busy(w)' /\ claim' = claim /\ contested' = contested
      BY <1>6 DEF PurgeFence, PurgeFinalize, PurgeTorn, Goto, history, Busy, BusyStates, Shape, TypeOK
    <3> QED
      BY <1>0, <3>1, Releasable, SameCurrent
  <2>2. unlocked' \in {unlocked, unlocked \union {w}}
    BY <1>6, <1>a DEF PurgeFence, PurgeFinalize, PurgeTorn, NotReady, door, Unlocked, Shape, TypeOK
  <2>3. PICK gone \in SUBSET JobIds :
          /\ jobs' = Removed(gone)
          /\ \/ \A i \in gone : jobs[i].status = "running" => i = j
             \/ j \in contested
             \/ ~Present(j)
    <3>1. CASE PurgeFence(w)
      <4> DEFINE others == InWorkspace(Ws(w)) \ {j}
                 busy == {i \in others : jobs[i].status = "running"}
      <4>1. jobs' = Removed(others \ busy) /\ others \ busy \in SUBSET JobIds
        BY <3>1 DEF PurgeFence, InWorkspace, Ws
      <4>2. \A i \in others \ busy : jobs[i].status # "running"
        OBVIOUS
      <4> QED
        BY <4>1, <4>2
    <3>2. CASE PurgeFinalize(w) \/ PurgeTorn(w)
      <4>1. jobs' = jobs \/ jobs' = Removed(InWorkspace(Ws(w)))
        BY <3>2 DEF PurgeFinalize, PurgeTorn, Ws
      <4>2. jobs = Removed({})
        BY DEF Removed, Shape
      <4>3. ASSUME Held(w), NEW i \in InWorkspace(Ws(w)), jobs[i].status = "running"
            PROVE  i = j
        <5>1. Fenced(w)
          BY <3>2 DEF PurgeFinalize, PurgeTorn, Ownership
        <5>2. /\ i \in JobIds /\ jobs[i].key \in PurgeKeys /\ claim[w].key \in PurgeKeys
              /\ WorkspaceOf[jobs[i].key] = WorkspaceOf[claim[w].key]
          BY <4>3, <5>1 DEF Fenced, InWorkspace, Ws
        <5>3. jobs[i].key = jobs[j].key /\ jobs[i].key \notin NullKeys
          BY <4>3, <5>2 DEF Held
        <5> QED
          BY <2>1, <4>3, <5>2, <5>3 DEF DedupeUnique, Active, ActiveStatuses, Held
      <4>4. Held(w) \/ j \in contested \/ ~Present(j)
        BY <2>1 DEF Ownership, Owns, Dropped, Present
      <4>5. InWorkspace(Ws(w)) \in SUBSET JobIds
        BY DEF InWorkspace
      <4> QED
        BY <4>1, <4>2, <4>3, <4>4, <4>5
    <3> QED
      BY <1>6, <3>1, <3>2
  <2>4. work' = [i \in JobIds |-> IF i \in gone THEN "absent" ELSE work[i]]
    BY <2>3, RemovedStages
  <2>5. \/ \A i \in gone : work[i] = "taken" => i = CurrentJob[w]
        \/ CurrentJob[w] \in contested
        \/ work[CurrentJob[w]] = "absent"
    BY <2>1, <2>3, TakenIsRunning
  <2>6. Outbox!Drop(w, gone)
    BY <2>1, <2>2, <2>4, <2>5 DEF Outbox!Drop, work, unlocked
  <2> QED
    BY <2>6 DEF Outbox!Next
<1>7. CASE MarkFailedRefused(w) \/ MarkFailedAborts(w)
  <2>1. Busy(w) /\ ~Busy(w)' /\ jobs' = jobs /\ contested' = contested /\ readiness' = readiness
    BY <1>7 DEF MarkFailedRefused, MarkFailedAborts, Idle, Goto, table, door, history, Busy,
       BusyStates, Shape, TypeOK
  <2> QED
    BY <1>c, <2>1 DEF Outbox!Next
<1>8. CASE Crash(w)
  <2>1. ~Busy(w)' /\ jobs' = jobs /\ contested' = contested /\ ~Unlocked(w)'
    BY <1>8 DEF Crash, Goto, table, history, Busy, BusyStates, Unlocked, Shape, TypeOK
  <2>2. CASE Busy(w)
    BY <1>c, <2>1, <2>2 DEF Outbox!Next
  <2>3. CASE ~Busy(w)
    <3>1. CurrentJob[w] = 0 /\ CurrentJob' = CurrentJob /\ unlocked' = unlocked \ {w}
      BY <1>0, <1>a, <2>1, <2>3 DEF CurrentJob
    <3> QED
      BY <2>1, <3>1 DEF Outbox!Unlock, Outbox!Next, unlocked
  <2> QED
    BY <2>2, <2>3
<1> QED
  BY <1>1, <1>2, <1>3, <1>4, <1>5, <1>6, <1>7, <1>8 DEF Step, Progress, Failure

\* Rows, leases, retries, crashes, failed start-ups and purges implement the outbox.
THEOREM OutboxImplemented == Spec => ImplementsOutbox
<1>1. ASSUME Shape, Ownership, DedupeUnique, [Next]_vars
      PROVE  [Outbox!Next]_(Outbox!vars)
  BY <1>1, Steps, TableOutbox, StepOutbox
<1> QED
  BY <1>1, InitOutbox, ShapeCorrect, OwnershipHolds, DedupeHolds, PTL
     DEF Spec, ImplementsOutbox, Outbox!Spec
=============================================================================
