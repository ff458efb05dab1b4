--------------------------- MODULE WorkspacePurge ---------------------------
(* The deletion of one workspace: administrators request and cancel it       *)
(* (workspace-deletion.service.js), an operator queues the purge after the   *)
(* period of grace, and the worker carries it out in two transactions, the   *)
(* fence and the finalization (workspace-purge.service.js and its            *)
(* repository), while uploads, backups and jobs of the workspace that began  *)
(* earlier are still under way.                                              *)
(*                                                                           *)
(* The queue is reduced to the row of the purge job: the worker runs one     *)
(* purge at a time (ExclusiveExecution in JobQueue), so the purge token adds *)
(* nothing to the status it is compared with and is left out.  A             *)
(* transaction reads from the snapshot of its first statement and, if        *)
(* another connection has committed a write since, fails at its first write  *)
(* (SqliteAdapter).                                                          *)
EXTENDS Naturals

CONSTANTS
  Artifacts,      \* objects in file storage and backup archives
  Archives,       \* those of them that are backup archives
  Admins,         \* requests of administrators that can be in flight at once
  Grace,          \* DELETION_GRACE_DAYS
  MaxAttempts,    \* WORKSPACE_PURGE_MAX_ATTEMPTS
  MaxTime,        \* bound: clock
  MaxRequests,    \* bound: requests and cancellations
  MaxFaults       \* bound: failed statements or removals, and crashes

ASSUME ArchivesAssumption == Archives \subseteq Artifacts
ASSUME NumbersAssumption ==
  /\ Grace \in Nat \ {0}
  /\ MaxAttempts \in Nat /\ MaxTime \in Nat
  /\ MaxRequests \in Nat /\ MaxFaults \in Nat

VARIABLES
  now,            \* the clock
  workspace,      \* workspaces.status, or "gone" when the row is deleted
  lifecycle,      \* workspace_deletion_lifecycle.status, or "none"
  purgeAfter,     \* workspace_deletion_lifecycle.purge_after
  tombstone,      \* workspace_purge_tombstones.status, or "none"
  job,            \* jobs.status of the purge job; "pending" includes "failed"
  attempts,       \* jobs.attempt_count of the purge job
  worker,         \* jobs.status of the other jobs of the workspace; a running
                  \* row is "skipped" by its handler when the workspace is
                  \* being purged, and "stranded" when its process has died
  artifact,       \* how far each upload or backup has come
  stored,         \* the artifacts that exist in storage
  purge,          \* where the run of the purge handler stands
  left,           \* the artifacts this run has still to delete
  snapshot,       \* whether another connection has written since it was taken
  operator,       \* whether the operator's command has passed its checks
  doing,          \* where each request of an administrator stands
  asked,          \* the time such a request has read
  requests, faults

rows == <<workspace, lifecycle, purgeAfter, tombstone>>
queue == <<job, attempts>>
run == <<purge, left, snapshot>>
people == <<operator, doing, asked, requests>>
vars == <<now, rows, queue, worker, artifact, stored, run, people, faults>>

Recorded == {a \in Artifacts : artifact[a] = "recorded"}
Running == {"running", "skipped", "stranded"}

\* A workspace in use, with some artifacts; its deletion may be pending.
Init ==
  /\ now = 0
  /\ workspace = "active"
  /\ \/ lifecycle = "none" /\ purgeAfter = 0
     \/ lifecycle = "pending_deletion" /\ purgeAfter = Grace
  /\ tombstone = "none"
  /\ job = "none" /\ attempts = 0
  /\ worker = "none"
  /\ artifact \in [Artifacts -> {"none", "recorded"}]
  /\ stored = Recorded
  /\ purge = "idle" /\ left = {} /\ snapshot = "fresh"
  /\ operator = "idle"
  /\ doing = [a \in Admins |-> "idle"] /\ asked = [a \in Admins |-> 0]
  /\ requests = 0 /\ faults = 0

Tick ==
  /\ now < MaxTime
  /\ now' = now + 1
  /\ UNCHANGED <<rows, queue, worker, artifact, stored, run, people, faults>>

\* A write that another connection commits makes the purge's snapshot stale.
Writes ==
  snapshot' = IF purge \in {"delete", "commit"} THEN "stale" ELSE snapshot

-----------------------------------------------------------------------------
(* Administrators.  A request is admitted with a session of the workspace;   *)
(* the fence revokes the sessions, but not what they have already admitted.  *)

Admit(a, what) ==
  /\ doing[a] = "idle" /\ requests < MaxRequests
  /\ workspace = "active"
  /\ doing' = [doing EXCEPT ![a] = what]
  /\ requests' = requests + 1
  /\ UNCHANGED <<now, rows, queue, worker, artifact, stored, run, operator,
                 asked, faults>>

\* request() reads the workspace, the lifecycle and the clock; a pending
\* deletion is answered with 409.
ReadForRequest(a) ==
  /\ doing[a] = "request"
  /\ doing' = [doing EXCEPT ![a] = IF lifecycle = "none" /\ workspace # "gone"
                                   THEN "create" ELSE "idle"]
  /\ asked' = [asked EXCEPT ![a] = now]
  /\ UNCHANGED <<now, rows, queue, worker, artifact, stored, run, operator,
                 requests, faults>>

\* The lifecycle row is inserted; its primary key and its reference to the
\* workspace refuse a second row and a row of a workspace that is gone.
Create(a) ==
  /\ doing[a] = "create"
  /\ doing' = [doing EXCEPT ![a] = "idle"]
  /\ IF lifecycle = "none" /\ workspace # "gone"
     THEN /\ lifecycle' = "pending_deletion"
          /\ purgeAfter' = asked[a] + Grace
          /\ Writes
     ELSE UNCHANGED <<lifecycle, purgeAfter, snapshot>>
  /\ UNCHANGED <<now, workspace, tombstone, queue, worker, artifact, stored,
                 purge, left, operator, asked, requests, faults>>

\* What cancel() asks for before it deletes the row.
MayCancel == lifecycle = "pending_deletion" /\ now < purgeAfter

ReadForCancel(a) ==
  /\ doing[a] = "cancel"
  /\ doing' = [doing EXCEPT ![a] = IF MayCancel THEN "remove" ELSE "idle"]
  /\ UNCHANGED <<now, rows, queue, worker, artifact, stored, run, operator,
                 asked, requests, faults>>

\* The row is deleted whatever has become of it since.
Withdraw(a) ==
  /\ doing[a] = "remove"
  /\ doing' = [doing EXCEPT ![a] = "idle"]
  /\ lifecycle' = "none" /\ purgeAfter' = 0
  /\ IF lifecycle = "none" THEN UNCHANGED snapshot ELSE Writes
  /\ UNCHANGED <<now, workspace, tombstone, queue, worker, artifact, stored,
                 purge, left, operator, asked, requests, faults>>

-----------------------------------------------------------------------------
(* The operator's command.                                                   *)

\* queueWorkspacePurge reads the tombstone, the lifecycle and the clock...
CheckPurge ==
  /\ operator = "idle"
  /\ tombstone # "complete" /\ lifecycle # "none" /\ now >= purgeAfter
  /\ operator' = "checked"
  /\ UNCHANGED <<now, rows, queue, worker, artifact, stored, run, doing,
                 asked, requests, faults>>

\* ... and queues the job, once: a waiting row is refreshed, a running one
\* kept, and no row can be inserted for a workspace that is gone.
QueuePurge ==
  /\ operator = "checked"
  /\ operator' = "idle"
  /\ IF job \in {"none", "dead"} /\ workspace # "gone"
     THEN job' = "pending" /\ attempts' = 0
     ELSE UNCHANGED queue
  /\ IF job = "running" \/ workspace = "gone"
     THEN UNCHANGED snapshot ELSE Writes
  /\ UNCHANGED <<now, rows, worker, artifact, stored, purge, left, doing,
                 asked, requests, faults>>

-----------------------------------------------------------------------------
(* What the workspace is used for meanwhile.                                 *)

\* An upload or a backup begins with a session of the workspace.
Begin(a) ==
  /\ artifact[a] = "none"
  /\ workspace = "active"
  /\ artifact' = [artifact EXCEPT ![a] = "begun"]
  /\ UNCHANGED <<now, rows, queue, worker, stored, run, people, faults>>

\* The object or the archive is written to storage...
Store(a) ==
  /\ artifact[a] = "begun"
  /\ artifact' = [artifact EXCEPT ![a] = "stored"]
  /\ stored' = stored \union {a}
  /\ UNCHANGED <<now, rows, queue, worker, run, people, faults>>

\* ... and then its row.  In a workspace that is gone the insertion fails,
\* and nothing takes the artifact back out of storage.
Record(a) ==
  /\ artifact[a] = "stored"
  /\ IF workspace = "gone"
     THEN artifact' = [artifact EXCEPT ![a] = "refused"] /\ UNCHANGED snapshot
     ELSE artifact' = [artifact EXCEPT ![a] = "recorded"] /\ Writes
  /\ UNCHANGED <<now, rows, queue, worker, stored, purge, left, people,
                 faults>>

\* A job of the workspace is queued; one that is being purged accepts none.
QueueWork ==
  /\ worker = "none" /\ workspace = "active"
  /\ worker' = "pending"
  /\ Writes
  /\ UNCHANGED <<now, rows, queue, artifact, stored, purge, left, people,
                 faults>>

\* It is claimed, also when the process that ran it has died and its lease
\* has ended; in a workspace that is being purged the handler is skipped.
ClaimWork ==
  /\ worker \in {"pending", "stranded"}
  /\ worker' = IF workspace = "active" THEN "running" ELSE "skipped"
  /\ Writes
  /\ UNCHANGED <<now, rows, queue, artifact, stored, purge, left, people,
                 faults>>

\* It completes, or fails and waits for its retry.
EndWork ==
  /\ worker \in {"running", "skipped"}
  /\ worker' \in IF worker = "running" THEN {"none", "pending"} ELSE {"none"}
  /\ Writes
  /\ UNCHANGED <<now, rows, queue, artifact, stored, purge, left, people,
                 faults>>

-----------------------------------------------------------------------------
(* The purge job.                                                            *)

\* The row is claimed, also when the process that ran it has died.
Claim ==
  /\ purge = "idle" /\ job \in {"pending", "running"}
  /\ job' = "running" /\ attempts' = attempts + 1
  /\ purge' = "fence"
  /\ UNCHANGED <<now, rows, worker, artifact, stored, left, snapshot, people,
                 faults>>

\* Mutant: the fence commits although a job of the workspace runs.
MutantFenceUndrained ==
  /\ purge = "fence"
  /\ lifecycle # "none" /\ now >= purgeAfter
  /\ lifecycle' = "purging" /\ workspace' = "purging"
  /\ tombstone' = "in_progress"
  /\ worker' = IF worker = "pending" THEN "none" ELSE worker
  /\ purge' = "begin"
  /\ UNCHANGED <<now, purgeAfter, queue, artifact, stored, left, snapshot,
                 people, faults>>

\* Mutant: the fence writes the lifecycle's first status to the workspace.
MutantFenceStatus ==
  /\ purge = "fence"
  /\ lifecycle # "none" /\ now >= purgeAfter
  /\ lifecycle' = "purging" /\ workspace' = "pending_deletion"
  /\ tombstone' = "in_progress"
  /\ worker' = IF worker = "pending" THEN "none" ELSE worker
  /\ purge' = IF worker \in Running THEN "failed" ELSE "begin"
  /\ UNCHANGED <<now, purgeAfter, queue, artifact, stored, left, snapshot,
                 people, faults>>

\* beginFence: one transaction that closes the workspace, removes the jobs
\* that wait and counts those that run.  With any running, the purge throws.
Fence ==
  /\ purge = "fence"
  /\ lifecycle # "none" /\ now >= purgeAfter
  /\ lifecycle' = "purging" /\ workspace' = "purging"
  /\ tombstone' = "in_progress"
  /\ worker' = IF worker = "pending" THEN "none" ELSE worker
  /\ purge' = IF worker \in Running THEN "failed" ELSE "begin"
  /\ UNCHANGED <<now, purgeAfter, queue, artifact, stored, left, snapshot,
                 people, faults>>

\* The lifecycle is missing, or a newer one is still in its period of grace.
RefuseFence ==
  /\ purge = "fence"
  /\ lifecycle = "none" \/ now < purgeAfter
  /\ purge' = "failed"
  /\ UNCHANGED <<now, rows, queue, worker, artifact, stored, left, snapshot,
                 people, faults>>

\* finalize begins: it reads the lifecycle again and the rows of the files.
BeginFinalize ==
  /\ purge = "begin"
  /\ purge' = IF lifecycle = "purging" THEN "delete" ELSE "failed"
  /\ left' = IF lifecycle = "purging" THEN Recorded \ Archives ELSE {}
  /\ snapshot' = "fresh"
  /\ UNCHANGED <<now, rows, queue, worker, artifact, stored, people, faults>>

\* Mutant: an object that an earlier run has deleted is an error.
MutantDeleteMissing ==
  /\ purge = "delete"
  /\ \E a \in left :
       /\ stored' = stored \ {a}
       /\ left' = left \ {a}
       /\ purge' = IF a \in stored THEN "delete" ELSE "failed"
  /\ UNCHANGED <<now, rows, queue, worker, artifact, snapshot, people,
                 faults>>

\* One object is deleted; an object that is missing counts as deleted.
DeleteObject ==
  /\ purge = "delete"
  /\ \E a \in left :
       /\ stored' = stored \ {a}
       /\ left' = left \ {a}
  /\ UNCHANGED <<now, rows, queue, worker, artifact, purge, snapshot, people,
                 faults>>

\* Then the directory of the backups, whatever it holds.
DeleteArchives ==
  /\ purge = "delete" /\ left = {}
  /\ stored' = stored \ Archives
  /\ purge' = "commit"
  /\ UNCHANGED <<now, rows, queue, worker, artifact, left, snapshot, people,
                 faults>>

\* The first write of the transaction fails if its snapshot is stale.
Conflict ==
  /\ purge = "commit" /\ snapshot = "stale"
  /\ purge' = "failed"
  /\ UNCHANGED <<now, rows, queue, worker, artifact, stored, left, snapshot,
                 people, faults>>

\* Otherwise every row of the workspace is deleted, its jobs (this one too),
\* its lifecycle and itself, and the tombstone completed, at once.
Commit ==
  /\ purge = "commit" /\ snapshot = "fresh"
  /\ workspace' = "gone" /\ lifecycle' = "none" /\ purgeAfter' = 0
  /\ tombstone' = "complete"
  /\ job' = "none" /\ attempts' = 0
  /\ worker' = "none"
  /\ artifact' = [a \in Artifacts |->
                    IF artifact[a] = "recorded" THEN "purged" ELSE artifact[a]]
  /\ purge' = "idle"
  /\ UNCHANGED <<now, stored, left, snapshot, people, faults>>

\* All the workspaces share one database.  A commit for another of them that
\* falls between the first read and the first write of the fence fails it; one
\* during the finalization makes its snapshot stale.  Nothing bounds them.
Elsewhere ==
  /\ \/ purge = "fence" /\ purge' = "failed" /\ UNCHANGED snapshot
     \/ purge \in {"delete", "commit"} /\ snapshot = "fresh"
        /\ snapshot' = "stale" /\ UNCHANGED purge
  /\ UNCHANGED <<now, rows, queue, worker, artifact, stored, left, people,
                 faults>>

\* The run has thrown: the job waits for a retry or is given up.
Fail ==
  /\ purge = "failed"
  /\ job' = IF attempts >= MaxAttempts THEN "dead" ELSE "pending"
  /\ purge' = "idle" /\ left' = {} /\ snapshot' = "fresh"
  /\ UNCHANGED <<now, rows, attempts, worker, artifact, stored, people,
                 faults>>

-----------------------------------------------------------------------------
(* Faults: a statement or a removal fails, and the transaction is rolled     *)
(* back; or the worker process dies in the midst of whatever it does.        *)

Throw ==
  /\ faults < MaxFaults
  /\ purge \in {"fence", "begin", "delete", "commit"}
  /\ purge' = "failed"
  /\ faults' = faults + 1
  /\ UNCHANGED <<now, rows, queue, worker, artifact, stored, left, snapshot,
                 people>>

Crash ==
  /\ faults < MaxFaults
  /\ purge # "idle" \/ worker \in {"running", "skipped"}
  /\ purge' = "idle" /\ left' = {} /\ snapshot' = "fresh"
  /\ worker' = IF worker \in Running THEN "stranded" ELSE worker
  /\ faults' = faults + 1
  /\ UNCHANGED <<now, rows, queue, artifact, stored, people>>

-----------------------------------------------------------------------------
Administration ==
  \E a \in Admins :
    \/ \E what \in {"request", "cancel"} : Admit(a, what)
    \/ ReadForRequest(a) \/ Create(a)
    \/ ReadForCancel(a) \/ Withdraw(a)

Usage ==
  \/ \E a \in Artifacts : Begin(a) \/ Store(a) \/ Record(a)
  \/ QueueWork \/ ClaimWork \/ EndWork

Purging ==
  \/ Claim \/ Fence \/ RefuseFence \/ BeginFinalize
  \/ DeleteObject \/ DeleteArchives \/ Conflict \/ Commit \/ Fail

Next ==
  \/ Tick \/ Administration \/ CheckPurge \/ QueuePurge
  \/ Usage \/ Elsewhere \/ Purging \/ Throw \/ Crash

Spec == Init /\ [][Next]_vars

\* The worker goes on while it has something to do, and a job of the
\* workspace ends.  Nothing is assumed of administrators, of the operator, of
\* uploads, of other workspaces or of the clock.
FairSpec == Spec /\ WF_vars(Purging) /\ WF_vars(ClaimWork \/ EndWork)

-----------------------------------------------------------------------------
(* Properties.                                                               *)

\* Every variable keeps its type.
TypeOK ==
  /\ now \in 0..MaxTime
  /\ workspace \in {"active", "purging", "gone"}
  /\ lifecycle \in {"none", "pending_deletion", "purging"}
  /\ purgeAfter \in 0..(MaxTime + Grace)
  /\ tombstone \in {"none", "in_progress", "complete"}
  /\ job \in {"none", "pending", "running", "dead"}
  /\ attempts \in Nat
  /\ worker \in {"none", "pending"} \union Running
  /\ artifact \in [Artifacts -> {"none", "begun", "stored", "recorded",
                                 "refused", "purged"}]
  /\ stored \subseteq Artifacts
  /\ purge \in {"idle", "fence", "begin", "delete", "commit", "failed"}
  /\ left \subseteq Artifacts
  /\ snapshot \in {"fresh", "stale"}
  /\ operator \in {"idle", "checked"}
  /\ doing \in [Admins -> {"idle", "request", "create", "cancel", "remove"}]
  /\ asked \in [Admins -> 0..MaxTime]
  /\ requests \in 0..MaxRequests
  /\ faults \in 0..MaxFaults

\* The workspace as the abstract deletion sees it.
phase ==
  IF workspace = "gone" THEN "purged"
  ELSE IF workspace = "active"
       THEN IF lifecycle = "none" THEN "kept" ELSE "requested"
       ELSE IF lifecycle = "purging" THEN "doomed" ELSE "abandoned"

due == lifecycle # "none" /\ now >= purgeAfter
held == Recorded \intersect stored
busy == worker \in Running

Promise == INSTANCE WorkspaceDeletion

\* Whatever races, fails or is retried: nothing recorded is removed from
\* storage unless the period of grace was over when the purge began, no job
\* of the workspace runs meanwhile, and the workspace is gone only when
\* nothing that was recorded in it, however late, is left in storage.
ImplementsDeletion == Promise!Spec

\* A purge that has begun ends, whatever earlier runs had already deleted: the
\* workspace goes unless a late cancellation has taken the deletion back.  It
\* takes an operator who repeats the command when the job has been given up,
\* and an end to the commits of other workspaces that overtake the purge.
PurgeEnds ==
  []<><<QueuePurge>>_vars /\ <>[][~Elsewhere]_vars =>
    (phase = "doomed" ~> phase # "doomed")

\* The finalization "closes the gap in which an already-in-flight request
\* could otherwise leave a new object" (docs/workspace-deletion.md): once
\* the workspace is gone, nothing of an upload or backup it overtook stays.
NothingStays ==
  workspace = "gone" =>
    \A a \in Artifacts : artifact[a] = "refused" => a \notin stored
=============================================================================
