---------------------------- MODULE SearchIndex ----------------------------
(***************************************************************************)
(* Search index synchronisation in one workspace: services save records    *)
(* and afterwards queue "search.index" jobs; one worker runs them and      *)
(* writes the canonical search_index table and, in a statement of its own, *)
(* the full-text table.  Jobs run one at a time and are retried (this is   *)
(* what JobQueue establishes); here a key stands for the one active row    *)
(* its deduplication key can have.                                         *)
(*                                                                         *)
(* A document is abstracted to the version of its record, 0 for none.      *)
(*                                                                         *)
(* Operators named "Mutant..." are seeded faults: each stands before the   *)
(* definition it would replace.  Nothing else refers to them.              *)
(*                                                                         *)
(* The index may legitimately lag behind for ever: the variable "excuse"   *)
(* records why, and only a later reading of the record takes it back.      *)
(***************************************************************************)
EXTENDS Integers

CONSTANTS
  Records,      \* records of one searchable type
  MaxAttempts,  \* max_attempts of a search job
  MaxChanges,   \* bound: saves, deletions, rebuild requests and module toggles
  MaxFaults     \* bound: failed statements and process deaths

ASSUME BoundAssumption == MaxAttempts \in Nat \ {0} /\ MaxChanges \in Nat /\ MaxFaults \in Nat

VARIABLES
  record,   \* the records themselves
  module,   \* whether the records' module is enabled in the workspace
  index,    \* search_index: the version each record is indexed with
  fts,      \* search_index_fts, likewise
  job,      \* the active job row of each key
  run,      \* the job the worker is executing
  owed,     \* per key: requests that have saved their change but not queued it yet
  checked,  \* the web process has made its start-up check
  excuse,   \* the last reason why the index may differ from the record
  changes, faults

store == <<record, module>>
tables == <<index, fts>>
vars == <<store, tables, job, run, owed, checked, excuse, changes, faults>>

Reindex(r) == <<"reindex", r>>
Remove(r) == <<"remove", r>>
Rebuilds == {<<"rebuild", "workspace">>, <<"rebuild", "app">>}
Keys == {Reindex(r) : r \in Records} \union {Remove(r) : r \in Records} \union Rebuilds

Concerns(k) == IF k \in Rebuilds THEN Records ELSE {k[2]}
Doc(r) == IF record[r].status = "shown" THEN record[r].version ELSE 0
Causes == {"restored", "missed", "dropped", "replaced", "dead", "inactive"}

NoJob == [status |-> "none", tries |-> 0, dry |-> FALSE]
Idle == [key |-> <<"none">>, pc |-> "idle", docs |-> [r \in Records |-> 0], todo |-> {},
         at |-> <<"none">>, module |-> "enabled", dry |-> FALSE, result |-> "ok"]
Nothing == [r \in Records |-> 0]

\* A database with records, after a restore without its search tables perhaps.
Init ==
  /\ \E old \in SUBSET Records :
       /\ record = [r \in Records |-> IF r \in old THEN [status |-> "shown", version |-> 1]
                                                   ELSE [status |-> "absent", version |-> 0]]
       /\ excuse = [r \in Records |-> IF r \in old THEN "restored" ELSE "none"]
  /\ module = "enabled"
  /\ index = Nothing /\ fts = Nothing
  /\ job = [k \in Keys |-> NoJob]
  /\ run = Idle
  /\ owed = [k \in Keys |-> 0]
  /\ checked = FALSE
  /\ changes = 0 /\ faults = 0

Excuse(S, cause) == [r \in Records |-> IF r \in S THEN cause ELSE excuse[r]]

-----------------------------------------------------------------------------
(* The web process *)

Change == changes < MaxChanges /\ changes' = changes + 1

\* A service saves a record (it may hide it from search), then will ask for a reindex.
Save(r, status) ==
  /\ Change /\ module = "enabled"
  /\ record[r].status # "deleted"
  /\ record' = [record EXCEPT ![r] = [status |-> status, version |-> @.version + 1]]
  /\ owed' = [owed EXCEPT ![Reindex(r)] = @ + 1]
  /\ UNCHANGED <<module, tables, job, run, checked, excuse, faults>>

\* A time entry is deleted; its id is never used again.
Delete(r) ==
  /\ Change /\ module = "enabled"
  /\ record[r].status \in {"shown", "hidden"}
  /\ record' = [record EXCEPT ![r].status = "deleted"]
  /\ owed' = [owed EXCEPT ![Remove(r)] = @ + 1]
  /\ UNCHANGED <<module, tables, job, run, checked, excuse, faults>>

ToggleModule ==
  /\ Change
  /\ module' = IF module = "enabled" THEN "disabled" ELSE "enabled"
  /\ UNCHANGED <<record, tables, job, run, owed, checked, excuse, faults>>

MutantQueued(k, dry) ==
  IF \E l \in Keys : job[l].status # "none" /\ Concerns(l) = Concerns(k)
    THEN UNCHANGED <<job, excuse>>
    ELSE job' = [job EXCEPT ![k] = [status |-> "queued", tries |-> 0, dry |-> dry]] /\ UNCHANGED excuse

MutantRequeue(k, dry) ==
  job' = [job EXCEPT ![k].status = "queued"] /\ UNCHANGED excuse

\* enqueueJob: give the waiting row the new payload, drop the request while the row runs, or
\* insert.  The payload of a rebuild says whether it is a dry run, which writes nothing.
Queued(k, dry) ==
  \/ /\ job[k].status = "none"
     /\ job' = [job EXCEPT ![k] = [status |-> "queued", tries |-> 0, dry |-> dry]] /\ UNCHANGED excuse
  \/ /\ job[k].status = "queued"
     /\ job' = [job EXCEPT ![k].dry = dry]
     /\ excuse' = IF dry /\ ~job[k].dry THEN Excuse(Concerns(k), "replaced") ELSE excuse
  \/ job[k].status = "running" /\ excuse' = Excuse(Concerns(k), "dropped") /\ UNCHANGED job

Enqueue(k) ==
  /\ owed[k] > 0
  /\ owed' = [owed EXCEPT ![k] = @ - 1]
  /\ Queued(k, FALSE)
  /\ UNCHANGED <<store, tables, run, checked, changes, faults>>

\* safelyQueueSearchJob logs the error and goes on.
EnqueueFails(k) ==
  /\ owed[k] > 0
  /\ faults < MaxFaults /\ faults' = faults + 1
  /\ owed' = [owed EXCEPT ![k] = @ - 1]
  /\ excuse' = Excuse(Concerns(k), "missed")
  /\ UNCHANGED <<store, tables, job, run, checked, changes>>

\* POST /search-index/rebuild: a dry run has the same deduplication key as a rebuild.
RequestRebuild ==
  /\ Change
  /\ \E dry \in BOOLEAN : Queued(<<"rebuild", "workspace">>, dry)
  /\ UNCHANGED <<store, tables, run, owed, checked, faults>>

\* queueSearchIndexRebuildIfEmpty, a moment after the process starts to serve.
StartupCheck ==
  /\ ~checked
  /\ checked' = TRUE
  /\ IF index = Nothing THEN Queued(<<"rebuild", "app">>, FALSE) ELSE UNCHANGED <<job, excuse>>
  /\ UNCHANGED <<store, tables, run, owed, changes, faults>>

WebCrash ==
  /\ faults < MaxFaults /\ faults' = faults + 1
  /\ checked' = FALSE
  /\ owed' = [k \in Keys |-> 0]
  /\ excuse' = Excuse(UNION {Concerns(k) : k \in {l \in Keys : owed[l] > 0}}, "missed")
  /\ UNCHANGED <<store, tables, job, run, changes>>

-----------------------------------------------------------------------------
(* The worker *)

At(pc) == run.pc = pc
Rebuilding == run.key \in Rebuilds
Move(pc) == run' = [run EXCEPT !.pc = pc]

MutantClaim(k) ==
  /\ At("idle")
  /\ job[k].status = "queued"
  /\ job' = [job EXCEPT ![k].status = "running", ![k].tries = @ + 1]
  /\ run' = [Idle EXCEPT !.key = k, !.dry = job[k].dry, !.pc = IF k \in Rebuilds THEN "types"
                              ELSE IF k = Remove(k[2]) THEN "remove" ELSE "read",
                         !.todo = IF k \in Rebuilds THEN {} ELSE {k[2]}]
  /\ UNCHANGED <<store, tables, owed, checked, excuse, changes, faults>>

\* Any waiting row, or a running one whose worker has died (its lease ends).
Claim(k) ==
  /\ At("idle")
  /\ job[k].status # "none"
  /\ job' = [job EXCEPT ![k].status = "running", ![k].tries = @ + 1]
  /\ run' = [Idle EXCEPT !.key = k, !.dry = job[k].dry, !.pc = IF k \in Rebuilds THEN "types"
                              ELSE IF k = Remove(k[2]) THEN "remove" ELSE "read",
                         !.todo = IF k \in Rebuilds THEN {} ELSE {k[2]}]
  /\ UNCHANGED <<store, tables, owed, checked, excuse, changes, faults>>

\* rebuildWorkspace: the rows of a disabled module are removed, those of others rebuilt.  A dry
\* run reads as much and skips every write.
ReadTypes ==
  /\ At("types")
  /\ run' = [run EXCEPT !.module = module, !.pc = IF module = "enabled" THEN "read" ELSE "stale"]
  /\ excuse' = IF module = "enabled" \/ run.dry THEN excuse ELSE Excuse(Records, "inactive")
  /\ UNCHANGED <<store, tables, job, owed, checked, changes, faults>>

\* The indexer reads one record, or all of them.
Read ==
  /\ At("read")
  /\ LET docs == [r \in Records |-> IF r \in Concerns(run.key) THEN Doc(r) ELSE 0]
         some == {r \in Records : docs[r] # 0 /\ ~run.dry}
     IN  run' = [run EXCEPT !.docs = docs, !.todo = IF Rebuilding THEN some ELSE @,
                   !.pc = IF some # {} THEN "index" ELSE IF Rebuilding THEN "stale" ELSE "remove"]
  /\ excuse' = IF run.dry THEN excuse ELSE Excuse(Concerns(run.key), "none")
  /\ UNCHANGED <<store, tables, job, owed, checked, changes, faults>>

\* The rows of a module that was enabled when the rebuild began are copied at its end.
Ending == IF run.module = "enabled" THEN "repair" ELSE "verdict"

\* What follows when one record has been dealt with.
After(r, result) ==
  LET left == run.todo \ {r}
      next == IF left # {} THEN IF At("remove") THEN "remove" ELSE "index"
              ELSE IF ~Rebuilding THEN "verdict"
              ELSE IF At("remove") THEN Ending ELSE "stale"
  IN  run' = [run EXCEPT !.todo = left, !.pc = next,
                         !.result = IF result = "failed" THEN "failed" ELSE @]

\* upsertDocuments: the canonical row, then in a transaction the full-text row.
Upsert(r) ==
  /\ At("index") /\ r \in run.todo
  /\ index' = [index EXCEPT ![r] = run.docs[r]]
  /\ run' = [run EXCEPT !.pc = "fts", !.at = r]
  /\ UNCHANGED <<store, fts, job, owed, checked, excuse, changes, faults>>

SyncFts ==
  /\ At("fts")
  /\ fts' = [fts EXCEPT ![run.at] = run.docs[run.at]]
  /\ After(run.at, "ok")
  /\ UNCHANGED <<store, index, job, owed, checked, excuse, changes, faults>>

MutantReadStale ==
  /\ At("stale")
  /\ Move(Ending)
  /\ UNCHANGED <<store, tables, job, owed, checked, excuse, changes, faults>>

\* Rows of records that the rebuild has not found, or of a disabled module.
ReadStale ==
  /\ At("stale")
  /\ LET stale == {r \in Records : index[r] # 0 /\ run.docs[r] = 0 /\ ~run.dry}
     IN  run' = [run EXCEPT !.todo = stale,
                   !.pc = IF stale # {} THEN "remove" ELSE Ending]
  /\ UNCHANGED <<store, tables, job, owed, checked, excuse, changes, faults>>

\* removeDocument: both rows in one transaction.
RemoveDocument(r) ==
  /\ At("remove") /\ r \in run.todo
  /\ index' = [index EXCEPT ![r] = 0]
  /\ fts' = [fts EXCEPT ![r] = 0]
  /\ After(r, "ok")
  /\ UNCHANGED <<store, job, owed, checked, excuse, changes, faults>>

\* repairIndex: the full-text rows are copied from the canonical ones, in one transaction.
Repair ==
  /\ At("repair")
  /\ fts' = IF run.dry THEN fts ELSE index
  /\ Move("verdict")
  /\ UNCHANGED <<store, index, job, owed, checked, excuse, changes, faults>>

\* A rebuild counts the failure of a document and continues; anything else ends the run.
StatementFails ==
  /\ run.pc \in {"types", "read", "index", "fts", "stale", "remove", "repair"}
  /\ faults < MaxFaults /\ faults' = faults + 1
  /\ IF Rebuilding /\ run.pc \in {"index", "fts", "remove"}
       THEN \E r \in IF At("fts") THEN {run.at} ELSE run.todo : After(r, "failed")
       ELSE run' = [run EXCEPT !.result = "failed", !.pc = "verdict"]
  /\ UNCHANGED <<store, tables, job, owed, checked, excuse, changes>>

\* The row is completed, put back for a retry, or dead.
Verdict ==
  /\ At("verdict")
  /\ LET k == run.key
         retry == run.result = "failed" /\ job[k].tries < MaxAttempts
     IN  /\ job' = [job EXCEPT ![k] = IF retry THEN [@ EXCEPT !.status = "queued"] ELSE NoJob]
         /\ excuse' = IF run.result = "failed" /\ ~retry /\ ~run.dry THEN Excuse(Concerns(k), "dead") ELSE excuse
  /\ run' = Idle
  /\ UNCHANGED <<store, tables, owed, checked, changes, faults>>

WorkerCrash ==
  /\ faults < MaxFaults /\ faults' = faults + 1
  /\ run.pc # "idle"
  /\ run' = Idle
  /\ UNCHANGED <<store, tables, job, owed, checked, excuse, changes>>

-----------------------------------------------------------------------------

WorkerStep ==
  \/ \E k \in Keys : Claim(k)
  \/ ReadTypes \/ Read \/ SyncFts \/ ReadStale \/ Repair \/ Verdict
  \/ \E r \in Records : Upsert(r) \/ RemoveDocument(r)

WebStep == StartupCheck \/ \E k \in Keys : Enqueue(k)

Next ==
  \/ WorkerStep \/ WebStep
  \/ \E r \in Records : Delete(r) \/ \E status \in {"shown", "hidden"} : Save(r, status)
  \/ ToggleModule \/ RequestRebuild
  \/ \E k \in Keys : EnqueueFails(k)
  \/ WebCrash \/ StatementFails \/ WorkerCrash

Spec == Init /\ [][Next]_vars

\* The worker keeps polling, and a request that is being served goes on.
FairSpec == Spec /\ WF_vars(WorkerStep) /\ WF_vars(WebStep)

-----------------------------------------------------------------------------
(* Properties *)

\* Every variable keeps its type; a row is active while it is claimed.
TypeOK ==
  /\ record \in [Records -> [status : {"absent", "shown", "hidden", "deleted"}, version : 0..(MaxChanges + 1)]]
  /\ index \in [Records -> 0..(MaxChanges + 1)] /\ fts \in [Records -> 0..(MaxChanges + 1)]
  /\ job \in [Keys -> [status : {"none", "queued", "running"}, tries : Nat, dry : BOOLEAN]]
  /\ \A k \in Keys : run.key = k => job[k].status = "running"
  /\ excuse \in [Records -> Causes \union {"none"}]

\* Something is left to do for a record; a dry run does nothing.
Live(k) == job[k].status # "none" /\ ~job[k].dry
Outstanding(r) == \E k \in Keys : r \in Concerns(k) /\ (owed[k] > 0 \/ Live(k))
Fresh(r) == index[r] = Doc(r) /\ fts[r] = Doc(r)

\* When nothing is left to do for a record, both tables hold what the record says, unless one of
\* the known gaps (a request not queued, dropped while the job ran, replaced by a dry run or
\* given up, a restore, a disabled module) has hit it since it was last read for indexing.  So
\* jobs of different keys may run in any order, fail half-way and be repeated.
Converged == \A r \in Records : Outstanding(r) \/ excuse[r] # "none" \/ Fresh(r)

\* A rebuild that is recorded as successful has closed every gap: nothing that was wrong before
\* it survives, unless the record has changed or the module was switched since, or the run was
\* dry by the payload it was claimed with.
Heals(k) ==
  run.key = k /\ run.module = "enabled" /\ ~run.dry /\ run.result = "ok" /\ job'[k].status = "none"
    => \A r \in Records : run.docs[r] = Doc(r) => Fresh(r)
RebuildHeals == [][\A k \in Rebuilds : Heals(k)]_vars

\* Every record ends up fresh or with a known gap, whatever fails on the way: no job is stuck
\* with the worker that died running it.
EventuallySettled == <>[](\A r \in Records : excuse[r] # "none" \/ Fresh(r))
=============================================================================
