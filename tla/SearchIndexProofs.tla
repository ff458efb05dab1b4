------------------------- MODULE SearchIndexProofs -------------------------
(***************************************************************************)
(* SearchIndex keeps its types, and its index agrees with the records      *)
(* whenever nothing is left to do and no known gap remains.                *)
(***************************************************************************)
EXTENDS SearchIndex, TLAPS

-----------------------------------------------------------------------------
(* The keys *)

LEMMA KeyFacts ==
  /\ \A r \in Records : /\ Reindex(r) \in Keys /\ Reindex(r) \notin Rebuilds
                        /\ Remove(r) \in Keys /\ Remove(r) \notin Rebuilds
                        /\ Concerns(Reindex(r)) = {r} /\ Concerns(Remove(r)) = {r}
                        /\ Reindex(r)[2] = r /\ Remove(r)[2] = r
  /\ \A r, s \in Records : Reindex(r) # Remove(s) /\ (Remove(r) = Remove(s) => r = s)
  /\ \A k \in Rebuilds : k \in Keys /\ Concerns(k) = Records
  /\ \A k \in Keys : k \in Rebuilds \/ \E r \in Records : k = Reindex(r) \/ k = Remove(r)
  /\ \A k \in Keys : Concerns(k) \subseteq Records
  /\ <<"none">> \notin Keys
<1>1. \A r \in Records : /\ Reindex(r) \in Keys /\ Reindex(r) \notin Rebuilds
                         /\ Remove(r) \in Keys /\ Remove(r) \notin Rebuilds
                         /\ Reindex(r)[2] = r /\ Remove(r)[2] = r
  BY DEF Keys, Rebuilds, Reindex, Remove
<1>2. \A r \in Records : Concerns(Reindex(r)) = {r} /\ Concerns(Remove(r)) = {r}
  BY <1>1 DEF Concerns
<1>3. \A r, s \in Records : Reindex(r) # Remove(s) /\ (Remove(r) = Remove(s) => r = s)
  BY DEF Reindex, Remove
<1>4. \A k \in Rebuilds : k \in Keys /\ Concerns(k) = Records
  BY DEF Keys, Concerns
<1>5. \A k \in Keys : k \in Rebuilds \/ \E r \in Records : k = Reindex(r) \/ k = Remove(r)
  BY DEF Keys
<1>6. \A k \in Keys : Concerns(k) \subseteq Records
  BY <1>2, <1>4, <1>5
<1>7. <<"none">> \notin Keys
  BY DEF Keys, Rebuilds, Reindex, Remove
<1> QED
  BY <1>1, <1>2, <1>3, <1>4, <1>5, <1>6, <1>7

-----------------------------------------------------------------------------
(* The invariant *)

Pcs == {"idle", "types", "read", "index", "fts", "stale", "remove", "repair", "verdict"}
Versions == 0..(MaxChanges + 1)
Runs == [key : Keys \union {<<"none">>}, pc : Pcs, docs : [Records -> Versions],
         todo : SUBSET Records, at : Records \union {<<"none">>},
         module : {"enabled", "disabled"}, dry : BOOLEAN, result : {"ok", "failed"}]
JobRows == [status : {"none", "queued", "running"}, tries : Nat, dry : BOOLEAN]
Typed ==
  /\ TypeOK
  /\ module \in {"enabled", "disabled"}
  /\ job \in [Keys -> JobRows]
  /\ owed \in [Keys -> Nat]
  /\ run \in Runs
  /\ changes \in 0..MaxChanges /\ faults \in Nat
  /\ \A r \in Records : record[r].version <= changes + 1

\* Only a rebuild may be dry, and a run is dry when its row is.
Dryness ==
  /\ \A k \in Keys : job[k].dry => k \in Rebuilds
  /\ run.pc # "idle" => run.dry = job[run.key].dry

Control ==
  /\ run.dry => Rebuilding /\ run.pc \notin {"index", "fts", "remove"}
  /\ run.pc = "idle" <=> run.key = <<"none">>
  /\ run.pc \in {"types", "stale", "repair"} => Rebuilding
  /\ run.pc = "repair" => run.module = "enabled"
  /\ run.pc # "idle" => run.todo \subseteq Concerns(run.key)
  /\ run.pc \in {"index", "remove"} => run.todo # {}
  /\ run.pc = "fts" => run.at \in run.todo
  /\ run.pc \in {"read", "index", "fts"} => run.module = "enabled"
  /\ run.pc # "idle" /\ ~Rebuilding => run.module = "enabled"
  /\ ~Rebuilding /\ run.pc \in {"read", "remove", "index", "fts"} => run.todo = Concerns(run.key)
  /\ run.pc = "read" => \A r \in Records : run.key # Remove(r)
  /\ run.pc \in {"types", "read"} => run.docs = Nothing

Wrote(r) == index[r] = run.docs[r] /\ fts[r] = run.docs[r]
Progress ==
  run.result = "ok" /\ ~run.dry =>
    /\ run.pc \in {"index", "fts"} =>
         /\ \A r \in run.todo : run.docs[r] # 0
         /\ \A r \in Concerns(run.key) \ run.todo : run.docs[r] # 0 => Wrote(r)
         /\ run.pc = "fts" => index[run.at] = run.docs[run.at]
    /\ run.pc = "stale" => \A r \in Records : run.docs[r] # 0 => Wrote(r)
    /\ run.pc = "remove" =>
         /\ \A r \in run.todo : run.docs[r] = 0
         /\ \A r \in Concerns(run.key) \ run.todo : index[r] = run.docs[r]
    /\ run.pc = "repair" => index = run.docs
    /\ run.pc = "verdict" /\ run.module = "enabled" => \A r \in Concerns(run.key) : Wrote(r)

Others(r) == \E k \in Keys : r \in Concerns(k) /\ (owed[k] > 0 \/ (k # run.key /\ Live(k)))
Current ==
  /\ run.pc \notin {"idle", "types", "read"} /\ run.module = "enabled" /\ run.result = "ok" /\ ~run.dry =>
       \A r \in Concerns(run.key) : Others(r) \/ excuse[r] # "none" \/ run.docs[r] = Doc(r)
  /\ run.module = "disabled" /\ ~run.dry => \A r \in Records : excuse[r] # "none"
Gone ==
  \A r \in Records :
    owed[Remove(r)] > 0 \/ job[Remove(r)].status # "none" => record[r].status = "deleted"

LEMMA InitTyped == Init => Typed
<1> SUFFICES ASSUME Init PROVE Typed
  OBVIOUS
<1> USE BoundAssumption, KeyFacts DEF Init, Versions, JobRows, NoJob, Idle, Nothing
<1>1. record \in [Records -> [status : {"absent", "shown", "hidden", "deleted"}, version : Versions]]
      /\ excuse \in [Records -> Causes \union {"none"}]
      /\ \A r \in Records : record[r].version <= 1
  BY DEF Causes
<1>2. run \in Runs
  BY DEF Runs, Pcs
<1>3. job \in [Keys -> JobRows] /\ \A k \in Keys : run.key # k
  BY DEF JobRows
<1>4. index \in [Records -> Versions] /\ fts \in [Records -> Versions] /\ owed \in [Keys -> Nat]
  OBVIOUS
<1> QED
  BY <1>1, <1>2, <1>3, <1>4 DEF Typed, TypeOK

LEMMA RowFacts ==
  /\ NoJob \in JobRows
  /\ \A row \in JobRows : [row EXCEPT !.status = "queued"] \in JobRows
  /\ \A row \in JobRows : [row EXCEPT !.status = "running", !.tries = @ + 1] \in JobRows
<1>1. ASSUME NEW row \in JobRows
      PROVE  [row EXCEPT !.status = "running", !.tries = @ + 1] \in JobRows
  <2>1. ASSUME NEW n \in Nat
        PROVE  [row EXCEPT !.status = "running", !.tries = n] \in JobRows
    BY DEF JobRows
  <2>2. row.tries + 1 \in Nat
    BY DEF JobRows
  <2> QED
    BY <2>1, <2>2, Zenon
<1> QED
  BY <1>1 DEF NoJob, JobRows

LEMMA RecordKeys == \A k \in Keys : k \notin Rebuilds => k[2] \in Records
<1> SUFFICES ASSUME NEW k \in Keys, k \notin Rebuilds
             PROVE  k[2] \in Records
  OBVIOUS
<1>1. PICK r \in Records : k = Reindex(r) \/ k = Remove(r)
  BY KeyFacts
<1> QED
  BY <1>1, KeyFacts

LEMMA QueuedTyped ==
  ASSUME Typed, NEW k \in Keys, NEW dry \in BOOLEAN, Queued(k, dry)
  PROVE  /\ job' \in [Keys -> JobRows]
         /\ excuse' \in [Records -> Causes \union {"none"}]
         /\ \A l \in Keys : job[l].status = "running" => job'[l] = job[l]
  BY DEF Typed, TypeOK, JobRows, Queued, Excuse, Causes

LEMMA IdleRun == /\ Idle \in Runs /\ Idle.key = <<"none">> /\ Idle.pc = "idle" /\ Idle.docs = Nothing
                 /\ Idle.module = "enabled" /\ Idle.result = "ok" /\ Idle.todo = {} /\ Idle.dry = FALSE
  BY BoundAssumption DEF Idle, Runs, Pcs, Versions, Nothing

LEMMA NextTyped ==
  ASSUME Typed, Control, [Next]_vars
  PROVE  Typed'
<1> USE BoundAssumption, KeyFacts DEF Typed, TypeOK, Versions, JobRows, store, tables
<1>1. ASSUME NEW r \in Records, NEW status \in {"shown", "hidden"}, Save(r, status)
      PROVE  Typed'
  BY <1>1 DEF Save, Change
<1>2. ASSUME NEW r \in Records, Delete(r)
      PROVE  Typed'
  <2>1. record' \in [Records -> [status : {"absent", "shown", "hidden", "deleted"}, version : Versions]]
        /\ \A s \in Records : record'[s].version = record[s].version
    BY <1>2 DEF Delete
  <2>2. owed' \in [Keys -> Nat]
    BY <1>2 DEF Delete
  <2> QED
    BY <1>2, <2>1, <2>2 DEF Delete, Change
<1>3. CASE ToggleModule
  BY <1>3 DEF ToggleModule, Change
<1>4. ASSUME NEW k \in Keys, Enqueue(k)
      PROVE  Typed'
  <2>1. owed' \in [Keys -> Nat]
    BY <1>4 DEF Enqueue
  <2>2. Queued(k, FALSE)
    BY <1>4 DEF Enqueue
  <2> QED
    BY <1>4, <2>1, <2>2, QueuedTyped DEF Enqueue
<1>5. ASSUME NEW k \in Keys, EnqueueFails(k)
      PROVE  Typed'
  BY <1>5 DEF EnqueueFails, Excuse, Causes
<1>6. CASE RequestRebuild
  BY <1>6, QueuedTyped DEF RequestRebuild, Change, Rebuilds
<1>7. CASE StartupCheck
  BY <1>7, QueuedTyped DEF StartupCheck, Rebuilds
<1>8. CASE WebCrash
  BY <1>8 DEF WebCrash, Excuse, Causes
<1>9. ASSUME NEW k \in Keys, Claim(k)
      PROVE  Typed'
  <2>1. run' \in Runs /\ run'.key = k
    <3>1. k \notin Rebuilds => k[2] \in Records
      BY RecordKeys
    <3>2. run' = [Idle EXCEPT !.key = k, !.dry = run'.dry, !.pc = run'.pc, !.todo = run'.todo]
          /\ run'.pc \in Pcs /\ run'.todo \subseteq Records /\ run'.dry \in BOOLEAN
      BY <1>9, <3>1, IdleRun DEF Claim, Pcs, Idle
    <3> QED
      BY <3>2, IdleRun DEF Runs
  <2>2. job' \in [Keys -> JobRows]
        /\ job'[k].status = "running"
    <3>1. job[k] \in JobRows
      BY <1>9
    <3>2. [job[k] EXCEPT !.status = "running", !.tries = @ + 1] \in JobRows
      BY <3>1, RowFacts
    <3>3. job' = [job EXCEPT ![k] = [job[k] EXCEPT !.status = "running", !.tries = @ + 1]]
      BY <1>9 DEF Claim
    <3> QED
      BY <3>2, <3>3
  <2> QED
    BY <1>9, <2>1, <2>2 DEF Claim
<1>10. CASE ReadTypes
  BY <1>10 DEF ReadTypes, At, Runs, Pcs, Excuse, Causes
<1>11. CASE Read
  <2> DEFINE docs == [r \in Records |-> IF r \in Concerns(run.key) THEN Doc(r) ELSE 0]
  <2>1. docs \in [Records -> Versions]
    BY DEF Doc
  <2>2. run' \in Runs /\ run'.key = run.key
    <3> HIDE DEF docs
    <3> QED
    BY <1>11, <2>1 DEF Read, At, Runs, Pcs, docs
  <2>3. excuse' \in [Records -> Causes \union {"none"}]
    BY <1>11 DEF Read, Excuse
  <2>4. run.key \in Keys \union {<<"none">>}
    BY DEF Runs
  <2> QED
    BY <1>11, <2>2, <2>3, <2>4 DEF Read
<1>12. ASSUME NEW r \in Records, NEW result \in {"ok", "failed"}, After(r, result)
       PROVE  run' \in Runs /\ run'.key = run.key
  BY <1>12 DEF After, Ending, Runs, Pcs
<1>13. ASSUME NEW r \in Records, Upsert(r)
       PROVE  Typed'
  BY <1>13 DEF Upsert, At, Runs, Pcs
<1>14. CASE ReadStale
  BY <1>14 DEF ReadStale, At, Runs, Pcs, Ending
<1>15. ASSUME NEW r \in Records, RemoveDocument(r)
       PROVE  Typed'
  BY <1>15, <1>12 DEF RemoveDocument, At
<1>16. CASE Repair
  BY <1>16 DEF Repair, At, Move, Runs, Pcs
<1>17. CASE Verdict
  <2>1. run.key \in Keys
    BY <1>17 DEF Verdict, At, Control, Runs
  <2>2. job' \in [Keys -> JobRows]
    <3>1. PICK row \in JobRows :
            job' = [job EXCEPT ![run.key] = row]
      <4>1. [job[run.key] EXCEPT !.status = "queued"] \in JobRows
        BY <2>1, RowFacts DEF JobRows
      <4>2. NoJob \in JobRows
        BY RowFacts
      <4> QED
        <5> DEFINE retry == run.result = "failed" /\ job[run.key].tries < MaxAttempts
        <5>1. job' = [job EXCEPT ![run.key] = IF retry THEN [@ EXCEPT !.status = "queued"] ELSE NoJob]
          BY <1>17 DEF Verdict
        <5>2. CASE retry
          <6>1. job' = [job EXCEPT ![run.key] = [job[run.key] EXCEPT !.status = "queued"]]
            BY <5>1, <5>2, <2>1
          <6> QED
            BY <6>1, <4>1
        <5>3. CASE ~retry
          <6>1. job' = [job EXCEPT ![run.key] = NoJob]
            BY <5>1, <5>3, <2>1
          <6> QED
            BY <6>1, <4>2
        <5> QED
          BY <5>2, <5>3
    <3> QED
      BY <3>1
  <2>3. excuse' \in [Records -> Causes \union {"none"}]
    BY <1>17 DEF Verdict, Excuse, Causes
  <2> QED
    BY <1>17, <2>2, <2>3, IdleRun DEF Verdict
<1>18. CASE WorkerCrash
  <2>1. run' \in Runs /\ run'.key \notin Keys
    BY <1>18, IdleRun DEF WorkerCrash
  <2> QED
    BY <1>18, <2>1 DEF WorkerCrash
<1>19. CASE SyncFts
  <2>1. run.at \in Records
    BY <1>19 DEF SyncFts, At, Control, Runs
  <2>2. run' \in Runs /\ run'.key = run.key
    BY <1>19, <2>1, <1>12 DEF SyncFts
  <2>3. fts' \in [Records -> Versions]
    BY <1>19, <2>1 DEF SyncFts, Runs
  <2> QED
    BY <1>19, <2>2, <2>3 DEF SyncFts
<1>20. CASE StatementFails
  <2>1. run' \in Runs /\ run'.key = run.key
    <3>1. CASE Rebuilding /\ run.pc \in {"index", "fts", "remove"}
      <4>1. PICK r \in IF At("fts") THEN {run.at} ELSE run.todo : After(r, "failed")
        BY <1>20, <3>1 DEF StatementFails
      <4>2. r \in Records
        BY <4>1 DEF At, Control, Runs
      <4> QED
        BY <4>1, <4>2, <1>12
    <3>2. CASE ~(Rebuilding /\ run.pc \in {"index", "fts", "remove"})
      <4>1. run' = [run EXCEPT !.result = "failed", !.pc = "verdict"]
        BY <1>20, <3>2, Zenon DEF StatementFails
      <4> QED
        BY <4>1 DEF Runs, Pcs
    <3> QED
      BY <3>1, <3>2
  <2> QED
    BY <1>20, <2>1 DEF StatementFails
<1>21. CASE UNCHANGED vars
  BY <1>21 DEF vars
<1> QED
  BY <1>1, <1>2, <1>3, <1>4, <1>5, <1>6, <1>7, <1>8, <1>9, <1>10, <1>11, <1>13, <1>14, <1>15, <1>16, <1>17,
     <1>18, <1>19, <1>20, <1>21 DEF Next, WorkerStep, WebStep

-----------------------------------------------------------------------------
(* The worker's run *)

Worker ==
  \/ \E k \in Keys : Claim(k)
  \/ ReadTypes \/ Read \/ SyncFts \/ ReadStale \/ Repair \/ Verdict
  \/ \E r \in Records : Upsert(r) \/ RemoveDocument(r)
  \/ StatementFails \/ WorkerCrash

\* Nobody but the worker touches its run and the index.
LEMMA OnlyWorker ==
  ASSUME [Next]_vars
  PROVE  Worker \/ UNCHANGED <<run, index, fts>>
<1>1. ASSUME NEW r \in Records, Delete(r) \/ \E status \in {"shown", "hidden"} : Save(r, status)
      PROVE  UNCHANGED <<run, index, fts>>
  BY <1>1 DEF Delete, Save, tables
<1>2. ASSUME NEW k \in Keys, Enqueue(k) \/ EnqueueFails(k)
      PROVE  UNCHANGED <<run, index, fts>>
  BY <1>2 DEF Enqueue, EnqueueFails, tables
<1>3. CASE ToggleModule \/ RequestRebuild \/ StartupCheck \/ WebCrash
  BY <1>3 DEF ToggleModule, RequestRebuild, StartupCheck, WebCrash, tables
<1>4. CASE UNCHANGED vars
  BY <1>4 DEF vars, tables
<1> QED
  BY <1>1, <1>2, <1>3, <1>4 DEF Next, WorkerStep, WebStep, Worker

\* What dealing with one record does to the run.
LEMMA AfterFields ==
  ASSUME Typed, NEW r \in Records, NEW result \in {"ok", "failed"}, After(r, result)
  PROVE  /\ run'.key = run.key /\ run'.docs = run.docs /\ run'.at = run.at /\ run'.module = run.module
         /\ run'.dry = run.dry
         /\ run'.todo = run.todo \ {r}
         /\ run'.result = IF result = "failed" THEN "failed" ELSE run.result
         /\ run'.todo # {} => run'.pc = IF run.pc = "remove" THEN "remove" ELSE "index"
         /\ run'.todo = {} /\ run.key \notin Rebuilds => run'.pc = "verdict"
         /\ run'.todo = {} /\ run.key \in Rebuilds /\ run.pc # "remove" => run'.pc = "stale"
         /\ run'.todo = {} /\ run.key \in Rebuilds /\ run.pc = "remove"
              => run'.pc = IF run.module = "enabled" THEN "repair" ELSE "verdict"
  BY DEF After, At, Rebuilding, Ending, Typed, Runs

LEMMA AfterControl ==
  ASSUME Typed, Control, NEW r \in run.todo, NEW result \in {"ok", "failed"}, After(r, result),
         run.pc \in {"index", "fts", "remove"}
  PROVE  Control'
<1>1. r \in Records
  BY DEF Typed, Runs
<1>2. run.key \notin Rebuilds => run.todo = {r}
  BY KeyFacts DEF Control, Rebuilding, Typed, Runs
<1> QED
  BY <1>1, <1>2, AfterFields, KeyFacts DEF Control, Rebuilding, Typed, Runs

LEMMA ReadFields ==
  ASSUME Typed, Control, Read
  PROVE  /\ run.pc = "read"
         /\ run'.key = run.key /\ run'.module = run.module /\ run'.result = run.result /\ run'.dry = run.dry
         /\ \A r \in Records : run'.docs[r] = IF r \in Concerns(run.key) THEN Doc(r) ELSE 0
         /\ run'.pc = "index" => \A r \in run'.todo : run'.docs[r] # 0
         /\ run'.pc = "index" => \A r \in Concerns(run.key) \ run'.todo : run'.docs[r] = 0
         /\ run'.pc = "stale" /\ ~run.dry => \A r \in Records : run'.docs[r] = 0
         /\ run.dry => run'.pc = "stale"
         /\ run'.pc = "remove" => \A r \in Records : run'.docs[r] = 0
         /\ run'.todo \subseteq Concerns(run.key)
         /\ run'.pc = "index" => run'.todo # {}
         /\ run.key \notin Rebuilds => run'.todo = Concerns(run.key)
         /\ run'.pc = "stale" => run.key \in Rebuilds
         /\ run'.pc = "remove" => run.key \notin Rebuilds
         /\ run'.pc \in {"index", "stale", "remove"}
<1>1. PICK docs, some : /\ some = {r \in Records : docs[r] # 0 /\ ~run.dry}
                        /\ run' = [run EXCEPT !.docs = docs, !.todo = IF Rebuilding THEN some ELSE @,
                             !.pc = IF some # {} THEN "index" ELSE IF Rebuilding THEN "stale" ELSE "remove"]
                        /\ docs = [r \in Records |-> IF r \in Concerns(run.key) THEN Doc(r) ELSE 0]
  BY DEF Read
<1>2. /\ run.pc = "read" /\ run'.key = run.key /\ run'.module = run.module /\ run'.result = run.result /\ run'.dry = run.dry
      /\ run'.docs = docs /\ run'.todo = (IF run.key \in Rebuilds THEN some ELSE run.todo)
      /\ run'.pc = IF some # {} THEN "index" ELSE IF run.key \in Rebuilds THEN "stale" ELSE "remove"
  BY <1>1 DEF Read, At, Typed, Runs, Rebuilding
<1>3. CASE run.key \in Rebuilds
  <2>1. /\ \A r \in Records : r \in some <=> docs[r] # 0 /\ ~run.dry
        /\ some \subseteq Records /\ Concerns(run.key) = Records
    BY <1>1, <1>3, KeyFacts
  <2>2. \A r \in Records : docs[r] = Doc(r)
    BY <1>1, <2>1
  <2> QED
    BY <1>2, <1>3, <2>1, <2>2
<1>4. CASE run.key \notin Rebuilds
  <2>1. PICK r \in Records : Concerns(run.key) = {r} /\ run.todo = {r}
    BY <1>2, <1>4, KeyFacts DEF Control, Rebuilding, Typed, Runs
  <2>2. /\ docs[r] = Doc(r) /\ \A s \in Records : s # r => docs[s] = 0
        /\ \A s \in Records : s \in some <=> docs[s] # 0
        /\ some \subseteq {r} /\ ~run.dry
    BY <1>1, <1>4, <2>1 DEF Control, Rebuilding
  <2> QED
    BY <1>2, <1>4, <2>1, <2>2
<1> QED
  BY <1>3, <1>4

\* A row whose job runs is left alone by all but the worker.
LEMMA RunningKept ==
  ASSUME Typed, [Next]_vars, NEW k \in Keys, job[k].status = "running"
  PROVE  Worker \/ job'[k] = job[k]
<1>1. ASSUME NEW r \in Records, Delete(r) \/ \E status \in {"shown", "hidden"} : Save(r, status)
      PROVE  job' = job
  BY <1>1 DEF Delete, Save
<1>2. ASSUME NEW l \in Keys, Enqueue(l)
      PROVE  job'[k] = job[k]
  BY <1>2, QueuedTyped DEF Enqueue
<1>3. CASE RequestRebuild \/ StartupCheck
  BY <1>3, QueuedTyped, KeyFacts DEF RequestRebuild, StartupCheck, Rebuilds
<1>4. ASSUME NEW l \in Keys, EnqueueFails(l)
      PROVE  job' = job
  BY <1>4 DEF EnqueueFails
<1>5. CASE ToggleModule \/ WebCrash \/ UNCHANGED vars
  BY <1>5 DEF ToggleModule, WebCrash, vars
<1> QED
  BY <1>1, <1>2, <1>3, <1>4, <1>5 DEF Next, WorkerStep, WebStep, Worker

LEMMA NextDryness ==
  ASSUME Typed, Control, Dryness, [Next]_vars
  PROVE  Dryness'
<1> USE KeyFacts DEF Dryness
<1>1. ASSUME NEW k \in Keys, NEW dry \in BOOLEAN, Queued(k, dry), dry => k \in Rebuilds
      PROVE  \A l \in Keys : job'[l].dry => l \in Rebuilds
  <2> USE DEF Typed, JobRows
  <2>1. \A l \in Keys : l # k => job'[l] = job[l]
    BY <1>1 DEF Queued
  <2>2. job'[k].dry => k \in Rebuilds
    BY <1>1 DEF Queued
  <2> QED
    BY <2>1, <2>2
<1>2. CASE ~Worker
  <2>1. \A k \in Keys : job'[k].dry => k \in Rebuilds
    <3>1. ASSUME NEW r \in Records, Delete(r) \/ \E status \in {"shown", "hidden"} : Save(r, status)
          PROVE  job' = job
      BY <3>1 DEF Delete, Save
    <3>2. ASSUME NEW l \in Keys, Enqueue(l)
          PROVE  \A k \in Keys : job'[k].dry => k \in Rebuilds
      BY <3>2, <1>1 DEF Enqueue
    <3>3. CASE RequestRebuild \/ StartupCheck
      <4>1. job' = job \/ \E k \in Rebuilds, dry \in BOOLEAN : Queued(k, dry)
        BY <3>3 DEF RequestRebuild, StartupCheck, Rebuilds
      <4> QED
        BY <4>1, <1>1
    <3>4. ASSUME NEW l \in Keys, EnqueueFails(l)
          PROVE  job' = job
      BY <3>4 DEF EnqueueFails
    <3>5. CASE ToggleModule \/ WebCrash \/ UNCHANGED vars
      BY <3>5 DEF ToggleModule, WebCrash, vars
    <3> QED
      BY <1>2, <3>1, <3>2, <3>3, <3>4, <3>5 DEF Next, WorkerStep, WebStep, Worker
  <2>2. run' = run
    BY <1>2, OnlyWorker
  <2>3. run.pc # "idle" => run.key \in Keys /\ job[run.key].status = "running"
    BY DEF Control, Typed, TypeOK, Runs
  <2> QED
    BY <1>2, <2>1, <2>2, <2>3, RunningKept
<1>3. ASSUME NEW k \in Keys, Claim(k)
      PROVE  Dryness'
  <2>1. /\ run'.key = k /\ run'.dry = job[k].dry /\ job'[k].dry = job[k].dry
        /\ \A l \in Keys : l # k => job'[l] = job[l]
    BY <1>3, IdleRun DEF Claim, Runs, Typed, JobRows
  <2> QED
    BY <2>1
<1>4. ASSUME NEW r \in Records, NEW result \in {"ok", "failed"}, After(r, result), job' = job, run.pc # "idle"
      PROVE  Dryness'
  BY <1>4, AfterFields
<1>5. CASE ReadTypes \/ ReadStale \/ Repair
  <2>1. job' = job /\ run.pc # "idle"
    BY <1>5 DEF ReadTypes, ReadStale, Repair, At
  <2>2. run'.key = run.key /\ run'.dry = run.dry
    <3>1. CASE ReadTypes
      BY <3>1 DEF ReadTypes, Typed, Runs
    <3>2. CASE ReadStale
      BY <3>2 DEF ReadStale, Typed, Runs
    <3>3. CASE Repair
      BY <3>3 DEF Repair, Move, Typed, Runs
    <3> QED
      BY <1>5, <3>1, <3>2, <3>3
  <2> QED
    BY <2>1, <2>2
<1>6. CASE Read
  BY <1>6, ReadFields DEF Read
<1>7. ASSUME NEW r \in Records, Upsert(r) \/ RemoveDocument(r)
      PROVE  Dryness'
  <2>1. CASE Upsert(r)
    BY <2>1 DEF Upsert, At, Typed, Runs
  <2>2. CASE RemoveDocument(r)
    BY <2>2, <1>4 DEF RemoveDocument, At
  <2> QED
    BY <1>7, <2>1, <2>2
<1>8. CASE SyncFts
  <2>1. run.at \in Records
    BY <1>8 DEF SyncFts, At, Control, Typed, Runs
  <2> QED
    BY <1>8, <2>1, <1>4 DEF SyncFts, At
<1>9. CASE Verdict
  <2>1. run.key \in Keys
    BY <1>9 DEF Verdict, At, Control, Typed, Runs
  <2>2. \A l \in Keys : l # run.key => job'[l] = job[l]
    BY <1>9, <2>1 DEF Verdict, Typed
  <2>3. job'[run.key].dry => job[run.key].dry
    BY <1>9, <2>1 DEF Verdict, Typed, JobRows, NoJob
  <2> QED
    BY <1>9, <2>1, <2>2, <2>3, IdleRun DEF Verdict
<1>10. CASE WorkerCrash
  BY <1>10, IdleRun DEF WorkerCrash
<1>11. CASE StatementFails
  <2>1. CASE Rebuilding /\ run.pc \in {"index", "fts", "remove"}
    <3>1. PICK r \in IF At("fts") THEN {run.at} ELSE run.todo : After(r, "failed")
      BY <1>11, <2>1 DEF StatementFails
    <3>2. r \in Records
      BY <3>1 DEF At, Control, Typed, Runs
    <3> QED
      BY <1>11, <3>1, <3>2, <1>4 DEF StatementFails
  <2>2. CASE ~(Rebuilding /\ run.pc \in {"index", "fts", "remove"})
    <3>1. run' = [run EXCEPT !.result = "failed", !.pc = "verdict"] /\ job' = job /\ run.pc # "idle"
      BY <1>11, <2>2, Zenon DEF StatementFails
    <3> QED
      BY <3>1 DEF Typed, Runs
  <2> QED
    BY <2>1, <2>2
<1> QED
  BY <1>2, <1>3, <1>5, <1>6, <1>7, <1>8, <1>9, <1>10, <1>11 DEF Worker

LEMMA NextControl ==
  ASSUME Typed, Control, Dryness, [Next]_vars
  PROVE  Control'
<1> USE KeyFacts DEF Control, Rebuilding
<1>1. CASE UNCHANGED run
  BY <1>1
<1>2. ASSUME NEW k \in Keys, Claim(k)
      PROVE  Control'
  <2>1. /\ run'.key = k /\ run'.docs = Nothing /\ run'.module = "enabled" /\ (run'.dry => k \in Rebuilds)
        /\ run'.pc = IF k \in Rebuilds THEN "types" ELSE IF k = Remove(k[2]) THEN "remove" ELSE "read"
        /\ run'.todo = IF k \in Rebuilds THEN {} ELSE {k[2]}
    BY <1>2, IdleRun DEF Claim, Runs, Dryness
  <2>2. k \notin Rebuilds => Concerns(k) = {k[2]}
    BY DEF Concerns
  <2>3. \A r \in Records : k = Remove(r) => k = Remove(k[2])
    OBVIOUS
  <2> QED
    BY <2>1, <2>2, <2>3
<1>3. CASE ReadTypes
  BY <1>3 DEF ReadTypes, At, Typed, Runs
<1>4. CASE Read
  <2>1. run.key \in Keys /\ run'.key = run.key /\ run.module = run'.module
    BY <1>4, ReadFields DEF Typed, Runs
  <2>2. Concerns(run.key) # {} \/ run.key \in Rebuilds
    <3>1. run.key \in Rebuilds \/ \E r \in Records : run.key = Reindex(r) \/ run.key = Remove(r)
      BY <2>1
    <3> QED
      BY <3>1, KeyFacts
  <2>3. run'.dry = run.dry /\ (run.dry => run'.pc = "stale" /\ run.key \in Rebuilds)
    BY <1>4, ReadFields
  <2>4. run'.dry => Rebuilding' /\ run'.pc \notin {"index", "fts", "remove"}
    BY <2>1, <2>3 DEF Rebuilding
  <2> QED
    BY <1>4, ReadFields, <2>1, <2>2, <2>4
<1>5. ASSUME NEW r \in Records, Upsert(r)
      PROVE  Control'
  BY <1>5 DEF Upsert, At, Typed, Runs
<1>6. CASE SyncFts
  BY <1>6, AfterControl DEF SyncFts, At
<1>7. CASE ReadStale
  BY <1>7 DEF ReadStale, At, Ending, Typed, Runs
<1>8. ASSUME NEW r \in Records, RemoveDocument(r)
      PROVE  Control'
  BY <1>8, AfterControl DEF RemoveDocument, At
<1>9. CASE Repair
  BY <1>9 DEF Repair, At, Move, Typed, Runs
<1>10. CASE Verdict \/ WorkerCrash
  BY <1>10, IdleRun DEF Verdict, WorkerCrash, Rebuilds
<1>11. CASE StatementFails
  <2>1. CASE Rebuilding /\ run.pc \in {"index", "fts", "remove"}
    <3>1. PICK r \in IF At("fts") THEN {run.at} ELSE run.todo : After(r, "failed")
      BY <1>11, <2>1 DEF StatementFails
    <3>2. r \in run.todo
      BY <3>1 DEF At
    <3> QED
      BY <2>1, <3>1, <3>2, AfterControl
  <2>2. CASE ~(Rebuilding /\ run.pc \in {"index", "fts", "remove"})
    <3>1. run' = [run EXCEPT !.result = "failed", !.pc = "verdict"]
      BY <1>11, <2>2, Zenon DEF StatementFails
    <3> QED
      BY <1>11, <3>1 DEF StatementFails, Typed, Runs
  <2> QED
    BY <2>1, <2>2
<1> QED
  BY <1>1, <1>2, <1>3, <1>4, <1>5, <1>6, <1>7, <1>8, <1>9, <1>10, <1>11, OnlyWorker DEF Worker

LEMMA NextProgress ==
  ASSUME Typed, Control, Progress, [Next]_vars
  PROVE  Progress'
<1> USE KeyFacts DEF Progress, Wrote
<1>1. CASE UNCHANGED <<run, index, fts>>
  BY <1>1
<1>2. ASSUME NEW k \in Keys, Claim(k)
      PROVE  Progress'
  <2>1. /\ run'.key = k /\ run'.docs = Nothing
        /\ run'.pc = IF k \in Rebuilds THEN "types" ELSE IF k = Remove(k[2]) THEN "remove" ELSE "read"
        /\ run'.todo = IF k \in Rebuilds THEN {} ELSE {k[2]}
    BY <1>2, IdleRun DEF Claim, Runs
  <2>2. k \notin Rebuilds => Concerns(k) = {k[2]} /\ k[2] \in Records
    BY RecordKeys DEF Concerns
  <2> QED
    BY <2>1, <2>2 DEF Nothing
<1>3. CASE ReadTypes
  BY <1>3 DEF ReadTypes, At, Typed, Runs, Control, Nothing
<1>4. CASE Read
  <2>1. Progress' <=> (run'.result = "ok" /\ ~run'.dry =>
          /\ run'.pc = "index" =>
               /\ \A r \in run'.todo : run'.docs[r] # 0
               /\ \A r \in Concerns(run.key) \ run'.todo : run'.docs[r] # 0 => Wrote(r)'
          /\ run'.pc = "stale" => \A r \in Records : run'.docs[r] # 0 => Wrote(r)'
          /\ run'.pc = "remove" =>
               /\ \A r \in run'.todo : run'.docs[r] = 0
               /\ \A r \in Concerns(run.key) \ run'.todo : index'[r] = run'.docs[r])
    BY <1>4, ReadFields
  <2>2. run.key \in Keys
    BY <1>4, ReadFields DEF Control, Typed, Runs
  <2>3. Concerns(run.key) \subseteq Records
    BY <2>2
  <2> QED
    BY <1>4, <2>1, <2>3, ReadFields
<1>5. ASSUME NEW r \in Records, Upsert(r)
      PROVE  Progress'
  BY <1>5 DEF Upsert, At, Typed, TypeOK, Runs, tables
<1>6. CASE SyncFts
  <2>1. /\ run.pc = "fts" /\ run.at \in run.todo /\ run.at \in Records /\ After(run.at, "ok")
        /\ index' = index /\ fts' = [fts EXCEPT ![run.at] = run.docs[run.at]]
    BY <1>6 DEF SyncFts, At, Control, Typed, Runs
  <2>2. run.key \notin Rebuilds => Concerns(run.key) = {run.at}
    BY <2>1 DEF Control, Rebuilding, Typed, Runs
  <2>3. run.key \in Rebuilds => Concerns(run.key) = Records
    OBVIOUS
  <2>4. run.key \in Keys
    BY <2>1 DEF Control, Typed, Runs
  <2>5. \A r \in Records : r # run.at => fts'[r] = fts[r]
    BY <2>1 DEF Typed, TypeOK
  <2>6. fts'[run.at] = run.docs[run.at]
    BY <2>1 DEF Typed, TypeOK
  <2> QED
    BY <2>1, <2>2, <2>3, <2>4, <2>5, <2>6, AfterFields
<1>7. CASE ReadStale
  BY <1>7 DEF ReadStale, At, Ending, Typed, TypeOK, Runs, Control, Rebuilding, tables
<1>8. ASSUME NEW r \in Records, RemoveDocument(r)
      PROVE  Progress'
  <2>1. /\ run.pc = "remove" /\ r \in run.todo /\ After(r, "ok")
        /\ index' = [index EXCEPT ![r] = 0] /\ fts' = [fts EXCEPT ![r] = 0]
    BY <1>8 DEF RemoveDocument, At
  <2>2. run.key \notin Rebuilds => Concerns(run.key) = {r}
    BY <2>1 DEF Control, Rebuilding, Typed, Runs
  <2>3. run.key \in Keys
    BY <2>1 DEF Control, Typed, Runs
  <2>4. index'[r] = 0 /\ fts'[r] = 0 /\ \A s \in Records : s # r => index'[s] = index[s]
    BY <2>1 DEF Typed, TypeOK
  <2>5. CASE run.result = "ok"
    <3> ~run.dry
      BY <2>1 DEF Control
    <3>1. run.docs[r] = 0 /\ \A s \in Concerns(run.key) \ run'.todo : index'[s] = run.docs[s]
      BY <2>1, <2>3, <2>4, <2>5, AfterFields
    <3>2. run'.pc = "repair" => index' = run'.docs
      <4> SUFFICES ASSUME run'.pc = "repair" PROVE index' = run'.docs
        OBVIOUS
      <4>1. run'.todo = {} /\ run.key \in Rebuilds
        BY <2>1, AfterFields
      <4>2. \A s \in Records : index'[s] = run.docs[s]
        BY <3>1, <4>1
      <4>3. index' \in [Records -> Versions] /\ run.docs \in [Records -> Versions]
        BY NextTyped DEF Typed, TypeOK, Runs, Versions
      <4>4. index' = run.docs
        BY <4>2, <4>3
      <4> QED
        BY <2>1, <4>4, AfterFields
    <3> QED
      BY <2>1, <2>2, <2>3, <2>4, <3>1, <3>2, AfterFields
  <2>6. CASE run.result # "ok"
    BY <2>1, <2>6, AfterFields
  <2> QED
    BY <2>5, <2>6
<1>9. CASE Repair
  BY <1>9 DEF Repair, At, Move, Typed, Runs, Control, Rebuilding
<1>10. CASE Verdict \/ WorkerCrash
  BY <1>10, IdleRun DEF Verdict, WorkerCrash
<1>11. CASE StatementFails
  <2>1. run'.result = "failed"
    <3>1. CASE Rebuilding /\ run.pc \in {"index", "fts", "remove"}
      <4>1. PICK r \in IF At("fts") THEN {run.at} ELSE run.todo : After(r, "failed")
        BY <1>11, <3>1 DEF StatementFails
      <4>2. r \in Records
        BY <4>1 DEF At, Control, Typed, Runs
      <4> QED
        BY <4>1, <4>2, AfterFields
    <3>2. CASE ~(Rebuilding /\ run.pc \in {"index", "fts", "remove"})
      <4>1. run' = [run EXCEPT !.result = "failed", !.pc = "verdict"]
        BY <1>11, <3>2, Zenon DEF StatementFails
      <4> QED
        BY <4>1 DEF Typed, Runs
    <3> QED
      BY <3>1, <3>2
  <2> QED
    BY <2>1
<1> QED
  BY <1>1, <1>2, <1>3, <1>4, <1>5, <1>6, <1>7, <1>8, <1>9, <1>10, <1>11, OnlyWorker DEF Worker

-----------------------------------------------------------------------------
(* What the index owes to the records *)

LEMMA QueuedEffect ==
  ASSUME Typed, NEW k \in Keys, NEW dry \in BOOLEAN, Queued(k, dry)
  PROVE  /\ \A r \in Concerns(k) : dry \/ excuse'[r] = "dropped" \/ (Live(k)' /\ job[k].status # "running")
         /\ \A r \in Records : excuse'[r] = excuse[r] \/ excuse'[r] \in {"dropped", "replaced"}
         /\ Live(k) => Live(k)' \/ \A r \in Concerns(k) : excuse'[r] # "none"
         /\ \A l \in Keys : l # k => job'[l] = job[l]
<1> USE DEF Typed, JobRows
<1>1. CASE job[k].status = "none"
  BY <1>1, KeyFacts DEF Queued, Live
<1>2. CASE job[k].status = "queued"
  <2>1. job' = [job EXCEPT ![k].dry = dry] /\ excuse' = IF dry /\ ~job[k].dry THEN Excuse(Concerns(k), "replaced") ELSE excuse
    BY <1>2 DEF Queued
  <2>2. job'[k].status = "queued" /\ job'[k].dry = dry /\ \A l \in Keys : l # k => job'[l] = job[l]
    BY <1>2, <2>1
  <2>3. CASE dry /\ ~job[k].dry
    <3>1. \A r \in Records : excuse'[r] = IF r \in Concerns(k) THEN "replaced" ELSE excuse[r]
      BY <2>1, <2>3 DEF Excuse
    <3> QED
      BY <1>2, <2>2, <2>3, <3>1, KeyFacts DEF Live
  <2>4. CASE ~(dry /\ ~job[k].dry)
    BY <1>2, <2>1, <2>2, <2>4 DEF Live
  <2> QED
    BY <2>3, <2>4
<1>3. CASE job[k].status = "running"
  BY <1>3, KeyFacts DEF Queued, Excuse, TypeOK, Live
<1> QED
  BY <1>1, <1>2, <1>3

\* The worker leaves records and requests alone; it changes the row of its own job only.
LEMMA WorkerKeeps ==
  ASSUME Typed, Control, Worker
  PROVE  /\ record' = record /\ owed' = owed
         /\ \A k \in Keys : job[k].status = "none" => job'[k].status = "none"
         /\ \A k \in Keys : k # run.key /\ Live(k) => Live(k)'
         /\ Verdict \/ \A k \in Keys : (job[k].status # "none" => job'[k].status # "none") /\ (Live(k) => Live(k)')
<1> USE DEF store, tables, Live
<1>1. ASSUME NEW k \in Keys, Claim(k)
      PROVE  /\ record' = record /\ owed' = owed
             /\ \A l \in Keys : (job[l].status = "none" <=> job'[l].status = "none") /\ job'[l].dry = job[l].dry
  BY <1>1 DEF Claim, Typed, JobRows
<1>2. CASE ReadTypes \/ Read \/ SyncFts \/ ReadStale \/ Repair \/ StatementFails \/ WorkerCrash
  BY <1>2 DEF ReadTypes, Read, SyncFts, ReadStale, Repair, StatementFails, WorkerCrash
<1>3. ASSUME NEW r \in Records, Upsert(r) \/ RemoveDocument(r)
      PROVE  record' = record /\ owed' = owed /\ job' = job
  BY <1>3 DEF Upsert, RemoveDocument
<1>4. CASE Verdict
  <2>1. run.key \in Keys /\ job[run.key].status = "running"
    BY <1>4 DEF Verdict, At, Control, Typed, TypeOK, Runs
  <2>2. \A k \in Keys : k # run.key => job'[k] = job[k]
    BY <1>4, <2>1 DEF Verdict, Typed
  <2>3. record' = record /\ owed' = owed
    BY <1>4 DEF Verdict
  <2> QED
    BY <1>4, <2>1, <2>2, <2>3
<1> QED
  BY <1>1, <1>2, <1>3, <1>4 DEF Worker

LEMMA NextGone ==
  ASSUME Typed, Control, Gone, [Next]_vars
  PROVE  Gone'
<1> USE KeyFacts DEF Gone, store, tables
<1>1. ASSUME NEW r \in Records, NEW status \in {"shown", "hidden"}, Save(r, status)
      PROVE  Gone'
  <2>1. \A s \in Records : owed'[Remove(s)] = owed[Remove(s)] /\ job' = job
    BY <1>1 DEF Save, Typed
  <2>2. \A s \in Records : record[s].status = "deleted" => record'[s].status = "deleted"
    BY <1>1 DEF Save, Typed, TypeOK
  <2> QED
    BY <2>1, <2>2
<1>2. ASSUME NEW r \in Records, Delete(r)
      PROVE  Gone'
  <2>1. \A s \in Records : s # r => owed'[Remove(s)] = owed[Remove(s)]
    BY <1>2 DEF Delete, Typed
  <2>2. /\ job' = job /\ record'[r].status = "deleted"
        /\ \A s \in Records : s # r => record'[s] = record[s]
    BY <1>2 DEF Delete, Typed, TypeOK
  <2> QED
    BY <2>1, <2>2
<1>3. CASE ToggleModule \/ WebCrash
  BY <1>3 DEF ToggleModule, WebCrash
<1>4. ASSUME NEW k \in Keys, Enqueue(k)
      PROVE  Gone'
  <2>1. record' = record /\ owed[k] > 0 /\ \A l \in Keys : owed'[l] > 0 => owed[l] > 0
    BY <1>4 DEF Enqueue, Typed
  <2>2. \A l \in Keys : l # k => job'[l] = job[l]
    BY <1>4, QueuedEffect DEF Enqueue
  <2> QED
    BY <2>1, <2>2
<1>5. ASSUME NEW k \in Keys, EnqueueFails(k)
      PROVE  Gone'
  <2>1. record' = record /\ job' = job /\ \A l \in Keys : owed'[l] > 0 => owed[l] > 0
    BY <1>5 DEF EnqueueFails, Typed
  <2> QED
    BY <2>1
<1>6. CASE RequestRebuild \/ StartupCheck
  <2>1. record' = record /\ owed' = owed
    BY <1>6 DEF RequestRebuild, StartupCheck
  <2>2. job' = job \/ \E k \in Rebuilds, dry \in BOOLEAN : Queued(k, dry)
    BY <1>6 DEF RequestRebuild, StartupCheck, Rebuilds
  <2>3. \A r \in Records : job'[Remove(r)] = job[Remove(r)]
    BY <2>2, QueuedEffect
  <2> QED
    BY <2>1, <2>3
<1>7. CASE Worker
  BY <1>7, WorkerKeeps
<1>8. CASE UNCHANGED vars
  BY <1>8 DEF vars
<1> QED
  BY <1>1, <1>2, <1>3, <1>4, <1>5, <1>6, <1>7, <1>8 DEF Next, WorkerStep, WebStep, Worker

\* What any step of the web process does, seen from one record: a change owes a request, and a
\* request that is no longer owed has become a job of its own or a known gap.
Honest(r) ==
  /\ excuse'[r] = "none" => excuse[r] = "none"
  /\ record'[r] = record[r] \/ \E k \in Keys : r \in Concerns(k) /\ owed'[k] > 0
  /\ \A k \in Keys : r \in Concerns(k) /\ Live(k) => Live(k)' \/ excuse'[r] # "none"
  /\ \A k \in Keys : r \in Concerns(k) /\ owed[k] > 0 =>
       \/ owed'[k] > 0 \/ excuse'[r] # "none"
       \/ Live(k)' /\ job[k].status # "running"

LEMMA WebHonest ==
  ASSUME Typed, [Next]_vars, NEW r \in Records
  PROVE  Worker \/ Honest(r)
<1> USE KeyFacts DEF store, tables, Live
<1>1. ASSUME NEW s \in Records, NEW status \in {"shown", "hidden"}, Save(s, status)
      PROVE  Honest(r)
  <2>1. \A k \in Keys : owed'[k] >= owed[k]
    BY <1>1 DEF Save, Typed
  <2>2. r # s => record'[r] = record[r]
    BY <1>1 DEF Save, Typed, TypeOK
  <2>3. owed'[Reindex(s)] > 0
    BY <1>1 DEF Save, Typed
  <2>4. excuse' = excuse /\ job' = job
    BY <1>1 DEF Save
  <2>5. \A k \in Keys : owed[k] \in Nat /\ owed'[k] \in Nat
    BY <1>1 DEF Save, Typed
  <2> QED
    BY <2>1, <2>2, <2>3, <2>4, <2>5 DEF Honest
<1>2. ASSUME NEW s \in Records, Delete(s)
      PROVE  Honest(r)
  <2>1. \A k \in Keys : owed'[k] >= owed[k]
    BY <1>2 DEF Delete, Typed
  <2>2. r # s => record'[r] = record[r]
    BY <1>2 DEF Delete, Typed, TypeOK
  <2>3. owed'[Remove(s)] > 0
    BY <1>2 DEF Delete, Typed
  <2>4. excuse' = excuse /\ job' = job
    BY <1>2 DEF Delete
  <2>5. \A k \in Keys : owed[k] \in Nat /\ owed'[k] \in Nat
    BY <1>2 DEF Delete, Typed
  <2> QED
    BY <2>1, <2>2, <2>3, <2>4, <2>5 DEF Honest
<1>3. CASE ToggleModule
  BY <1>3 DEF ToggleModule, Honest
<1>4. ASSUME NEW k \in Keys, Enqueue(k)
      PROVE  Honest(r)
  <2>1. record' = record /\ \A l \in Keys : l # k => owed'[l] = owed[l]
    BY <1>4 DEF Enqueue, Typed
  <2> QED
    BY <1>4, <2>1, QueuedEffect DEF Enqueue, Honest
<1>5. ASSUME NEW k \in Keys, EnqueueFails(k)
      PROVE  Honest(r)
  <2>1. record' = record /\ job' = job /\ \A l \in Keys : l # k => owed'[l] = owed[l]
    BY <1>5 DEF EnqueueFails, Typed
  <2>2. excuse'[r] = IF r \in Concerns(k) THEN "missed" ELSE excuse[r]
    BY <1>5 DEF EnqueueFails, Excuse
  <2> QED
    BY <2>1, <2>2 DEF Honest
<1>6. CASE RequestRebuild \/ StartupCheck
  <2>1. record' = record /\ owed' = owed
    BY <1>6 DEF RequestRebuild, StartupCheck
  <2>2. (job' = job /\ excuse' = excuse) \/ \E k \in Rebuilds, dry \in BOOLEAN : Queued(k, dry)
    BY <1>6 DEF RequestRebuild, StartupCheck, Rebuilds
  <2> QED
    BY <2>1, <2>2, QueuedEffect DEF Honest
<1>7. CASE WebCrash
  <2>1. record' = record /\ job' = job
    BY <1>7 DEF WebCrash
  <2>2. excuse'[r] = IF r \in UNION {Concerns(k) : k \in {l \in Keys : owed[l] > 0}} THEN "missed" ELSE excuse[r]
    BY <1>7 DEF WebCrash, Excuse
  <2> QED
    BY <2>1, <2>2 DEF Honest
<1>8. CASE UNCHANGED vars
  BY <1>8 DEF vars, Honest
<1> QED
  BY <1>1, <1>2, <1>3, <1>4, <1>5, <1>6, <1>7, <1>8 DEF Next, WorkerStep, WebStep, Worker

LEMMA NextCurrent ==
  ASSUME Typed, Control, Gone, Current, [Next]_vars
  PROVE  Current'
<1> USE KeyFacts DEF Current
<1>1. CASE ~Worker
  <2>1. run' = run
    BY <1>1, OnlyWorker
  <2>2. \A r \in Records : Honest(r)
    BY <1>1, WebHonest
  <2>2a. \A k \in Keys : job[k].status = "running" => job'[k] = job[k]
    BY <1>1, RunningKept
  <2>3. ASSUME NEW r \in Records, run.pc # "idle", run.key \in Keys,
               Others(r) \/ excuse[r] # "none" \/ run.docs[r] = Doc(r)
        PROVE  Others(r)' \/ excuse'[r] # "none" \/ run'.docs[r] = Doc(r)'
    <3>1. job[run.key].status = "running"
      BY <2>3 DEF Typed, TypeOK
    <3>2. \A k \in Keys : k = run.key => job[k].status = "running"
      BY <3>1
    <3> QED
      BY <2>1, <2>2, <2>2a, <2>3, <3>2 DEF Honest, Others, Doc
  <2>4. run.pc # "idle" => run.key \in Keys
    BY DEF Control, Typed, Runs
  <2> QED
    BY <2>1, <2>2, <2>3, <2>4 DEF Honest
<1>2. ASSUME NEW k \in Keys, Claim(k)
      PROVE  Current'
  <2>1. /\ run'.key = k /\ run'.docs = Nothing /\ run'.module = "enabled"
        /\ run'.pc = IF k \in Rebuilds THEN "types" ELSE IF k = Remove(k[2]) THEN "remove" ELSE "read"
    BY <1>2, IdleRun DEF Claim, Runs
  <2>2. record' = record /\ job[k].status # "none"
    BY <1>2 DEF Claim, store
  <2>3. k \notin Rebuilds => k[2] \in Records
    BY RecordKeys
  <2>4. k \notin Rebuilds /\ k = Remove(k[2]) => \A r \in Concerns(k) : Doc(r)' = 0 /\ run'.docs[r] = 0
    BY <2>1, <2>2, <2>3 DEF Gone, Doc, Nothing
  <2> QED
    BY <2>1, <2>4
<1>3. CASE ReadTypes
  BY <1>3 DEF ReadTypes, At, Typed, Runs, Excuse
<1>4. CASE Read
  <2>1. record' = record
    BY <1>4 DEF Read, store
  <2>2. run.key \in Keys /\ run'.module = "enabled"
    BY <1>4, ReadFields DEF Control, Typed, Runs
  <2>3. \A r \in Concerns(run.key) : run'.docs[r] = Doc(r)'
    BY <1>4, <2>1, <2>2, ReadFields DEF Doc
  <2> QED
    BY <1>4, <2>2, <2>3, ReadFields
<1>5. CASE Verdict \/ WorkerCrash
  BY <1>5, IdleRun DEF Verdict, WorkerCrash
<1>6. ASSUME UNCHANGED <<record, owed, job, excuse>>,
             /\ run'.key = run.key /\ run'.docs = run.docs /\ run'.module = run.module /\ run'.dry = run.dry
             /\ run'.result = "ok" => run.result = "ok" /\ run.pc \notin {"idle", "types", "read"}
      PROVE  Current'
  BY <1>6 DEF Others, Live, Doc
<1>7. ASSUME NEW r \in Records, Upsert(r)
      PROVE  Current'
  BY <1>6, <1>7 DEF Upsert, At, Typed, Runs, store
<1>8. CASE SyncFts
  <2>1. run.at \in Records
    BY <1>8 DEF SyncFts, At, Control, Typed, Runs
  <2> QED
    BY <1>6, <1>8, <2>1, AfterFields DEF SyncFts, At, store
<1>9. CASE ReadStale
  BY <1>6, <1>9 DEF ReadStale, At, Typed, Runs, store, tables
<1>10. ASSUME NEW r \in Records, RemoveDocument(r)
       PROVE  Current'
  BY <1>6, <1>10, AfterFields DEF RemoveDocument, At, store
<1>11. CASE Repair
  BY <1>6, <1>11 DEF Repair, At, Move, Typed, Runs, store
<1>12. CASE StatementFails
  <2>1. UNCHANGED <<record, owed, job, excuse>>
    BY <1>12 DEF StatementFails, store
  <2>2. CASE Rebuilding /\ run.pc \in {"index", "fts", "remove"}
    <3>1. PICK r \in IF At("fts") THEN {run.at} ELSE run.todo : After(r, "failed")
      BY <1>12, <2>2 DEF StatementFails
    <3>2. r \in Records
      BY <3>1 DEF At, Control, Typed, Runs
    <3> QED
      BY <1>6, <2>1, <3>1, <3>2, AfterFields
  <2>3. CASE ~(Rebuilding /\ run.pc \in {"index", "fts", "remove"})
    <3>1. run' = [run EXCEPT !.result = "failed", !.pc = "verdict"]
      BY <1>12, <2>3, Zenon DEF StatementFails
    <3> QED
      BY <1>6, <2>1, <3>1 DEF Typed, Runs
  <2> QED
    BY <2>2, <2>3
<1> QED
  BY <1>1, <1>2, <1>3, <1>4, <1>5, <1>7, <1>8, <1>9, <1>10, <1>11, <1>12 DEF Worker

\* The worker writes the rows of the records its job concerns, and of no others.
LEMMA WorkerScope ==
  ASSUME Typed, Control, Worker, NEW r \in Records,
         run.pc = "idle" \/ run.dry \/ r \notin Concerns(run.key)
  PROVE  index'[r] = index[r] /\ fts'[r] = fts[r] /\ excuse'[r] = excuse[r]
<1> USE KeyFacts DEF store, tables
<1>1. ASSUME NEW k \in Keys, Claim(k)
      PROVE  index' = index /\ fts' = fts /\ excuse' = excuse
  BY <1>1 DEF Claim
<1>2. CASE ReadTypes
  BY <1>2 DEF ReadTypes, At, Control, Rebuilding
<1>3. CASE Read
  BY <1>3 DEF Read, At, Excuse
<1>4. ASSUME NEW s \in Records, Upsert(s) \/ RemoveDocument(s)
      PROVE  index'[r] = index[r] /\ fts'[r] = fts[r] /\ excuse'[r] = excuse[r]
  <2>1. r # s
    BY <1>4 DEF Upsert, RemoveDocument, At, Control
  <2> QED
    BY <1>4, <2>1 DEF Upsert, RemoveDocument, Typed, TypeOK
<1>5. CASE SyncFts
  <2>1. r # run.at
    BY <1>5 DEF SyncFts, At, Control
  <2> QED
    BY <1>5, <2>1 DEF SyncFts, Typed, TypeOK
<1>6. CASE ReadStale \/ StatementFails \/ WorkerCrash
  BY <1>6 DEF ReadStale, StatementFails, WorkerCrash
<1>7. CASE Repair
  BY <1>7 DEF Repair, At, Control, Rebuilding
<1>8. CASE Verdict
  BY <1>8 DEF Verdict, At, Excuse
<1> QED
  BY <1>1, <1>2, <1>3, <1>4, <1>5, <1>6, <1>7, <1>8 DEF Worker

\* The verdict on a job leaves each of its records with other work, a known gap or a fresh row.
LEMMA VerdictConverges ==
  ASSUME Typed, Control, Dryness, Progress, Current, Verdict, ~run.dry, NEW r \in Concerns(run.key)
  PROVE  Outstanding(r)' \/ excuse'[r] # "none" \/ Fresh(r)'
<1> USE KeyFacts DEF store, tables
<1>1. run.pc = "verdict" /\ run.key \in Keys /\ r \in Records
  BY DEF Verdict, At, Control, Typed, Runs
<1>2. record' = record /\ index' = index /\ fts' = fts /\ owed' = owed
  BY DEF Verdict
<1>3. CASE run.result = "failed"
  <2> DEFINE retry == run.result = "failed" /\ job[run.key].tries < MaxAttempts
  <2>1. /\ job' = [job EXCEPT ![run.key] = IF retry THEN [@ EXCEPT !.status = "queued"] ELSE NoJob]
        /\ excuse' = IF run.result = "failed" /\ ~retry THEN Excuse(Concerns(run.key), "dead") ELSE excuse
    BY Zenon DEF Verdict
  <2>2. CASE retry
    <3>1. job' = [job EXCEPT ![run.key] = [job[run.key] EXCEPT !.status = "queued"]]
      BY <1>1, <2>1, <2>2 DEF Typed
    <3>2. job'[run.key] = [job[run.key] EXCEPT !.status = "queued"]
      BY <1>1, <3>1 DEF Typed
    <3>3. job[run.key] \in JobRows
      BY <1>1 DEF Typed
    <3>4. job'[run.key].status = "queued" /\ ~job'[run.key].dry
      BY <1>1, <3>2, <3>3 DEF JobRows, Dryness
    <3> QED
      BY <1>1, <3>4 DEF Outstanding, Live
  <2>3. CASE ~retry
    <3>1. excuse' = Excuse(Concerns(run.key), "dead")
      BY <1>3, <2>1, <2>3
    <3> QED
      BY <1>1, <3>1 DEF Excuse
  <2> QED
    BY <2>2, <2>3
<1>4. CASE run.result = "ok"
  <2>1. excuse' = excuse
    BY <1>4 DEF Verdict
  <2>2. CASE run.module = "disabled"
    BY <1>1, <2>1, <2>2 DEF Current
  <2>3. CASE run.module = "enabled"
    <3>1. Wrote(r)
      BY <1>1, <1>4, <2>3 DEF Progress
    <3>2. Others(r) \/ excuse[r] # "none" \/ run.docs[r] = Doc(r)
      BY <1>1, <1>4, <2>3 DEF Current
    <3>3. \A k \in Keys : k # run.key => job'[k] = job[k]
      BY <1>1 DEF Verdict, Typed
    <3>4. Others(r) => Outstanding(r)'
      BY <1>2, <3>3 DEF Others, Outstanding, Live
    <3>5. Fresh(r)' <=> Fresh(r)
      BY <1>2 DEF Fresh, Doc
    <3> QED
      BY <2>1, <3>1, <3>2, <3>4, <3>5 DEF Wrote, Fresh
  <2> QED
    BY <2>2, <2>3 DEF Typed, Runs
<1> QED
  BY <1>3, <1>4 DEF Typed, Runs

LEMMA NextConverged ==
  ASSUME Typed, Control, Dryness, Progress, Current, Converged, [Next]_vars
  PROVE  Converged'
<1> USE KeyFacts
<1> SUFFICES ASSUME NEW r \in Records
             PROVE  Outstanding(r)' \/ excuse'[r] # "none" \/ Fresh(r)'
  BY DEF Converged
<1>1. Outstanding(r) \/ excuse[r] # "none" \/ Fresh(r)
  BY DEF Converged
<1>2. CASE ~Worker
  <2>1. Honest(r) /\ index' = index /\ fts' = fts
    BY <1>2, WebHonest, OnlyWorker
  <2>2. Outstanding(r) => Outstanding(r)' \/ excuse'[r] # "none"
    BY <2>1 DEF Honest, Outstanding
  <2>3. Fresh(r) => Fresh(r)' \/ Outstanding(r)'
    BY <2>1 DEF Honest, Outstanding, Fresh, Doc
  <2> QED
    BY <1>1, <2>1, <2>2, <2>3 DEF Honest
<1>3. CASE Worker
  <2>1. CASE run.pc # "idle" /\ ~run.dry /\ r \in Concerns(run.key)
    <3>1. run.key \in Keys /\ Live(run.key)
      BY <2>1 DEF Control, Dryness, Live, Typed, TypeOK, Runs
    <3>2. CASE Verdict
      BY <2>1, <3>2, VerdictConverges
    <3>3. CASE ~Verdict
      BY <1>3, <2>1, <3>1, <3>3, WorkerKeeps DEF Outstanding
    <3> QED
      BY <3>2, <3>3
  <2>2. CASE run.pc = "idle" \/ run.dry \/ r \notin Concerns(run.key)
    <3>1. index'[r] = index[r] /\ fts'[r] = fts[r] /\ excuse'[r] = excuse[r]
      BY <1>3, <2>2, WorkerScope
    <3>2. Fresh(r)' <=> Fresh(r)
      BY <1>3, <3>1, WorkerKeeps DEF Fresh, Doc
    <3>3. \A k \in Keys : r \in Concerns(k) /\ Live(k) => Live(k)'
      <4>1. CASE run.pc = "idle"
        BY <1>3, <4>1, WorkerKeeps DEF Verdict, At
      <4>2. CASE r \notin Concerns(run.key)
        BY <1>3, <4>2, WorkerKeeps
      <4>3. CASE run.pc # "idle" /\ run.dry
        <5>1. ~Live(run.key)
          BY <4>3 DEF Dryness, Live
        <5> QED
          BY <1>3, <5>1, WorkerKeeps
      <4> QED
        BY <2>2, <4>1, <4>2, <4>3
    <3>4. Outstanding(r) => Outstanding(r)'
      BY <1>3, <3>3, WorkerKeeps DEF Outstanding
    <3> QED
      BY <1>1, <3>1, <3>2, <3>4
  <2> QED
    BY <2>1, <2>2
<1> QED
  BY <1>2, <1>3

-----------------------------------------------------------------------------
(* Theorems *)

SearchInv == Typed /\ Dryness /\ Control /\ Progress /\ Gone /\ Current /\ Converged

LEMMA InitInv == Init => SearchInv
<1> SUFFICES ASSUME Init PROVE SearchInv
  OBVIOUS
<1>1. Typed
  BY InitTyped
<1>2. run = Idle
  BY DEF Init
<1>3. Control /\ Dryness /\ Progress /\ Current
  BY <1>2, IdleRun, KeyFacts DEF Init, NoJob, Dryness, Control, Progress, Current, Rebuilding, Rebuilds
<1>4. Gone
  BY KeyFacts DEF Init, Gone, NoJob
<1>5. Converged
  <2>1. PICK old \in SUBSET Records :
          /\ record = [r \in Records |-> IF r \in old THEN [status |-> "shown", version |-> 1]
                                                    ELSE [status |-> "absent", version |-> 0]]
          /\ excuse = [r \in Records |-> IF r \in old THEN "restored" ELSE "none"]
    BY DEF Init
  <2>2. \A r \in Records : excuse[r] = "none" => record[r].status = "absent"
    BY <2>1
  <2> QED
    BY <2>2 DEF Init, Converged, Fresh, Doc, Nothing
<1> QED
  BY <1>1, <1>3, <1>4, <1>5 DEF SearchInv

\* The inductive invariant: what each step of a job has achieved, and that what it has read is
\* still what the record says unless other work or a known gap stands for the difference.
THEOREM InvariantHolds == Spec => []SearchInv
<1>1. ASSUME SearchInv, [Next]_vars
      PROVE  SearchInv'
  BY <1>1, NextTyped, NextDryness, NextControl, NextProgress, NextGone, NextCurrent, NextConverged DEF SearchInv
<1> QED
  BY <1>1, InitInv, PTL DEF Spec

\* Every variable keeps its type; a row is active while it is claimed.
THEOREM TypeCorrect == Spec => []TypeOK
<1>1. SearchInv => TypeOK
  BY DEF SearchInv, Typed
<1> QED
  BY <1>1, InvariantHolds, PTL

\* When nothing is left to do for a record, the index agrees with it or a known gap explains why
\* not, whatever the order in which its jobs ran, failed and were repeated.
THEOREM IndexConverges == Spec => []Converged
<1>1. SearchInv => Converged
  BY DEF SearchInv
<1> QED
  BY <1>1, InvariantHolds, PTL

\* A rebuild that was not dry and is recorded as successful leaves no old difference behind.
THEOREM RebuildsHeal == Spec => RebuildHeals
<1>1. ASSUME SearchInv, [Next]_vars
      PROVE  \A k \in Rebuilds : Heals(k)
  <2> SUFFICES ASSUME NEW k \in Rebuilds, run.key = k, run.module = "enabled", ~run.dry, run.result = "ok",
                      job'[k].status = "none", NEW r \in Records, run.docs[r] = Doc(r)
               PROVE  Fresh(r)
    BY DEF Heals
  <2>1. k \in Keys /\ Concerns(k) = Records /\ job[k].status = "running" /\ run.pc # "idle"
    BY <1>1, KeyFacts DEF SearchInv, Typed, TypeOK, Control
  <2>2. Worker
    BY <1>1, <2>1, RunningKept DEF SearchInv
  <2>3. Verdict
    BY <1>1, <2>1, <2>2, WorkerKeeps DEF SearchInv
  <2>4. Wrote(r)
    BY <1>1, <2>1, <2>3 DEF SearchInv, Progress, Verdict, At
  <2> QED
    BY <2>4 DEF Wrote, Fresh
<1> QED
  BY <1>1, InvariantHolds, PTL DEF Spec, RebuildHeals
=============================================================================
