--------------------------- MODULE TaskRecurrence ---------------------------
(***************************************************************************)
(* One recurring task: its template, the instances (one per date),         *)
(* and everybody who creates them.  Users complete, touch, skip, archive   *)
(* and edit through the web process; the worker runs the generation job    *)
(* of a completed instance and the sweep that revives stalled chains.  A   *)
(* process is between two statements while its record in "act" says so.    *)
(*                                                                         *)
(* Dates are numbers, 0 for none.  A rule is the part of a template that   *)
(* says which dates occur: the anchor, the end and the days in between.    *)
(* What a template hands to an instance (checklist items, then note        *)
(* links) is counted in statements.  Users are permitted what they ask,    *)
(* and no timers run on the instances (see ActiveTimers).                  *)
(*                                                                         *)
(* A task that is taken out of the series ("this task only") leaves the    *)
(* model: what is still done to it or for it no longer touches the series. *)
(*                                                                         *)
(* A chain may stand still: "cause" records why an instance has no         *)
(* successor.                                                              *)
(*                                                                         *)
(* Operators named "Mutant..." are seeded faults: each stands before the   *)
(* definition it would replace.  Nothing else refers to them.              *)
(***************************************************************************)
EXTENDS Integers, FiniteSetsExt

CONSTANTS
  Users,        \* numbers of the browser requests that may be in flight together
  LastDate,     \* bound: the last date of any rule
  Rules,        \* what users choose: anchor date, end date and interval
  Copies,       \* statements that give an instance its checklist and note links
  MaxAttempts,  \* max_attempts of a recurrence job
  MaxDay,       \* bound: the calendar
  MaxRequests,  \* bound: requests of all users after the creation
  MaxFaults     \* bound: failing statements and process deaths

ASSUME BoundAssumption ==
  /\ Users \subseteq Nat \ {0}
  /\ LastDate \in Nat \ {0} /\ MaxDay \in Nat \ {0}
  /\ Rules \subseteq [anchor : 1..LastDate, last : 1..LastDate, step : 1..LastDate]
  /\ Copies \in Nat \ {0} /\ MaxAttempts \in Nat \ {0}
  /\ MaxRequests \in Nat /\ MaxFaults \in Nat

VARIABLES
  template,  \* task_recurrence_templates: status, rule, recovery checkpoint
  task,      \* the instance of each date
  gen,       \* the generation job of each completed instance
  sweep,     \* the sweep job that is due
  later,     \* whether a sweep is queued for twelve hours from now
  act,       \* what each process is in the middle of
  today, requests, faults,
  cause,     \* why an instance has no successor
  torn       \* instances whose creation was cut short

records == <<template, task>>
jobs == <<gen, sweep, later>>
ghosts == <<cause, torn>>
bounds == <<today, requests, faults>>
vars == <<records, jobs, act, bounds, ghosts>>

Dates == 1..LastDate
None == 0
Worker == 0
Procs == Users \union {Worker}

NoRule == [anchor |-> None, last |-> None, step |-> 1]
NoTemplate == [status |-> "none", rule |-> NoRule, checkpoint |-> None]

Idle == [op |-> "none", pc |-> "idle", src |-> None, date |-> None, ids |-> {}, rule |-> NoRule]
Doing(op, pc, src, date, ids) ==
  [op |-> op, pc |-> pc, src |-> src, date |-> date, ids |-> ids, rule |-> NoRule]
NoJob == [status |-> "none", tries |-> 0]
FreshJob == [status |-> "queued", tries |-> 0]
Absent == [status |-> "absent", done |-> FALSE, copied |-> 0, announced |-> 0]
Whole == [status |-> "open", done |-> FALSE, copied |-> Copies, announced |-> 1]

Exists(d) == task[d].status # "absent"
Open == {d \in Dates : task[d].status = "open"}
Existing == {d \in Dates : Exists(d)}
First(S) == IF S = {} THEN None ELSE Min(S)
Latest == IF Existing = {} THEN None ELSE Max(Existing)
AtLeast(a, b) == IF a < b THEN b ELSE a

\* nextOccurrenceDate, repeated: the occurrences after d up to the end, counted from d.
After(d) ==
  LET rule == template.rule
  IN {e \in Dates : e > d /\ e <= rule.last /\ (e - d) % rule.step = 0}

\* projectOccurrenceDates: what the rule schedules, counted from the anchor.
Occurrences == {d \in {template.rule.anchor} \union After(template.rule.anchor) : d <= template.rule.last}

\* nextTemplateOccurrenceDate: the first occurrence after d that the checkpoint does not suppress.
NextDate(d) == First({e \in After(d) : e >= template.checkpoint})

MutantSweepDate ==
  IF Existing = {} THEN template.rule.anchor ELSE AtLeast(Latest + 1, AtLeast(today, template.checkpoint))

\* The date ensureUpcomingInstance gives a chain without an open instance.
SweepDate ==
  LET floor == AtLeast(today, template.checkpoint)
      start == IF Existing = {} THEN template.rule.anchor ELSE Latest
  IN IF Existing = {} /\ start >= floor THEN start
     ELSE First({e \in After(start) : e >= floor})

\* nextNotPassedOccurrenceDate: the first scheduled occurrence that is not over.
CurrentDate ==
  LET anchor == template.rule.anchor
  IN First({e \in {anchor} \union After(anchor) : e >= template.checkpoint /\ e >= today})

\* A new workspace, or a series whose first instances are open (the second was touched early).
Init ==
  /\ \/ template = NoTemplate
     \/ \E rule \in Rules : template = [status |-> "active", rule |-> rule, checkpoint |-> None]
  /\ \E open \in IF template.status = "none" THEN {{}}
                 ELSE {{template.rule.anchor}, {template.rule.anchor, NextDate(template.rule.anchor)} \ {None}} :
       task = [d \in Dates |-> IF d \in open THEN Whole ELSE Absent]
  /\ gen = [d \in Dates |-> NoJob]
  /\ sweep = FreshJob /\ later = FALSE
  /\ act = [p \in Procs |-> Idle]
  /\ today = 1 /\ requests = 0 /\ faults = 0
  /\ cause = [d \in Dates |-> "none"]
  /\ torn = {}

-----------------------------------------------------------------------------
(* Requests *)

\* Requests are alike: a new one takes the first free number.
Free(u) == act[u] = Idle /\ \A v \in Users : v < u => act[v] # Idle

Request(u) ==
  /\ Free(u)
  /\ requests < MaxRequests /\ requests' = requests + 1

Becomes(p, a) == act' = [act EXCEPT ![p] = a]

\* A user saves a task with recurrence: first the template is inserted ...
CreateTemplate(u, rule) ==
  /\ Free(u)
  /\ template.status = "none"
  /\ template' = [status |-> "active", rule |-> rule, checkpoint |-> None]
  /\ Becomes(u, Doing("create", "first", None, rule.anchor, {}))
  /\ UNCHANGED <<task, jobs, bounds, ghosts>>

\* ... then the task, which fails if the sweep has created that instance meanwhile.
CreateFirst(u) ==
  /\ act[u].pc = "first"
  /\ LET d == act[u].date
     IN IF Exists(d)
          THEN Becomes(u, Idle) /\ UNCHANGED task
          ELSE /\ task' = [task EXCEPT ![d] = [Absent EXCEPT !.status = "open", !.copied = Copies]]
               /\ Becomes(u, [act[u] EXCEPT !.pc = "announce"])
  /\ UNCHANGED <<template, jobs, bounds, ghosts>>

\* complete(), or update() to the status complete.
Complete(u, d) ==
  /\ Request(u)
  /\ task[d].status \in {"open", "complete"}
  /\ task' = [task EXCEPT ![d].status = "complete", ![d].done = TRUE]
  /\ Becomes(u, Doing("complete", "handoff", d, None, {}))
  /\ UNCHANGED <<template, jobs, today, faults, ghosts>>

\* Why there is nothing to hand over to.
NoSuccessor(next) ==
  IF template.status # "active" THEN "paused" ELSE IF next = None THEN "ended" ELSE "none"

MutantHandoff(u) ==
  /\ act[u].pc = "handoff"
  /\ LET d == act[u].src
         enough == template.status # "active" \/ NextDate(d) = None \/ Open # {}
     IN /\ cause' = [cause EXCEPT ![d] = NoSuccessor(NextDate(d))]
        /\ Becomes(u, IF enough THEN Idle ELSE [act[u] EXCEPT !.pc = "enqueue"])
  /\ UNCHANGED <<records, jobs, bounds, torn>>

\* prepareCompletionContinuity: nothing to queue if the series has ended or the next exists.
Handoff(u) ==
  /\ act[u].pc = "handoff"
  /\ LET d == act[u].src
         next == NextDate(d)
         enough == template.status # "active" \/ next = None \/ next \in Existing
     IN /\ cause' = [cause EXCEPT ![d] = NoSuccessor(next)]
        /\ Becomes(u, IF enough THEN Idle ELSE [act[u] EXCEPT !.pc = "enqueue"])
  /\ UNCHANGED <<records, jobs, bounds, torn>>

\* queueTaskRecurrenceGeneration; a request for a running job is dropped.
Enqueue(u) ==
  /\ act[u].pc = "enqueue"
  /\ LET d == act[u].src
     IN \/ gen[d].status = "queued" /\ UNCHANGED <<gen, cause>>
        \/ gen[d].status = "running" /\ cause' = [cause EXCEPT ![d] = "dropped"] /\ UNCHANGED gen
        \/ gen[d].status \in {"none", "dead"} /\ gen' = [gen EXCEPT ![d] = FreshJob] /\ UNCHANGED cause
  /\ Becomes(u, Idle)
  /\ UNCHANGED <<records, sweep, later, bounds, torn>>

\* materializeRecurrenceInstance: somebody opens a planned occurrence in the calendar.
Touch(u, d) ==
  /\ Request(u)
  /\ ~Exists(d)
  /\ template.status = "active"
  /\ d \in Occurrences /\ d >= template.checkpoint
  /\ Becomes(u, Doing("touch", "insert", None, d, {}))
  /\ UNCHANGED <<records, jobs, today, faults, ghosts>>

\* skipToCurrent: the plan is read first, and keeps the rule it was made with.
Skip(u) ==
  /\ Request(u)
  /\ template.status = "active" /\ Existing # {}
  /\ LET target == CurrentDate
         until == IF target = None THEN today + 1 ELSE target
         earlier == {d \in Open : d < until}
         plan == Doing("skip", IF target = None THEN "end" ELSE "skip", None, until, earlier)
     IN /\ earlier # {} \/ \E d \in Occurrences : d >= template.checkpoint /\ d < until /\ ~Exists(d)
        /\ Becomes(u, [plan EXCEPT !.rule = template.rule])
  /\ UNCHANGED <<records, jobs, today, faults, ghosts>>

\* recoverRecurrenceToCurrent: one transaction, refused if the series has changed.
SkipCommit(u) ==
  /\ act[u].pc \in {"skip", "end"}
  /\ LET a == act[u]
         earlier == {d \in Open : d < a.date}
         valid == /\ template.status = "active" /\ template.rule = a.rule
                  /\ template.checkpoint <= a.date /\ earlier \subseteq a.ids
         created == valid /\ a.pc = "skip" /\ ~Exists(a.date)
     IN /\ template' = IF valid THEN [template EXCEPT !.checkpoint = a.date] ELSE template
        /\ task' = [d \in Dates |->
             IF valid /\ d \in earlier THEN [task[d] EXCEPT !.status = "complete", !.done = TRUE]
             ELSE IF created /\ d = a.date THEN [Absent EXCEPT !.status = "open"]
             ELSE task[d]]
        /\ cause' = [d \in Dates |-> IF valid /\ a.pc = "end" /\ d \in earlier THEN "ended" ELSE cause[d]]
        /\ Becomes(u, IF created THEN Doing("skip", "copy", None, a.date, {}) ELSE Idle)
  /\ UNCHANGED <<jobs, bounds, torn>>

\* A save with "All Future": the template is paused or resumed and gets the rule of the form.
Edit(u, status, rule) ==
  /\ Request(u)
  /\ Existing # {}
  /\ template' = [template EXCEPT !.status = status, !.rule = rule]
  /\ UNCHANGED <<task, jobs, act, today, faults, ghosts>>

\* What follows for a process whose instance is there.
Done(p) == IF act[p].op = "sweep" THEN [act[p] EXCEPT !.pc = "successor"]
           ELSE IF act[p].op = "generate" THEN [act[p] EXCEPT !.pc = "verdict"]
           ELSE Idle

\* What is left to do for the series when the task of date d is no longer in it: its creator
\* is through, its completion has no successor, its generation goes on with the dates it has read.
Without(p, d) ==
  LET a == IF act[p].pc \in {"copy", "announce"} /\ act[p].date = d THEN Done(p)
           ELSE IF act[p].pc \in {"handoff", "enqueue"} /\ act[p].src = d THEN Idle
           ELSE act[p]
  IN [a EXCEPT !.src = IF @ = d THEN None ELSE @, !.ids = @ \ {d}]

\* Recurrence is turned off for one task: it leaves the series, and its date is free again.
\* Its generation job finds it outside; the job's key has the task's id, no later task's.
Detach(u, d) ==
  /\ Request(u)
  /\ Exists(d)
  /\ task' = [task EXCEPT ![d] = Absent]
  /\ gen' = [gen EXCEPT ![d] = NoJob]
  /\ act' = [p \in Procs |-> Without(p, d)]
  /\ torn' = torn \ {d}
  /\ LET rest == Existing \ {d}
     IN cause' = [e \in Dates |-> IF e = d THEN "none"
                                 ELSE IF d = Latest /\ rest # {} /\ e = Max(rest) THEN "detached"
                                 ELSE cause[e]]
  /\ UNCHANGED <<template, sweep, later, today, faults>>

\* Archiving an instance does not ask for a successor.
Archive(u, d) ==
  /\ Request(u)
  /\ task[d].status \in {"open", "complete"}
  /\ task' = [task EXCEPT ![d].status = "archived"]
  /\ cause' = [cause EXCEPT ![d] = IF task[d].status = "open" THEN "archived" ELSE @]
  /\ UNCHANGED <<template, jobs, act, today, faults, torn>>

Restore(u, d) ==
  /\ Request(u)
  /\ task[d].status = "archived"
  /\ task' = [task EXCEPT ![d].status = IF task[d].done THEN "complete" ELSE "open"]
  /\ UNCHANGED <<template, jobs, act, today, faults, ghosts>>

Reopen(u, d) ==
  /\ Request(u)
  /\ task[d].status = "complete"
  /\ task' = [task EXCEPT ![d].status = "open", ![d].done = FALSE]
  /\ UNCHANGED <<template, jobs, act, today, faults, ghosts>>

-----------------------------------------------------------------------------
(* Creating an instance: the same for a request and for a job *)

MutantInsert(p) ==
  /\ act[p].pc = "insert"
  /\ LET d == act[p].date
     IN /\ task' = [task EXCEPT ![d].status = IF Exists(d) THEN @ ELSE "open"]
        /\ Becomes(p, [act[p] EXCEPT !.pc = "copy"])
  /\ UNCHANGED <<template, jobs, bounds, ghosts>>

\* createRecurrenceInstance: insert, or find that somebody else was faster.
Insert(p) ==
  /\ act[p].pc = "insert"
  /\ LET d == act[p].date
     IN IF Exists(d)
          THEN Becomes(p, Done(p)) /\ UNCHANGED task
          ELSE /\ task' = [task EXCEPT ![d] = [Absent EXCEPT !.status = "open"]]
               /\ Becomes(p, [act[p] EXCEPT !.pc = "copy"])
  /\ UNCHANGED <<template, jobs, bounds, ghosts>>

Copy(p) ==
  /\ act[p].pc = "copy"
  /\ LET d == act[p].date
     IN /\ task' = [task EXCEPT ![d].copied = @ + 1]
        /\ Becomes(p, [act[p] EXCEPT !.pc = IF task[d].copied + 1 >= Copies THEN "announce" ELSE "copy"])
  /\ UNCHANGED <<template, jobs, bounds, ghosts>>

\* Audit, event, search request and reminders.
Announce(p) ==
  /\ act[p].pc = "announce"
  /\ task' = [task EXCEPT ![act[p].date].announced = @ + 1]
  /\ Becomes(p, Done(p))
  /\ UNCHANGED <<template, jobs, bounds, ghosts>>

-----------------------------------------------------------------------------
(* The worker *)

\* A row that is still running was left by a worker that died.
Claimed(job) == [status |-> "running", tries |-> job.tries + 1]
Claimable(job) == job.status \in {"queued", "running"}

\* createNextInstance, right after the claim, reads the template and picks the date.
Generate(d) ==
  /\ act[Worker] = Idle
  /\ Claimable(gen[d])
  /\ gen' = [gen EXCEPT ![d] = Claimed(@)]
  /\ LET next == NextDate(d)
         active == template.status = "active"
     IN /\ cause' = [cause EXCEPT ![d] = IF active /\ next # None THEN @ ELSE NoSuccessor(next)]
        /\ Becomes(Worker, IF active /\ next # None THEN Doing("generate", "insert", d, next, {})
                                                    ELSE Doing("generate", "verdict", d, None, {}))
  /\ UNCHANGED <<records, sweep, later, bounds, torn>>

MutantSweep ==
  /\ act[Worker] = Idle
  /\ Claimable(sweep)
  /\ sweep' = Claimed(sweep)
  /\ Becomes(Worker, IF template.status = "active" /\ Existing = {} /\ SweepDate # None
                       THEN Doing("sweep", "insert", None, SweepDate, {})
                       ELSE Doing("sweep", "successor", None, None, {}))
  /\ UNCHANGED <<records, gen, later, bounds, ghosts>>

\* backfillStalledRecurrencesForWorkspace: only a chain without an open instance is revived.
Sweep ==
  /\ act[Worker] = Idle
  /\ Claimable(sweep)
  /\ sweep' = Claimed(sweep)
  /\ Becomes(Worker, IF template.status = "active" /\ Open = {} /\ SweepDate # None
                       THEN Doing("sweep", "insert", None, SweepDate, {})
                       ELSE Doing("sweep", "successor", None, None, {}))
  /\ UNCHANGED <<records, gen, later, bounds, ghosts>>

\* The sweep queues the next one when it is through, whatever it found, and is completed.
QueueSuccessor ==
  /\ act[Worker].pc = "successor"
  /\ later' = TRUE
  /\ sweep' = NoJob
  /\ Becomes(Worker, Idle)
  /\ UNCHANGED <<records, gen, bounds, ghosts>>

\* markJobCompleted.
Verdict ==
  /\ act[Worker].pc = "verdict"
  /\ gen' = [d \in Dates |-> IF d = act[Worker].src THEN NoJob ELSE gen[d]]
  /\ Becomes(Worker, Idle)
  /\ UNCHANGED <<records, sweep, later, bounds, ghosts>>

\* Twelve hours pass.  By then the sweep before has been judged.
SweepDue ==
  /\ later /\ ~Claimable(sweep)
  /\ later' = FALSE
  /\ sweep' = FreshJob
  /\ UNCHANGED <<records, gen, act, bounds, ghosts>>

NewDay ==
  /\ today < MaxDay /\ today' = today + 1
  /\ UNCHANGED <<records, jobs, act, requests, faults, ghosts>>

-----------------------------------------------------------------------------
(* Faults *)

Fault == faults < MaxFaults /\ faults' = faults + 1

\* What stays behind when the processes in S stop where they are.
Abandoned(S) ==
  /\ torn' = torn \union {act[p].date : p \in {q \in S : act[q].pc \in {"copy", "announce"}}}
  /\ LET lost == {act[p].src : p \in {q \in S : act[q].pc \in {"handoff", "enqueue"}}}
     IN cause' = [d \in Dates |-> IF d \in lost THEN "lost" ELSE cause[d]]

\* A request's statement fails; completeRecurrenceHandoff reports "handoff_failed" and no more.
RequestFails(u) ==
  /\ Fault /\ act[u] # Idle
  /\ Abandoned({u})
  /\ Becomes(u, Idle)
  /\ UNCHANGED <<records, jobs, today, requests>>

Judged(job) == [job EXCEPT !.status = IF job.tries >= MaxAttempts THEN "dead" ELSE "queued"]

\* A job's statement fails: retry or dead.
JobFails ==
  /\ Fault /\ act[Worker] # Idle
  /\ torn' = torn \union (IF act[Worker].pc \in {"copy", "announce"} THEN {act[Worker].date} ELSE {})
  /\ IF act[Worker].op = "sweep"
       THEN sweep' = Judged(sweep) /\ UNCHANGED <<gen, cause>>
       ELSE LET src == act[Worker].src
            IN /\ gen' = [d \in Dates |-> IF d = src THEN Judged(gen[d]) ELSE gen[d]]
               /\ cause' = [d \in Dates |-> IF d = src /\ gen'[d].status = "dead" THEN "dead" ELSE cause[d]]
               /\ UNCHANGED sweep
  /\ Becomes(Worker, Idle)
  /\ UNCHANGED <<records, later, today, requests>>

\* Each start queues a sweep at once (queueTaskRecurrenceSweepJobs).
StartupSweep ==
  sweep' = IF sweep.status \in {"queued", "running"} THEN sweep ELSE FreshJob

WebCrash ==
  /\ Fault
  /\ Abandoned(Users)
  /\ act' = [p \in Procs |-> IF p \in Users THEN Idle ELSE act[p]]
  /\ StartupSweep
  /\ UNCHANGED <<records, gen, later, today, requests>>

WorkerCrash ==
  /\ Fault
  /\ Abandoned({Worker})
  /\ Becomes(Worker, Idle)
  /\ StartupSweep
  /\ UNCHANGED <<records, gen, later, today, requests>>

-----------------------------------------------------------------------------

Create(p) == Insert(p) \/ Copy(p) \/ Announce(p)

Proceed(u) == CreateFirst(u) \/ Handoff(u) \/ Enqueue(u) \/ SkipCommit(u) \/ Create(u)

WorkerStep ==
  \/ \E d \in Dates : Generate(d)
  \/ Sweep
  \/ Create(Worker)
  \/ QueueSuccessor \/ Verdict

Asks(u) ==
  \/ \E rule \in Rules : CreateTemplate(u, rule)
  \/ \E rule \in Rules, status \in {"active", "paused"} : Edit(u, status, rule)
  \/ \E d \in Dates : \/ Complete(u, d) \/ Touch(u, d)
                      \/ Archive(u, d) \/ Restore(u, d) \/ Reopen(u, d)
                      \/ Detach(u, d)
  \/ Skip(u)

Next ==
  \/ \E u \in Users : Asks(u) \/ Proceed(u) \/ RequestFails(u)
  \/ WorkerStep \/ JobFails
  \/ SweepDue \/ NewDay
  \/ WebCrash \/ WorkerCrash

Spec == Init /\ [][Next]_vars

FairSpec ==
  /\ Spec
  /\ \A u \in Users : WF_vars(Proceed(u))
  /\ WF_vars(WorkerStep) /\ WF_vars(SweepDue)

-----------------------------------------------------------------------------
(* Properties *)

Boundaries == 0..(AtLeast(MaxDay, LastDate) + 1)
Acts ==
  [op : {"none", "create", "complete", "touch", "skip", "generate", "sweep"},
   pc : {"idle", "first", "handoff", "enqueue", "skip", "end", "insert", "copy", "announce",
         "successor", "verdict"},
   src : Dates \union {None}, date : Boundaries, ids : SUBSET Dates, rule : Rules \union {NoRule}]
Jobs == [status : {"none", "queued", "running", "dead"}, tries : Nat]

\* Every variable has its type, and nobody creates an instance outside the recurrence.
TypeOK ==
  /\ template \in [status : {"none", "active", "paused"}, rule : Rules \union {NoRule}, checkpoint : Boundaries]
  /\ task \in [Dates -> [status : {"absent", "open", "complete", "archived"}, done : BOOLEAN,
                         copied : Nat, announced : Nat]]
  /\ gen \in [Dates -> Jobs] /\ sweep \in Jobs /\ later \in BOOLEAN
  /\ act \in [Procs -> Acts]
  /\ \A p \in Procs : act[p].pc \in {"first", "insert", "copy", "announce"} => act[p].date \in Dates
  /\ today \in 1..MaxDay /\ requests \in 0..MaxRequests /\ faults \in 0..MaxFaults
  /\ cause \in [Dates -> {"none", "paused", "ended", "archived", "detached", "dropped", "lost", "dead"}]
  /\ torn \subseteq Dates

\* However many touch, generate, sweep and skip to one date at once, the instance gets the
\* template's checklist and links exactly once and is announced exactly once, unless its
\* creator was cut short (a retry finds the instance and does not finish it).
OnceOnly ==
  \A d \in Existing :
    LET busy == \E p \in Procs : act[p].date = d /\ act[p].pc \in {"copy", "announce"}
    IN /\ task[d].copied <= Copies /\ task[d].announced <= 1
       /\ busy \/ d \in torn \/ (task[d].copied = Copies /\ task[d].announced = 1)

AtRest ==
  /\ \A p \in Procs : act[p] = Idle
  /\ \A d \in Dates : ~Claimable(gen[d])

\* When nothing is in flight, an active chain without an open instance is accounted for: its
\* last instance was completed while paused or at the end its rule then had, or archived, or
\* the task after it was taken out of the series, or its generation was lost, dropped or dead.
ChainAccounted ==
  AtRest /\ template.status = "active" /\ Existing # {} /\ Open = {} => cause[Latest] # "none"

Stalled == template.status = "active" /\ Open = {} /\ SweepDate # None
NoSweep == sweep.status = "dead" /\ ~later

\* A stalled chain is revived by a sweep, whatever stalled it, unless the sweeps have died out.
ChainHeals == Stalled ~> (~Stalled \/ NoSweep)
=============================================================================
