------------------------ MODULE TaskRecurrenceProofs ------------------------
(***************************************************************************)
(* TaskRecurrence keeps its types, finishes an instance once, and accounts *)
(* for every chain that stands still.                                      *)
(***************************************************************************)
EXTENDS TaskRecurrence, TLAPS, WellFoundedInduction

-----------------------------------------------------------------------------
(* Dates *)

LEMMA MinFacts ==
  ASSUME NEW S \in SUBSET Nat, S # {}
  PROVE  Min(S) \in S /\ \A y \in S : Min(S) <= y
<1>1. PICK x \in S : \A y \in S : ~ (<<y, x>> \in OpToRel(<, Nat))
  BY NatLessThanWellFounded, WFMin
<1>2. \A y \in S : ~ (y < x)
  BY <1>1 DEF OpToRel
<1>3. \A y \in S : x <= y
  BY <1>2
<1> QED
  BY <1>3 DEF Min

LEMMA FirstFacts ==
  ASSUME NEW S \in SUBSET Dates
  PROVE  /\ First(S) \in S \union {None}
         /\ First(S) = None => S = {}
<1>1. Dates \subseteq Nat /\ None \notin Dates
  BY BoundAssumption DEF Dates, None
<1>2. S # {} => Min(S) \in S
  BY <1>1, MinFacts
<1> QED
  BY <1>1, <1>2 DEF First

\* The latest instance is one that exists, and none is later.
LEMMA LatestFacts ==
  ASSUME Existing # {}
  PROVE  Latest \in Existing /\ \A e \in Existing : e <= Latest
<1> DEFINE Rest == {LastDate - e : e \in Existing}
<1>1. Existing \subseteq Dates /\ LastDate \in Nat
  BY BoundAssumption DEF Existing
<1>2. \A e \in Existing : e \in Nat /\ LastDate - e \in Nat
  BY <1>1 DEF Dates
<1>8. Rest \in SUBSET Nat /\ Rest # {}
  BY <1>2
<1>3. Min(Rest) \in Rest /\ \A y \in Rest : Min(Rest) <= y
  BY <1>8, MinFacts
<1>4. PICK m \in Existing : Min(Rest) = LastDate - m
  BY <1>3
<1>5. ASSUME NEW e \in Existing PROVE e <= m
  <2>1. LastDate - e \in Rest
    OBVIOUS
  <2>2. LastDate - m <= LastDate - e
    BY <1>3, <1>4, <2>1
  <2> QED
    BY <1>1, <1>2, <2>2
<1>6. \E x \in Existing : \A y \in Existing : y <= x
  BY <1>5
<1>7. Max(Existing) \in Existing /\ \A e \in Existing : e <= Max(Existing)
  BY <1>6 DEF Max
<1> QED
  BY <1>7 DEF Latest

LEMMA NextFacts ==
  ASSUME NEW d \in Dates
  PROVE  /\ NextDate(d) \in Dates \union {None}
         /\ NextDate(d) # None => NextDate(d) > d
<1> DEFINE S == {e \in After(d) : e >= template.checkpoint}
<1>1. S \subseteq Dates /\ \A e \in S : e > d
  BY DEF After
<1>2. First(S) \in S \union {None}
  BY <1>1, FirstFacts
<1>3. NextDate(d) = First(S)
  BY DEF NextDate
<1> QED
  BY <1>1, <1>2, <1>3

LEMMA RuleFacts == \A rule \in Rules : rule.anchor \in Dates
BY BoundAssumption DEF Dates

LEMMA PlanFacts ==
  ASSUME template.rule \in Rules
  PROVE  CurrentDate \in Dates \union {None} /\ SweepDate \in Dates \union {None}
<1> DEFINE anchor == template.rule.anchor
           S == {e \in {anchor} \union After(anchor) : e >= template.checkpoint /\ e >= today}
           floor == AtLeast(today, template.checkpoint)
           start == IF Existing = {} THEN anchor ELSE Latest
           T == {e \in After(start) : e >= floor}
<1>1. anchor \in Dates
  BY RuleFacts
<1>2. S \subseteq Dates /\ T \subseteq Dates
  BY <1>1 DEF After
<1>3. First(S) \in S \union {None} /\ First(T) \in T \union {None}
  BY <1>2, FirstFacts
<1>4. CurrentDate = First(S)
  BY DEF CurrentDate
<1>5. SweepDate = IF Existing = {} /\ start >= floor THEN start ELSE First(T)
  BY DEF SweepDate
<1> QED
  BY <1>1, <1>2, <1>3, <1>4, <1>5

-----------------------------------------------------------------------------
(* Types *)

Rows == [status : {"absent", "open", "complete", "archived"}, done : BOOLEAN, copied : Nat, announced : Nat]
Templates == [status : {"none", "active", "paused"}, rule : Rules \union {NoRule}, checkpoint : Boundaries]
Reasons == {"none", "paused", "ended", "archived", "detached", "dropped", "lost", "dead"}
Pcs == {"idle", "first", "handoff", "enqueue", "skip", "end", "insert", "copy", "announce",
        "successor", "verdict"}
UserOps == {"none", "create", "complete", "touch", "skip"}

\* Who does what: the worker generates and sweeps, users do the rest.  A generation whose
\* completed task has left the series has no source.
Sensible(a) ==
  /\ a.op = "none" <=> a.pc = "idle"
  /\ a.pc = "idle" => a = Idle
  /\ a.pc = "skip" => a.date \in Dates
  /\ a.pc \in {"handoff", "enqueue"} => a.src \in Dates
UsersPart(a) == a.op \in UserOps /\ a.pc \notin {"successor", "verdict"}
WorkersPart(a) ==
  /\ a.op \in {"none", "generate", "sweep"}
  /\ a.pc \in {"idle", "insert", "copy", "announce", "successor", "verdict"}
  /\ a.op = "generate" => a.src \in Dates \union {None}
  /\ a.pc = "verdict" => a.op = "generate"
Roles ==
  /\ \A u \in Users : UsersPart(act[u])
  /\ WorkersPart(act[Worker])
  /\ \A p \in Procs : Sensible(act[p])
  /\ act[Worker].op = "generate" /\ act[Worker].src # None => gen[act[Worker].src].status = "running"
  /\ template.status = "active" => template.rule \in Rules

LEMMA Basics ==
  /\ Dates \subseteq Nat /\ None \notin Dates /\ Worker \notin Users
  /\ Boundaries \subseteq Nat /\ Dates \subseteq Boundaries /\ None \in Boundaries
  /\ \A d \in 1..MaxDay : d + 1 \in Boundaries /\ d \in Boundaries
  /\ Worker \in Procs /\ Users \subseteq Procs
  /\ Idle \in Acts /\ NoJob \in Jobs /\ FreshJob \in Jobs
  /\ Absent \in Rows /\ Whole \in Rows
<1>1. LastDate \in Nat /\ MaxDay \in Nat /\ Copies \in Nat /\ Users \subseteq Nat \ {0}
  BY BoundAssumption
<1>2. Boundaries = 0..((IF MaxDay < LastDate THEN LastDate ELSE MaxDay) + 1)
  BY DEF Boundaries, AtLeast
<1>3. /\ Dates \subseteq Nat /\ None \notin Dates /\ Worker \notin Users
      /\ Boundaries \subseteq Nat /\ Dates \subseteq Boundaries /\ None \in Boundaries
      /\ \A d \in 1..MaxDay : d + 1 \in Boundaries /\ d \in Boundaries
  BY <1>1, <1>2 DEF Dates, None, Worker
<1>4. Worker \in Procs /\ Users \subseteq Procs
  BY DEF Procs
<1> QED
  BY <1>1, <1>3, <1>4 DEF Idle, Acts, NoRule, NoJob, FreshJob, Jobs, Absent, Whole, Rows, None

LEMMA InitTyped == Init => TypeOK /\ Roles
<1> SUFFICES ASSUME Init PROVE TypeOK /\ Roles
  OBVIOUS
<1> USE Basics, BoundAssumption
<1>1. /\ template \in Templates /\ task \in [Dates -> Rows]
      /\ template.status = "active" => template.rule \in Rules
  <2>1. \/ template = NoTemplate
        \/ \E rule \in Rules : template = [status |-> "active", rule |-> rule, checkpoint |-> None]
    BY DEF Init
  <2>2. \E open : task = [d \in Dates |-> IF d \in open THEN Whole ELSE Absent]
    BY DEF Init
  <2> QED
    BY <2>1, <2>2 DEF Templates, NoTemplate
<1>2. act = [p \in Procs |-> Idle]
  BY DEF Init
<1>3. act \in [Procs -> Acts] /\ \A p \in Procs : act[p].pc = "idle"
  BY <1>2 DEF Idle
<1>4. /\ gen \in [Dates -> Jobs] /\ sweep \in Jobs /\ later \in BOOLEAN
      /\ today \in 1..MaxDay /\ requests \in 0..MaxRequests /\ faults \in 0..MaxFaults
      /\ cause \in [Dates -> Reasons] /\ torn \subseteq Dates
  <2>1. gen \in [Dates -> Jobs] /\ sweep \in Jobs /\ later \in BOOLEAN
    BY DEF Init
  <2>2. today \in 1..MaxDay /\ requests \in 0..MaxRequests /\ faults \in 0..MaxFaults
    BY DEF Init
  <2>3. cause \in [Dates -> Reasons] /\ torn \subseteq Dates
    BY DEF Init, Reasons
  <2> QED
    BY <2>1, <2>2, <2>3
<1>5. TypeOK
  BY <1>1, <1>3, <1>4 DEF TypeOK, Templates, Rows, Reasons
<1>6. Roles
  BY <1>1, <1>2 DEF Roles, UserOps, UsersPart, WorkersPart, Sensible, Idle
<1> QED
  BY <1>5, <1>6

\* The parts of the type invariant.
TemplateOK == template \in Templates
TaskOK == task \in [Dates -> Rows]
JobsOK == gen \in [Dates -> Jobs] /\ sweep \in Jobs /\ later \in BOOLEAN
ActOK == /\ act \in [Procs -> Acts]
         /\ \A p \in Procs : act[p].pc \in {"first", "insert", "copy", "announce"} => act[p].date \in Dates
BoundsOK == today \in 1..MaxDay /\ requests \in 0..MaxRequests /\ faults \in 0..MaxFaults
GhostsOK == cause \in [Dates -> Reasons] /\ torn \subseteq Dates

LEMMA Parts ==
  /\ TypeOK <=> TemplateOK /\ TaskOK /\ JobsOK /\ ActOK /\ BoundsOK /\ GhostsOK
  /\ TypeOK' <=> TemplateOK' /\ TaskOK' /\ JobsOK' /\ ActOK' /\ BoundsOK' /\ GhostsOK'
BY DEF TypeOK, TemplateOK, TaskOK, JobsOK, ActOK, BoundsOK, GhostsOK, Templates, Rows, Reasons

LEMMA Kept ==
  ASSUME TypeOK
  PROVE  /\ UNCHANGED template => TemplateOK'
         /\ UNCHANGED task => TaskOK'
         /\ UNCHANGED <<gen, sweep, later>> => JobsOK'
         /\ UNCHANGED act => ActOK'
         /\ UNCHANGED <<today, requests, faults>> => BoundsOK'
         /\ UNCHANGED <<cause, torn>> => GhostsOK'
BY Parts DEF TemplateOK, TaskOK, JobsOK, ActOK, BoundsOK, GhostsOK

LEMMA Asked ==
  ASSUME TypeOK, NEW u \in Users, Request(u), UNCHANGED <<today, faults>>
  PROVE  BoundsOK'
BY BoundAssumption, Parts DEF Request, BoundsOK

LEMMA Failed ==
  ASSUME TypeOK, Fault, UNCHANGED <<today, requests>>
  PROVE  BoundsOK'
BY BoundAssumption, Parts DEF Fault, BoundsOK

LEMMA ActTyped ==
  ASSUME TypeOK, NEW p \in Procs, NEW a \in Acts, Becomes(p, a),
         a.pc \in {"first", "insert", "copy", "announce"} => a.date \in Dates
  PROVE  ActOK'
BY Parts DEF ActOK, Becomes

LEMMA DoingTyped ==
  ASSUME NEW op \in UserOps \union {"generate", "sweep"},
         NEW pc \in Pcs,
         NEW src \in Dates \union {None}, NEW date \in Boundaries, NEW ids \in SUBSET Dates
  PROVE  /\ Doing(op, pc, src, date, ids) \in Acts
         /\ Doing(op, pc, src, date, ids).pc = pc /\ Doing(op, pc, src, date, ids).date = date
BY DEF Doing, Acts, UserOps, Pcs

\* The plan of a skip keeps the rule it was made with.
LEMMA PlanTyped ==
  ASSUME NEW a \in Acts, NEW rule \in Rules \union {NoRule}
  PROVE  /\ [a EXCEPT !.rule = rule] \in Acts
         /\ [a EXCEPT !.rule = rule].op = a.op /\ [a EXCEPT !.rule = rule].pc = a.pc
         /\ [a EXCEPT !.rule = rule].src = a.src /\ [a EXCEPT !.rule = rule].date = a.date
BY DEF Acts

LEMMA StepTyped ==
  ASSUME NEW a \in Acts,
         NEW pc \in Pcs
  PROVE  [a EXCEPT !.pc = pc] \in Acts /\ [a EXCEPT !.pc = pc].pc = pc /\ [a EXCEPT !.pc = pc].date = a.date
BY DEF Acts, Pcs

LEMMA DoneTyped ==
  ASSUME TypeOK, NEW p \in Procs
  PROVE  Done(p) \in Acts /\ Done(p).pc \in {"idle", "successor", "verdict"}
<1>1. act[p] \in Acts
  BY Parts DEF ActOK
<1>2. Idle \in Acts /\ Idle.pc = "idle"
  BY Basics DEF Idle
<1> QED
  BY <1>1, <1>2, StepTyped DEF Done, Pcs

\* What Detach makes of a process: nothing, or the same with the task forgotten and, if the
\* worker was making it, at the end of that job.
LEMMA WithoutFacts ==
  ASSUME TypeOK, Roles, NEW p \in Procs, NEW d \in Dates
  PROVE  \/ /\ Without(p, d) = Idle
            /\ \/ act[p].pc = "idle"
               \/ act[p].pc \in {"copy", "announce"} /\ act[p].date = d
               \/ act[p].pc \in {"handoff", "enqueue"} /\ act[p].src = d
         \/ /\ Without(p, d) \in Acts /\ act[p].pc # "idle"
            /\ Without(p, d).op = act[p].op /\ Without(p, d).date = act[p].date
            /\ Without(p, d).src = IF act[p].src = d THEN None ELSE act[p].src
            /\ \/ /\ Without(p, d).pc = act[p].pc
                  /\ act[p].pc \in {"copy", "announce"} => act[p].date # d
                  /\ act[p].pc \in {"handoff", "enqueue"} => act[p].src # d
               \/ /\ p = Worker /\ act[p].pc \in {"copy", "announce"} /\ act[p].date = d
                  /\ Without(p, d).pc = IF act[p].op = "sweep" THEN "successor" ELSE "verdict"
<1> DEFINE a == IF act[p].pc \in {"copy", "announce"} /\ act[p].date = d THEN Done(p)
                ELSE IF act[p].pc \in {"handoff", "enqueue"} /\ act[p].src = d THEN Idle
                ELSE act[p]
<1> USE Basics
<1>1. act[p] \in Acts /\ Sensible(act[p])
  BY Parts DEF ActOK, Roles
<1>2. Without(p, d) = [a EXCEPT !.src = IF a.src = d THEN None ELSE a.src, !.ids = a.ids \ {d}]
  BY DEF Without
<1> HIDE DEF a
<1>3. ASSUME a = Idle PROVE Without(p, d) = Idle
  <2>1. a.src = None /\ a.ids = {} /\ a.src # d /\ {} \ {d} = {}
    BY <1>3 DEF Idle
  <2>2. [Idle EXCEPT !.src = None, !.ids = {}] = Idle
    <3>1. Idle \in Acts /\ Idle.src = None /\ Idle.ids = {}
      BY DEF Idle
    <3>2. \A x \in Acts : x.src = None /\ x.ids = {} => [x EXCEPT !.src = None, !.ids = {}] = x
      BY DEF Acts
    <3> QED
      BY <3>1, <3>2
  <2>3. (IF a.src = d THEN None ELSE a.src) = None /\ a.ids \ {d} = {}
    BY <2>1
  <2>4. Without(p, d) = [a EXCEPT !.src = None, !.ids = {}]
    BY <1>2, <2>3
  <2> QED
    BY <1>3, <2>2, <2>4
<1>4. ASSUME a \in Acts
      PROVE  /\ Without(p, d) \in Acts
             /\ Without(p, d).op = a.op /\ Without(p, d).date = a.date /\ Without(p, d).pc = a.pc
             /\ Without(p, d).src = IF a.src = d THEN None ELSE a.src
  <2>1. (IF a.src = d THEN None ELSE a.src) \in Dates \union {None} /\ a.ids \ {d} \in SUBSET Dates
    BY <1>4 DEF Acts
  <2> DEFINE src == IF a.src = d THEN None ELSE a.src
             ids == a.ids \ {d}
  <2>2. Without(p, d) = [a EXCEPT !.src = src, !.ids = ids]
    BY <1>2
  <2>3. src \in Dates \union {None} /\ ids \in SUBSET Dates
    BY <2>1
  <2> HIDE DEF src, ids
  <2>4. /\ [a EXCEPT !.src = src, !.ids = ids] \in Acts
        /\ [a EXCEPT !.src = src, !.ids = ids].op = a.op /\ [a EXCEPT !.src = src, !.ids = ids].date = a.date
        /\ [a EXCEPT !.src = src, !.ids = ids].pc = a.pc /\ [a EXCEPT !.src = src, !.ids = ids].src = src
    BY <1>4, <2>3 DEF Acts
  <2> QED
    BY <2>2, <2>4 DEF src
<1>5. CASE act[p].pc \in {"copy", "announce"} /\ act[p].date = d /\ p \in Users
  <2>1. act[p].op \in UserOps
    BY <1>5 DEF Roles, UsersPart
  <2>2. Done(p) = Idle
    BY <2>1 DEF Done, UserOps
  <2>3. a = Idle
    BY <1>5, <2>2 DEF a
  <2> QED
    BY <1>3, <1>5, <2>3
<1>6. CASE act[p].pc \in {"copy", "announce"} /\ act[p].date = d /\ p = Worker
  <2>1. act[p].op \in {"generate", "sweep"}
    BY <1>1, <1>6 DEF Roles, WorkersPart, Sensible
  <2>2. Done(p) = [act[p] EXCEPT !.pc = IF act[p].op = "sweep" THEN "successor" ELSE "verdict"]
    BY <2>1 DEF Done
  <2>3. /\ Done(p) \in Acts /\ Done(p).op = act[p].op /\ Done(p).src = act[p].src /\ Done(p).date = act[p].date
        /\ Done(p).pc = IF act[p].op = "sweep" THEN "successor" ELSE "verdict"
    BY <1>1, <2>2 DEF Acts
  <2>4. a = Done(p)
    BY <1>6 DEF a
  <2> QED
    BY <1>4, <1>6, <2>3, <2>4
<1>7. CASE act[p].pc \in {"handoff", "enqueue"} /\ act[p].src = d
  <2>1. a = Idle
    BY <1>7 DEF a
  <2> QED
    BY <1>3, <1>7, <2>1
<1>8. CASE /\ ~(act[p].pc \in {"copy", "announce"} /\ act[p].date = d)
           /\ ~(act[p].pc \in {"handoff", "enqueue"} /\ act[p].src = d)
  <2>1. a = act[p]
    BY <1>8 DEF a
  <2>2. CASE act[p].pc = "idle"
    BY <1>1, <1>3, <2>1, <2>2 DEF Sensible
  <2>3. CASE act[p].pc # "idle"
    BY <1>1, <1>4, <1>8, <2>1, <2>3
  <2> QED
    BY <2>2, <2>3
<1> QED
  BY <1>5, <1>6, <1>7, <1>8 DEF Procs

LEMMA RowTyped ==
  /\ \A row \in Rows, status \in {"absent", "open", "complete", "archived"} :
       [row EXCEPT !.status = status] \in Rows
  /\ \A row \in Rows, n \in Nat : [row EXCEPT !.copied = n] \in Rows /\ [row EXCEPT !.announced = n] \in Rows
BY DEF Rows

LEMMA RowDone ==
  \A row \in Rows, status \in {"open", "complete"} :
     [row EXCEPT !.status = status, !.done = TRUE] \in Rows /\ [row EXCEPT !.status = status, !.done = FALSE] \in Rows
BY DEF Rows

LEMMA JobTyped ==
  /\ \A row \in Jobs : Claimed(row) \in Jobs /\ Judged(row) \in Jobs
  /\ NoJob \in Jobs /\ FreshJob \in Jobs
BY BoundAssumption DEF Jobs, Claimed, Judged, NoJob, FreshJob

LEMMA AbandonedTyped ==
  ASSUME TypeOK, NEW S \in SUBSET Procs, Abandoned(S)
  PROVE  GhostsOK'
BY Parts DEF GhostsOK, ActOK, Abandoned, Reasons

LEMMA NextTyped ==
  ASSUME TypeOK, Roles, [Next]_vars
  PROVE  TypeOK'
<1> USE Basics, BoundAssumption, Parts DEF Pcs
<1>0. /\ template \in Templates /\ task \in [Dates -> Rows]
      /\ gen \in [Dates -> Jobs] /\ sweep \in Jobs
      /\ act \in [Procs -> Acts] /\ cause \in [Dates -> Reasons]
  BY DEF TemplateOK, TaskOK, JobsOK, ActOK, GhostsOK
<1>1. ASSUME NEW u \in Users, NEW rule \in Rules, CreateTemplate(u, rule)
      PROVE  TypeOK'
  <2>1. rule.anchor \in Dates
    BY RuleFacts
  <2>2. TemplateOK'
    BY <1>1, <2>1 DEF CreateTemplate, TemplateOK, Templates
  <2>3. ActOK'
    BY <1>1, <2>1, DoingTyped, ActTyped DEF CreateTemplate, UserOps
  <2> QED
    BY <1>1, <2>2, <2>3, Kept DEF CreateTemplate, jobs, bounds, ghosts
<1>2. ASSUME NEW u \in Users, NEW rule \in Rules, NEW status \in {"active", "paused"}, Edit(u, status, rule)
      PROVE  TypeOK'
  <2>1. rule.anchor \in Dates
    BY RuleFacts
  <2>2. TemplateOK'
    BY <1>0, <1>2, <2>1 DEF Edit, TemplateOK, Templates
  <2> QED
    BY <1>2, <2>2, Kept, Asked DEF Edit, jobs, ghosts
<1>3. ASSUME NEW u \in Users, NEW d \in Dates, Complete(u, d)
      PROVE  TypeOK'
  <2>1. TaskOK'
    BY <1>0, <1>3, RowDone DEF Complete, TaskOK
  <2>2. ActOK'
    BY <1>3, DoingTyped, ActTyped DEF Complete, UserOps
  <2> QED
    BY <1>3, <2>1, <2>2, Kept, Asked DEF Complete, jobs, ghosts
<1>4. ASSUME NEW u \in Users, NEW d \in Dates, Touch(u, d)
      PROVE  TypeOK'
  <2>1. ActOK'
    BY <1>4, DoingTyped, ActTyped DEF Touch, UserOps
  <2> QED
    BY <1>4, <2>1, Kept, Asked DEF Touch, records, jobs, ghosts
<1>5. ASSUME NEW u \in Users, NEW d \in Dates, Archive(u, d)
      PROVE  TypeOK'
  <2>1. TaskOK'
    BY <1>0, <1>5, RowTyped DEF Archive, TaskOK
  <2>2. GhostsOK'
    BY <1>5 DEF Archive, GhostsOK, Reasons
  <2> QED
    BY <1>5, <2>1, <2>2, Kept, Asked DEF Archive, jobs
<1>6. ASSUME NEW u \in Users, NEW d \in Dates, Restore(u, d)
      PROVE  TypeOK'
  <2>1. TaskOK'
    BY <1>0, <1>6, RowTyped DEF Restore, TaskOK
  <2> QED
    BY <1>6, <2>1, Kept, Asked DEF Restore, jobs, ghosts
<1>7. ASSUME NEW u \in Users, NEW d \in Dates, Reopen(u, d)
      PROVE  TypeOK'
  <2>1. TaskOK'
    BY <1>0, <1>7, RowDone DEF Reopen, TaskOK
  <2> QED
    BY <1>7, <2>1, Kept, Asked DEF Reopen, jobs, ghosts
<1>8. ASSUME NEW u \in Users, Skip(u)
      PROVE  TypeOK'
  <2>1. template.rule \in Rules /\ today \in 1..MaxDay
    BY <1>0, <1>8 DEF Skip, Roles, BoundsOK
  <2>2. Open \subseteq Dates /\ CurrentDate \in Dates \union {None}
    BY <2>1, PlanFacts DEF Open
  <2>3. PICK pc \in {"skip", "end"}, date \in Boundaries, ids \in SUBSET Dates :
          Becomes(u, [Doing("skip", pc, None, date, ids) EXCEPT !.rule = template.rule])
    BY <1>8, <2>1, <2>2 DEF Skip
  <2>5. Doing("skip", pc, None, date, ids) \in Acts /\ Doing("skip", pc, None, date, ids).pc = pc
    BY DoingTyped DEF UserOps
  <2>4. ActOK'
    BY <2>1, <2>3, <2>5, PlanTyped, ActTyped
  <2> QED
    BY <1>8, <2>4, Kept, Asked DEF Skip, records, jobs, ghosts
<1>9. ASSUME NEW u \in Users, CreateFirst(u)
      PROVE  TypeOK'
  <2>1. act[u].date \in Dates /\ act[u] \in Acts /\ Idle.pc = "idle"
    BY <1>0, <1>9 DEF CreateFirst, ActOK, Idle
  <2>2. [Absent EXCEPT !.status = "open", !.copied = Copies] \in Rows
    BY DEF Absent, Rows
  <2>3. TaskOK'
    BY <1>0, <1>9, <2>1, <2>2 DEF CreateFirst, TaskOK
  <2>4. ActOK'
    BY <1>9, <2>1, StepTyped, ActTyped DEF CreateFirst
  <2> QED
    BY <1>9, <2>3, <2>4, Kept DEF CreateFirst, jobs, bounds, ghosts
<1>10. ASSUME NEW u \in Users, Handoff(u)
       PROVE  TypeOK'
  <2>1. act[u] \in Acts /\ Idle.pc = "idle"
    BY <1>0 DEF Idle
  <2>2. Becomes(u, Idle) \/ Becomes(u, [act[u] EXCEPT !.pc = "enqueue"])
    BY <1>10 DEF Handoff
  <2>3. ActOK'
    BY <2>1, <2>2, StepTyped, ActTyped
  <2>4. GhostsOK'
    BY <1>0, <1>10 DEF Handoff, NoSuccessor, GhostsOK, Reasons
  <2> QED
    BY <1>10, <2>3, <2>4, Kept DEF Handoff, records, jobs, bounds
<1>11. ASSUME NEW u \in Users, Enqueue(u)
       PROVE  TypeOK'
  <2>1. ActOK'
    BY <1>11, ActTyped DEF Enqueue, Idle
  <2>2. JobsOK' /\ GhostsOK'
    BY <1>0, <1>11, JobTyped DEF Enqueue, JobsOK, GhostsOK, Reasons
  <2> QED
    BY <1>11, <2>1, <2>2, Kept DEF Enqueue, records, bounds
<1>12. ASSUME NEW u \in Users, SkipCommit(u)
       PROVE  TypeOK'
  <2>1. act[u].date \in Boundaries /\ (act[u].pc = "skip" => act[u].date \in Dates)
    BY <1>0 DEF Acts, Roles, Sensible
  <2>2. TemplateOK'
    BY <1>0, <1>12, <2>1 DEF SkipCommit, TemplateOK, Templates
  <2>3. [Absent EXCEPT !.status = "open"] \in Rows
    BY RowTyped
  <2>4. TaskOK'
    BY <1>0, <1>12, <2>3, RowDone DEF SkipCommit, TaskOK
  <2>5. \/ Becomes(u, Idle)
        \/ act[u].pc = "skip" /\ Becomes(u, Doing("skip", "copy", None, act[u].date, {}))
    BY <1>12 DEF SkipCommit
  <2>7. ASSUME Becomes(u, Idle) PROVE ActOK'
    BY <2>7, ActTyped DEF Idle
  <2>8. ASSUME act[u].pc = "skip", Becomes(u, Doing("skip", "copy", None, act[u].date, {}))
        PROVE  ActOK'
    <3>1. Doing("skip", "copy", None, act[u].date, {}) \in Acts
      BY <2>1 DEF Doing, Acts
    <3> QED
      BY <2>1, <2>8, <3>1, ActTyped DEF Doing
  <2>6. ActOK'
    BY <2>5, <2>7, <2>8
  <2>9. GhostsOK'
    BY <1>0, <1>12 DEF SkipCommit, GhostsOK, Reasons
  <2> QED
    BY <1>12, <2>2, <2>4, <2>6, <2>9, Kept DEF SkipCommit, jobs, bounds
<1>13. ASSUME NEW p \in Procs, Insert(p)
       PROVE  TypeOK'
  <2>1. act[p].date \in Dates /\ act[p] \in Acts
    BY <1>0, <1>13 DEF Insert, ActOK
  <2>2. [Absent EXCEPT !.status = "open"] \in Rows
    BY RowTyped
  <2>3. TaskOK'
    BY <1>0, <1>13, <2>1, <2>2 DEF Insert, TaskOK
  <2>4. ActOK'
    BY <1>13, <2>1, StepTyped, DoneTyped, ActTyped DEF Insert
  <2> QED
    BY <1>13, <2>3, <2>4, Kept DEF Insert, jobs, bounds, ghosts
<1>14. ASSUME NEW p \in Procs, Copy(p)
       PROVE  TypeOK'
  <2>1. act[p].date \in Dates /\ act[p] \in Acts
    BY <1>0, <1>14 DEF Copy, ActOK
  <2>2. task[act[p].date].copied \in Nat
    BY <1>0, <2>1 DEF Rows
  <2>3. TaskOK'
    <3>1. task' = [task EXCEPT ![act[p].date] = [task[act[p].date] EXCEPT !.copied = task[act[p].date].copied + 1]]
      BY <1>14 DEF Copy
    <3>2. [task[act[p].date] EXCEPT !.copied = task[act[p].date].copied + 1] \in Rows
      BY <1>0, <2>1, <2>2 DEF Rows
    <3> QED
      BY <1>0, <3>1, <3>2 DEF TaskOK
  <2>4. PICK pc \in {"copy", "announce"} : Becomes(p, [act[p] EXCEPT !.pc = pc])
    BY <1>14 DEF Copy
  <2>6. [act[p] EXCEPT !.pc = pc] \in Acts /\ [act[p] EXCEPT !.pc = pc].date = act[p].date
    BY <2>1 DEF Acts
  <2>5. ActOK'
    BY <2>1, <2>4, <2>6, ActTyped
  <2> QED
    BY <1>14, <2>3, <2>5, Kept DEF Copy, jobs, bounds, ghosts
<1>15. ASSUME NEW p \in Procs, Announce(p)
       PROVE  TypeOK'
  <2>1. act[p].date \in Dates
    BY <1>15 DEF Announce, ActOK
  <2>2. task[act[p].date].announced \in Nat
    BY <1>0, <2>1 DEF Rows
  <2>3. TaskOK'
    <3>1. task' = [task EXCEPT ![act[p].date] =
                     [task[act[p].date] EXCEPT !.announced = task[act[p].date].announced + 1]]
      BY <1>15 DEF Announce
    <3>2. [task[act[p].date] EXCEPT !.announced = task[act[p].date].announced + 1] \in Rows
      BY <1>0, <2>1, <2>2 DEF Rows
    <3> QED
      BY <1>0, <3>1, <3>2 DEF TaskOK
  <2>4. ActOK'
    BY <1>15, DoneTyped, ActTyped DEF Announce
  <2> QED
    BY <1>15, <2>3, <2>4, Kept DEF Announce, jobs, bounds, ghosts
<1>16. ASSUME NEW d \in Dates, Generate(d)
       PROVE  TypeOK'
  <2>1. JobsOK'
    BY <1>0, <1>16, JobTyped DEF Generate, JobsOK
  <2>2. GhostsOK'
    BY <1>0, <1>16 DEF Generate, NoSuccessor, GhostsOK, Reasons
  <2>3. NextDate(d) \in Dates \union {None}
    BY NextFacts
  <2>4. \/ NextDate(d) # None /\ Becomes(Worker, Doing("generate", "insert", d, NextDate(d), {}))
        \/ Becomes(Worker, Doing("generate", "verdict", d, None, {}))
    BY <1>16 DEF Generate
  <2>6. ASSUME NextDate(d) # None, Becomes(Worker, Doing("generate", "insert", d, NextDate(d), {}))
        PROVE  ActOK'
    <3>1. Doing("generate", "insert", d, NextDate(d), {}) \in Acts
      BY <2>3, <2>6 DEF Doing, Acts
    <3> QED
      BY <2>3, <2>6, <3>1, ActTyped DEF Doing
  <2>7. ASSUME Becomes(Worker, Doing("generate", "verdict", d, None, {}))
        PROVE  ActOK'
    <3>1. /\ Doing("generate", "verdict", d, None, {}) \in Acts
          /\ Doing("generate", "verdict", d, None, {}).pc = "verdict"
      BY DEF Doing, Acts
    <3> QED
      BY <2>7, <3>1, ActTyped
  <2>5. ActOK'
    BY <2>4, <2>6, <2>7
  <2> QED
    BY <1>16, <2>1, <2>2, <2>5, Kept DEF Generate, records, bounds
<1>17. CASE Sweep
  <2>1. JobsOK'
    BY <1>0, <1>17, JobTyped DEF Sweep, JobsOK
  <2>2. \/ /\ template.status = "active" /\ SweepDate # None
           /\ Becomes(Worker, Doing("sweep", "insert", None, SweepDate, {}))
        \/ Becomes(Worker, Doing("sweep", "successor", None, None, {}))
    BY <1>17 DEF Sweep
  <2>3. template.status = "active" => SweepDate \in Dates \union {None}
    BY PlanFacts DEF Roles
  <2>5. ASSUME template.status = "active", SweepDate # None,
               Becomes(Worker, Doing("sweep", "insert", None, SweepDate, {}))
        PROVE  ActOK'
    <3>1. Doing("sweep", "insert", None, SweepDate, {}) \in Acts
      BY <2>3, <2>5 DEF Doing, Acts
    <3> QED
      BY <2>3, <2>5, <3>1, ActTyped DEF Doing
  <2>6. ASSUME Becomes(Worker, Doing("sweep", "successor", None, None, {}))
        PROVE  ActOK'
    <3>1. /\ Doing("sweep", "successor", None, None, {}) \in Acts
          /\ Doing("sweep", "successor", None, None, {}).pc = "successor"
      BY DEF Doing, Acts
    <3> QED
      BY <2>6, <3>1, ActTyped
  <2>4. ActOK'
    BY <2>2, <2>5, <2>6
  <2> QED
    BY <1>17, <2>1, <2>4, Kept DEF Sweep, records, bounds, ghosts
<1>18. CASE QueueSuccessor \/ Verdict
  <2>1. JobsOK'
    BY <1>0, <1>18, JobTyped DEF QueueSuccessor, Verdict, JobsOK
  <2>2. ActOK'
    BY <1>18, ActTyped DEF QueueSuccessor, Verdict, Idle
  <2> QED
    BY <1>18, <2>1, <2>2, Kept DEF QueueSuccessor, Verdict, records, bounds, ghosts
<1>19. CASE SweepDue
  <2>1. JobsOK'
    BY <1>19, JobTyped DEF SweepDue, JobsOK
  <2> QED
    BY <1>19, <2>1, Kept DEF SweepDue, records, bounds, ghosts
<1>20. CASE NewDay
  <2>1. BoundsOK'
    BY <1>20 DEF NewDay, BoundsOK
  <2> QED
    BY <1>20, <2>1, Kept DEF NewDay, records, jobs, ghosts
<1>21. ASSUME NEW u \in Users, RequestFails(u)
       PROVE  TypeOK'
  <2>1. GhostsOK'
    BY <1>21, AbandonedTyped DEF RequestFails
  <2>2. ActOK'
    BY <1>21, ActTyped DEF RequestFails, Idle
  <2> QED
    BY <1>21, <2>1, <2>2, Kept, Failed DEF RequestFails, records, jobs
<1>22. CASE JobFails
  <2>1. ActOK'
    BY <1>22, ActTyped DEF JobFails, Idle
  <2>2. JobsOK'
    BY <1>0, <1>22, JobTyped DEF JobFails, JobsOK
  <2>3. GhostsOK'
    BY <1>0, <1>22 DEF JobFails, GhostsOK, ActOK, Reasons
  <2> QED
    BY <1>22, <2>1, <2>2, <2>3, Kept, Failed DEF JobFails, records
<1>23. CASE WebCrash
  <2>1. GhostsOK'
    BY <1>23, AbandonedTyped DEF WebCrash
  <2>2. ActOK'
    BY <1>0, <1>23 DEF WebCrash, ActOK, Idle
  <2>3. JobsOK'
    BY <1>23, JobTyped DEF WebCrash, StartupSweep, JobsOK
  <2> QED
    BY <1>23, <2>1, <2>2, <2>3, Kept, Failed DEF WebCrash, records
<1>24. CASE WorkerCrash
  <2>1. GhostsOK'
    BY <1>24, AbandonedTyped DEF WorkerCrash
  <2>2. ActOK'
    BY <1>24, ActTyped DEF WorkerCrash, Idle
  <2>3. JobsOK'
    BY <1>24, JobTyped DEF WorkerCrash, StartupSweep, JobsOK
  <2> QED
    BY <1>24, <2>1, <2>2, <2>3, Kept, Failed DEF WorkerCrash, records
<1>25. CASE UNCHANGED vars
  BY <1>25, Kept DEF vars, records, jobs, bounds, ghosts
<1>26. ASSUME NEW u \in Users, NEW d \in Dates, Detach(u, d)
       PROVE  TypeOK'
  <2>1. TaskOK' /\ JobsOK'
    BY <1>0, <1>26 DEF Detach, TaskOK, JobsOK
  <2>2. GhostsOK'
    <3>1. \A e \in Dates : cause'[e] \in {cause[e], "none", "detached"} /\ cause' = [x \in Dates |-> cause'[x]]
      BY <1>26 DEF Detach
    <3>2. torn' \subseteq torn
      BY <1>26 DEF Detach
    <3> QED
      BY <1>0, <3>1, <3>2 DEF GhostsOK, Reasons
  <2>3. act' = [p \in Procs |-> Without(p, d)]
    BY <1>26 DEF Detach
  <2>4. ASSUME NEW p \in Procs
        PROVE  /\ Without(p, d) \in Acts
               /\ Without(p, d).pc \in {"first", "insert", "copy", "announce"} => Without(p, d).date \in Dates
    <3>1. act[p] \in Acts /\ (act[p].pc \in {"first", "insert", "copy", "announce"} => act[p].date \in Dates)
      BY DEF ActOK
    <3>2. CASE Without(p, d) = Idle
      BY <3>2 DEF Idle
    <3>3. CASE Without(p, d) # Idle
      BY <3>1, <3>3, WithoutFacts
    <3> QED
      BY <3>2, <3>3
  <2>5. ActOK'
    BY <2>3, <2>4 DEF ActOK
  <2> QED
    BY <1>26, <2>1, <2>2, <2>5, Kept, Asked DEF Detach
<1> QED
  BY <1>1, <1>2, <1>3, <1>4, <1>5, <1>6, <1>7, <1>8, <1>9, <1>10, <1>11, <1>12, <1>13, <1>14,
     <1>15, <1>16, <1>17, <1>18, <1>19, <1>20, <1>21, <1>22, <1>23, <1>24, <1>25, <1>26
     DEF Next, Asks, Proceed, Create, WorkerStep

LEMMA UserTakesPart ==
  ASSUME TypeOK, Roles, NEW u \in Users, NEW a, UsersPart(a), Sensible(a), Becomes(u, a),
         UNCHANGED template,
         act[Worker].op = "generate" /\ act[Worker].src # None =>
           gen'[act[Worker].src].status = gen[act[Worker].src].status
  PROVE  Roles'
BY Basics, Parts DEF Roles, Becomes, ActOK

LEMMA WorkerTakesPart ==
  ASSUME TypeOK, Roles, NEW a, WorkersPart(a), Sensible(a), Becomes(Worker, a), UNCHANGED template,
         a.op = "generate" /\ a.src # None => gen'[a.src].status = "running"
  PROVE  Roles'
BY Basics, Parts DEF Roles, Becomes, ActOK

LEMMA IdlePart == UsersPart(Idle) /\ WorkersPart(Idle) /\ Sensible(Idle) /\ Idle.op = "none"
BY DEF UsersPart, WorkersPart, Sensible, Idle, UserOps

LEMMA NextRoles ==
  ASSUME TypeOK, Roles, [Next]_vars
  PROVE  Roles'
<1> USE Basics, BoundAssumption, IdlePart DEF UserOps
<1>0. /\ gen \in [Dates -> Jobs] /\ act \in [Procs -> Acts] /\ template \in Templates
  BY Parts DEF JobsOK, ActOK, TemplateOK
<1>1. ASSUME NEW u \in Users, NEW rule \in Rules, CreateTemplate(u, rule)
      PROVE  Roles'
  BY <1>0, <1>1 DEF Roles, CreateTemplate, Becomes, Doing, Sensible, UsersPart, jobs
<1>2. ASSUME NEW u \in Users, NEW rule \in Rules, NEW status \in {"active", "paused"}, Edit(u, status, rule)
      PROVE  Roles'
  BY <1>0, <1>2 DEF Roles, Edit, jobs, Templates
<1>3. ASSUME NEW u \in Users, NEW d \in Dates, Complete(u, d) \/ Touch(u, d)
      PROVE  Roles'
  <2>1. PICK a : Becomes(u, a) /\ UsersPart(a) /\ Sensible(a)
    BY <1>3 DEF Complete, Touch, Doing, UsersPart, Sensible
  <2> QED
    BY <1>3, <2>1, UserTakesPart DEF Complete, Touch, records, jobs
<1>4. ASSUME NEW u \in Users, NEW d \in Dates, Archive(u, d) \/ Restore(u, d) \/ Reopen(u, d)
      PROVE  Roles'
  BY <1>4 DEF Roles, Archive, Restore, Reopen, jobs
<1>5. ASSUME NEW u \in Users, Skip(u)
      PROVE  Roles'
  <2>1. CurrentDate \in Dates \union {None}
    BY <1>5, PlanFacts DEF Skip, Roles
  <2>2. PICK a : Becomes(u, a) /\ UsersPart(a) /\ Sensible(a)
    <3>1. PICK pc, date, ids :
            /\ pc \in {"skip", "end"}
            /\ pc = "skip" => date \in Dates
            /\ Becomes(u, [Doing("skip", pc, None, date, ids) EXCEPT !.rule = template.rule])
      BY <1>5, <2>1 DEF Skip
    <3>2. /\ UsersPart([Doing("skip", pc, None, date, ids) EXCEPT !.rule = template.rule])
          /\ Sensible([Doing("skip", pc, None, date, ids) EXCEPT !.rule = template.rule])
      BY <3>1 DEF Doing, UsersPart, Sensible
    <3> QED
      BY <3>1, <3>2
  <2> QED
    BY <1>5, <2>2, UserTakesPart DEF Skip, records, jobs
<1>6. ASSUME NEW u \in Users, CreateFirst(u)
      PROVE  Roles'
  <2>1. PICK a : Becomes(u, a) /\ UsersPart(a) /\ Sensible(a)
    BY <1>0, <1>6 DEF CreateFirst, UsersPart, Sensible, Acts, Roles
  <2> QED
    BY <1>6, <2>1, UserTakesPart DEF CreateFirst, jobs
<1>7. ASSUME NEW u \in Users, Handoff(u)
      PROVE  Roles'
  <2>1. PICK a : Becomes(u, a) /\ UsersPart(a) /\ Sensible(a)
    <3>1. Becomes(u, Idle) \/ Becomes(u, [act[u] EXCEPT !.pc = "enqueue"])
      BY <1>7 DEF Handoff
    <3>2. UsersPart([act[u] EXCEPT !.pc = "enqueue"]) /\ Sensible([act[u] EXCEPT !.pc = "enqueue"])
      BY <1>0, <1>7 DEF Handoff, UsersPart, Sensible, Acts, Roles
    <3> QED
      BY <3>1, <3>2
  <2> QED
    BY <1>7, <2>1, UserTakesPart DEF Handoff, records, jobs
<1>8. ASSUME NEW u \in Users, Enqueue(u)
      PROVE  Roles'
  <2>1. act[Worker].op = "generate" /\ act[Worker].src # None => gen'[act[Worker].src] = gen[act[Worker].src]
    BY <1>0, <1>8 DEF Enqueue, Roles, WorkersPart, Sensible
  <2> QED
    BY <1>8, <2>1, UserTakesPart DEF Enqueue, records
<1>9. ASSUME NEW u \in Users, SkipCommit(u)
      PROVE  Roles'
  <2>1. UsersPart(Doing("skip", "copy", None, act[u].date, {})) /\ Sensible(Doing("skip", "copy", None, act[u].date, {}))
    BY DEF Doing, UsersPart, Sensible
  <2>2. Becomes(u, Idle) \/ Becomes(u, Doing("skip", "copy", None, act[u].date, {}))
    BY <1>9 DEF SkipCommit
  <2>3. act' = [act EXCEPT ![u] = Idle] \/ act' = [act EXCEPT ![u] = Doing("skip", "copy", None, act[u].date, {})]
    BY <2>2 DEF Becomes
  <2>4. UNCHANGED gen /\ (UNCHANGED template \/ (template.status = "active" /\ template' = [template EXCEPT !.checkpoint = act[u].date]))
    BY <1>9 DEF SkipCommit, jobs
  <2>5. template'.status = template.status /\ template'.rule = template.rule
    BY <1>0, <2>4 DEF Templates
  <2>6. act'[Worker] = act[Worker] /\ \A v \in Users : UsersPart(act'[v])
    BY <1>0, <2>1, <2>3 DEF Roles
  <2>7. \A p \in Procs : Sensible(act'[p])
    BY <1>0, <2>1, <2>3 DEF Roles
  <2> QED
    BY <2>4, <2>5, <2>6, <2>7 DEF Roles
<1>10. ASSUME NEW p \in Procs, Create(p)
       PROVE  Roles'
  <2>0. act[p].pc \in {"insert", "copy", "announce"} /\ act[p] \in Acts /\ UNCHANGED <<template, gen>>
    BY <1>0, <1>10 DEF Create, Insert, Copy, Announce, jobs
  <2>1. PICK pc \in {"copy", "announce"} : Becomes(p, Done(p)) \/ Becomes(p, [act[p] EXCEPT !.pc = pc])
    BY <1>10 DEF Create, Insert, Copy, Announce
  <2>2. CASE p \in Users
    <3>1. UsersPart(act[p]) /\ Sensible(act[p])
      BY <2>2 DEF Roles
    <3>2. Done(p) = Idle
      BY <3>1 DEF Done, UsersPart
    <3>3. UsersPart([act[p] EXCEPT !.pc = pc]) /\ Sensible([act[p] EXCEPT !.pc = pc])
      BY <2>0, <3>1 DEF UsersPart, Sensible, Acts
    <3>4. PICK a : Becomes(p, a) /\ UsersPart(a) /\ Sensible(a)
      BY <2>1, <3>2, <3>3
    <3> QED
      BY <2>0, <2>2, <3>4, UserTakesPart
  <2>3. CASE p = Worker
    <3>1. WorkersPart(act[p]) /\ Sensible(act[p])
      BY <2>3 DEF Roles
    <3>2. act[p].op \in {"generate", "sweep"}
      BY <2>0, <3>1 DEF WorkersPart, Sensible
    <3>3. Done(p) = [act[p] EXCEPT !.pc = IF act[p].op = "sweep" THEN "successor" ELSE "verdict"]
      BY <3>2 DEF Done
    <3>4. /\ WorkersPart([act[p] EXCEPT !.pc = pc]) /\ Sensible([act[p] EXCEPT !.pc = pc])
          /\ [act[p] EXCEPT !.pc = pc].op = act[p].op /\ [act[p] EXCEPT !.pc = pc].src = act[p].src
      BY <2>0, <3>1, <3>2 DEF WorkersPart, Sensible, Acts
    <3>5. WorkersPart(Done(p)) /\ Sensible(Done(p)) /\ Done(p).op = act[p].op /\ Done(p).src = act[p].src
      BY <2>0, <3>1, <3>2, <3>3 DEF WorkersPart, Sensible, Acts
    <3>6. PICK a : Becomes(p, a) /\ WorkersPart(a) /\ Sensible(a) /\ a.op = act[p].op /\ a.src = act[p].src
      BY <2>1, <3>4, <3>5
    <3>7. a.op = "generate" /\ a.src # None => gen'[a.src].status = "running"
      BY <2>0, <2>3, <3>6 DEF Roles
    <3> QED
      BY <2>0, <2>3, <3>6, <3>7, WorkerTakesPart
  <2> QED
    BY <2>2, <2>3 DEF Procs
<1>11. ASSUME NEW d \in Dates, Generate(d)
       PROVE  Roles'
  <2>1. PICK pc \in {"insert", "verdict"}, date \in Dates \union {None} :
          Becomes(Worker, Doing("generate", pc, d, date, {}))
    BY <1>11, NextFacts DEF Generate
  <2>2. /\ WorkersPart(Doing("generate", pc, d, date, {})) /\ Sensible(Doing("generate", pc, d, date, {}))
        /\ Doing("generate", pc, d, date, {}).src = d
    BY DEF WorkersPart, Sensible, Doing
  <2>3. gen'[d].status = "running" /\ UNCHANGED template
    BY <1>0, <1>11 DEF Generate, Claimed, records
  <2> QED
    BY <2>1, <2>2, <2>3, WorkerTakesPart
<1>12. CASE Sweep
  <2>1. PICK pc, date : pc \in {"insert", "successor"} /\ Becomes(Worker, Doing("sweep", pc, None, date, {}))
    BY <1>12 DEF Sweep
  <2>2. /\ WorkersPart(Doing("sweep", pc, None, date, {})) /\ Sensible(Doing("sweep", pc, None, date, {}))
        /\ Doing("sweep", pc, None, date, {}).op = "sweep"
    BY <2>1 DEF WorkersPart, Sensible, Doing
  <2> QED
    BY <1>12, <2>1, <2>2, WorkerTakesPart DEF Sweep, records
<1>13. CASE QueueSuccessor \/ Verdict \/ JobFails \/ WorkerCrash
  BY <1>13, WorkerTakesPart DEF QueueSuccessor, Verdict, JobFails, WorkerCrash, records
<1>14. CASE SweepDue \/ NewDay
  BY <1>14 DEF SweepDue, NewDay, records, jobs, Roles
<1>15. ASSUME NEW u \in Users, RequestFails(u)
       PROVE  Roles'
  BY <1>15, UserTakesPart DEF RequestFails, records, jobs
<1>16. CASE WebCrash
  <2>1. act' = [p \in Procs |-> IF p \in Users THEN Idle ELSE act[p]] /\ UNCHANGED <<template, gen>>
    BY <1>16 DEF WebCrash, records
  <2> QED
    BY <2>1 DEF Roles
<1>17. CASE UNCHANGED vars
  BY <1>17 DEF vars, records, jobs, Roles
<1>18. ASSUME NEW u \in Users, NEW d \in Dates, Detach(u, d)
       PROVE  Roles'
  <2>1. act' = [p \in Procs |-> Without(p, d)] /\ gen' = [gen EXCEPT ![d] = NoJob] /\ UNCHANGED template
    BY <1>18 DEF Detach
  <2>2. \A v \in Users : UsersPart(Without(v, d))
    <3> TAKE v \in Users
    <3>1. UsersPart(act[v]) /\ v \in Procs /\ v # Worker
      BY DEF Roles
    <3> QED
      BY <3>1, WithoutFacts DEF UsersPart
  <2>3. WorkersPart(Without(Worker, d))
    <3>1. WorkersPart(act[Worker]) /\ Sensible(act[Worker])
      BY DEF Roles
    <3> QED
      BY <3>1, WithoutFacts DEF WorkersPart, Sensible
  <2>4. \A p \in Procs : Sensible(Without(p, d))
    <3> TAKE p \in Procs
    <3>1. Sensible(act[p])
      BY DEF Roles
    <3> QED
      BY <3>1, WithoutFacts DEF Sensible
  <2>5. Without(Worker, d).op = "generate" /\ Without(Worker, d).src # None
          => gen'[Without(Worker, d).src].status = "running"
    <3>1. Without(Worker, d).op = "generate" /\ Without(Worker, d).src # None
            => /\ act[Worker].op = "generate" /\ act[Worker].src # None
               /\ Without(Worker, d).src = act[Worker].src /\ act[Worker].src # d
      <4>1. CASE Without(Worker, d) = Idle
        BY <4>1
      <4>2. CASE Without(Worker, d) # Idle
        BY <4>2, WithoutFacts
      <4> QED
        BY <4>1, <4>2
    <3>2. \A e \in Dates : e # d => gen'[e] = gen[e]
      BY <1>0, <2>1
    <3> QED
      BY <3>1, <3>2 DEF Roles, WorkersPart
  <2> QED
    BY <2>1, <2>2, <2>3, <2>4, <2>5 DEF Roles
<1> QED
  BY <1>1, <1>2, <1>3, <1>4, <1>5, <1>6, <1>7, <1>8, <1>9, <1>10, <1>11, <1>12, <1>13, <1>14,
     <1>15, <1>16, <1>17, <1>18
     DEF Next, Asks, Proceed, WorkerStep

-----------------------------------------------------------------------------
(* An instance is made once *)

Making(p) == act[p].pc \in {"copy", "announce"}

\* Where the maker of an instance is, the instance is.
MakerOf(a) ==
  /\ Exists(a.date) /\ task[a.date].announced = 0
  /\ a.pc = "copy" => task[a.date].copied < Copies
  /\ a.pc = "announce" => task[a.date].copied = Copies

\* An instance has one maker at most, and is whole if it has none and had one to the end.
MadeOnce ==
  /\ \A p \in Procs : Making(p) => MakerOf(act[p])
  /\ \A p, q \in Procs : Making(p) /\ Making(q) /\ act[p].date = act[q].date => p = q
  /\ OnceOnly

\* Makers come to no instance and leave none but torn ones.
MakersStay ==
  /\ \A p \in Procs : Making(p)' => act'[p] = act[p]
  /\ \A p \in Procs : Making(p) /\ ~Making(p)' => act[p].date \in torn'
  /\ torn \subseteq torn'

SameInstance(d) ==
  /\ Exists(d)' <=> Exists(d)
  /\ task'[d].copied = task[d].copied /\ task'[d].announced = task[d].announced

LEMMA OnlyMakersMake ==
  ASSUME TypeOK, TypeOK', MadeOnce, MakersStay,
         \A d \in Dates : SameInstance(d)
  PROVE  MadeOnce'
<1> USE DEF SameInstance
<1>1. \A p \in Procs : Making(p)' => Making(p) /\ act'[p] = act[p] /\ act[p].date \in Dates
  BY Parts DEF MakersStay, Making, ActOK
<1>2. \A p \in Procs : Making(p)' => MakerOf(act[p])'
  BY <1>1 DEF MadeOnce, MakerOf
<1>3. \A p, q \in Procs : Making(p)' /\ Making(q)' /\ act'[p].date = act'[q].date => p = q
  BY <1>1 DEF MadeOnce
<1>4. ASSUME NEW d \in Dates, Exists(d)'
      PROVE  /\ task'[d].copied <= Copies /\ task'[d].announced <= 1
             /\ \/ \E p \in Procs : act'[p].date = d /\ act'[p].pc \in {"copy", "announce"}
                \/ d \in torn'
                \/ task'[d].copied = Copies /\ task'[d].announced = 1
  <2>1. d \in Existing
    BY <1>4 DEF Existing
  <2>2. /\ task[d].copied <= Copies /\ task[d].announced <= 1
        /\ \/ \E p \in Procs : act[p].date = d /\ Making(p)
           \/ d \in torn
           \/ task[d].copied = Copies /\ task[d].announced = 1
    BY <2>1 DEF MadeOnce, OnceOnly, Making
  <2>3. CASE \E p \in Procs : act[p].date = d /\ Making(p)
    BY <2>2, <2>3, <1>1 DEF MakersStay, Making
  <2> QED
    BY <2>2, <2>3 DEF MakersStay
<1>5. OnceOnly'
  BY <1>4 DEF OnceOnly, Existing
<1> QED
  BY <1>2, <1>3, <1>5 DEF MadeOnce

LEMMA MakerMakes ==
  ASSUME TypeOK, TypeOK', MadeOnce, NEW p \in Procs, NEW d \in Dates,
         Making(p) => act[p].date = d,
         ~Making(p) => ~Exists(d),
         \/ Making(p)' /\ act'[p].date = d /\ MakerOf(act[p])'
         \/ ~Making(p)' /\ Exists(d)' /\ task'[d].copied = Copies /\ task'[d].announced = 1,
         \A q \in Procs \ {p} : act'[q] = act[q],
         \A e \in Dates \ {d} : SameInstance(e),
         torn' = torn
  PROVE  MadeOnce'
<1>1. ASSUME NEW q \in Procs \ {p}, Making(q)'
      PROVE  /\ Making(q) /\ act'[q] = act[q] /\ act[q].date \in Dates \ {d}
             /\ MakerOf(act[q])'
  <2>1. Making(q) /\ act'[q] = act[q] /\ act[q].date \in Dates
    BY <1>1, Parts DEF Making, ActOK
  <2>2. act[q].date # d
    BY <2>1 DEF MadeOnce, MakerOf
  <2>3. MakerOf(act[q]) /\ SameInstance(act[q].date)
    BY <2>1, <2>2 DEF MadeOnce
  <2> QED
    BY <2>1, <2>2, <2>3 DEF MakerOf, SameInstance
<1>2. \A q \in Procs : Making(q)' => MakerOf(act[q])'
  BY <1>1
<1>3. \A q, r \in Procs : Making(q)' /\ Making(r)' /\ act'[q].date = act'[r].date => q = r
  <2> SUFFICES ASSUME NEW q \in Procs, NEW r \in Procs, Making(q)', Making(r)', act'[q].date = act'[r].date
               PROVE  q = r
    OBVIOUS
  <2>1. CASE q # p /\ r # p
    BY <2>1, <1>1 DEF MadeOnce
  <2>2. CASE q = p \/ r = p
    BY <2>2, <1>1
  <2> QED
    BY <2>1, <2>2
<1>4. ASSUME NEW e \in Dates, Exists(e)'
      PROVE  /\ task'[e].copied <= Copies /\ task'[e].announced <= 1
             /\ \/ \E q \in Procs : act'[q].date = e /\ act'[q].pc \in {"copy", "announce"}
                \/ e \in torn'
                \/ task'[e].copied = Copies /\ task'[e].announced = 1
  <2>1. CASE e = d
    <3>1. CASE Making(p)' /\ act'[p].date = d /\ MakerOf(act[p])'
      <4>1. task'[d].copied \in Nat /\ Copies \in Nat
        BY Parts, BoundAssumption DEF TaskOK, Rows
      <4>2. act'[p].pc \in {"copy", "announce"} /\ task'[d].announced = 0
            /\ (task'[d].copied < Copies \/ task'[d].copied = Copies)
        BY <3>1 DEF Making, MakerOf
      <4> QED
        BY <2>1, <3>1, <4>1, <4>2
    <3>2. CASE ~Making(p)' /\ Exists(d)' /\ task'[d].copied = Copies /\ task'[d].announced = 1
      BY <2>1, <3>2, BoundAssumption
    <3> QED
      BY <3>1, <3>2
  <2>2. CASE e # d
    <3>1. e \in Existing /\ SameInstance(e)
      BY <1>4, <2>2 DEF Existing, SameInstance
    <3>2. /\ task[e].copied <= Copies /\ task[e].announced <= 1
          /\ \/ \E q \in Procs : act[q].date = e /\ Making(q)
             \/ e \in torn
             \/ task[e].copied = Copies /\ task[e].announced = 1
      BY <3>1 DEF MadeOnce, OnceOnly, Making
    <3>3. ASSUME NEW q \in Procs, act[q].date = e, Making(q)
          PROVE  act'[q] = act[q]
      BY <2>2, <3>3
    <3> QED
      BY <3>1, <3>2, <3>3 DEF SameInstance, Making
  <2> QED
    BY <2>1, <2>2
<1>5. OnceOnly'
  BY <1>4 DEF OnceOnly, Existing
<1> QED
  BY <1>2, <1>3, <1>5 DEF MadeOnce

LEMMA StayInstance ==
  ASSUME TypeOK, NEW d \in Dates,
         task'[d] = task[d] \/ (Exists(d) /\ \E status \in {"open", "complete", "archived"} :
           \/ task'[d] = [task[d] EXCEPT !.status = status]
           \/ \E done \in {TRUE, FALSE} : task'[d] = [task[d] EXCEPT !.status = status, !.done = done])
  PROVE  SameInstance(d)
<1>1. task[d] \in Rows
  BY Parts DEF TaskOK
<1> QED
  BY <1>1 DEF SameInstance, Exists, Rows

LEMMA Stays ==
  ASSUME TypeOK, UNCHANGED task
  PROVE  \A d \in Dates : SameInstance(d)
BY DEF SameInstance, Exists

\* A process that begins something else, or ends, without having been a maker.
LEMMA NoMaker ==
  ASSUME TypeOK, NEW p \in Procs, NEW a, Becomes(p, a), a.pc \notin {"copy", "announce"}, ~Making(p),
         torn' = torn
  PROVE  MakersStay
BY Parts DEF MakersStay, Making, Becomes, ActOK

LEMMA NextMadeOnce ==
  ASSUME TypeOK, TypeOK', Roles, MadeOnce, [Next]_vars
  PROVE  MadeOnce'
<1> USE Basics
<1>0. act \in [Procs -> Acts] /\ task \in [Dates -> Rows]
  BY Parts DEF ActOK, TaskOK
<1>1. ASSUME NEW u \in Users, NEW rule \in Rules, CreateTemplate(u, rule)
      PROVE  MadeOnce'
  <2>1. MakersStay
    BY <1>1, NoMaker DEF CreateTemplate, Free, Doing, Making, Idle, ghosts
  <2> QED
    BY <1>1, <2>1, Stays, OnlyMakersMake DEF CreateTemplate
<1>2. ASSUME NEW u \in Users, NEW rule \in Rules, NEW status \in {"active", "paused"}, Edit(u, status, rule)
      PROVE  MadeOnce'
  <2>1. MakersStay
    BY <1>2 DEF Edit, MakersStay, Making, ghosts
  <2> QED
    BY <1>2, <2>1, Stays, OnlyMakersMake DEF Edit
<1>3. ASSUME NEW u \in Users, NEW d \in Dates, Complete(u, d)
      PROVE  MadeOnce'
  <2>1. MakersStay
    BY <1>3, NoMaker DEF Complete, Request, Free, Doing, Making, Idle, ghosts
  <2>2. \A e \in Dates : SameInstance(e)
    BY <1>0, <1>3, StayInstance DEF Complete, Exists
  <2> QED
    BY <2>1, <2>2, OnlyMakersMake
<1>4. ASSUME NEW u \in Users, NEW d \in Dates, Touch(u, d)
      PROVE  MadeOnce'
  <2>1. MakersStay
    BY <1>4, NoMaker DEF Touch, Request, Free, Doing, Making, Idle, ghosts
  <2> QED
    BY <1>4, <2>1, Stays, OnlyMakersMake DEF Touch, records
<1>5. ASSUME NEW u \in Users, NEW d \in Dates, Archive(u, d) \/ Restore(u, d) \/ Reopen(u, d)
      PROVE  MadeOnce'
  <2>1. MakersStay
    BY <1>5 DEF Archive, Restore, Reopen, MakersStay, Making, ghosts
  <2>2. \A e \in Dates : SameInstance(e)
    BY <1>0, <1>5, StayInstance DEF Archive, Restore, Reopen, Exists
  <2> QED
    BY <2>1, <2>2, OnlyMakersMake
<1>6. ASSUME NEW u \in Users, Skip(u)
      PROVE  MadeOnce'
  <2>1. PICK a : Becomes(u, a) /\ a.pc \in {"skip", "end"}
    <3>1. PICK pc, date, ids :
            /\ pc \in {"skip", "end"}
            /\ Becomes(u, [Doing("skip", pc, None, date, ids) EXCEPT !.rule = template.rule])
      BY <1>6 DEF Skip
    <3>2. [Doing("skip", pc, None, date, ids) EXCEPT !.rule = template.rule].pc = pc
      BY DEF Doing
    <3> QED
      BY <3>1, <3>2
  <2>2. MakersStay
    BY <1>6, <2>1, NoMaker DEF Skip, Request, Free, Making, Idle, ghosts
  <2> QED
    BY <1>6, <2>2, Stays, OnlyMakersMake DEF Skip, records
<1>7. ASSUME NEW u \in Users, CreateFirst(u)
      PROVE  MadeOnce'
  <2> DEFINE d == act[u].date
  <2>1. d \in Dates /\ act[u].pc = "first" /\ torn' = torn
    BY <1>7, Parts DEF CreateFirst, ActOK, ghosts
  <2>2. CASE Exists(d)
    <3>1. Becomes(u, Idle) /\ UNCHANGED task
      BY <1>7, <2>2 DEF CreateFirst
    <3>2. MakersStay
      BY <2>1, <3>1, NoMaker DEF Making, Idle
    <3> QED
      BY <3>1, <3>2, Stays, OnlyMakersMake
  <2>3. CASE ~Exists(d)
    <3>1. /\ task' = [task EXCEPT ![d] = [Absent EXCEPT !.status = "open", !.copied = Copies]]
          /\ act' = [act EXCEPT ![u] = [act[u] EXCEPT !.pc = "announce"]]
      BY <1>7, <2>3 DEF CreateFirst, Becomes
    <3>2. task'[d] = [status |-> "open", done |-> FALSE, copied |-> Copies, announced |-> 0]
      BY <1>0, <2>1, <3>1 DEF Absent
    <3>3. act'[u].pc = "announce" /\ act'[u].date = d
      BY <1>0, <3>1 DEF Acts
    <3>4. Making(u)' /\ act'[u].date = d /\ MakerOf(act[u])' /\ ~Making(u)
      BY <2>1, <3>2, <3>3 DEF Making, MakerOf, Exists
    <3>5. \A q \in Procs \ {u} : act'[q] = act[q]
      BY <1>0, <3>1
    <3>6. \A e \in Dates \ {d} : SameInstance(e)
      BY <1>0, <3>1 DEF SameInstance, Exists
    <3> QED
      BY <2>1, <2>3, <3>4, <3>5, <3>6, MakerMakes
  <2> QED
    BY <2>2, <2>3
<1>8. ASSUME NEW u \in Users, Handoff(u) \/ Enqueue(u)
      PROVE  MadeOnce'
  <2>1. PICK a : Becomes(u, a) /\ a.pc \in {"idle", "enqueue"}
    BY <1>0, <1>8 DEF Handoff, Enqueue, Idle, Acts
  <2>2. MakersStay
    BY <1>8, <2>1, NoMaker DEF Handoff, Enqueue, Making
  <2> QED
    BY <1>8, <2>2, Stays, OnlyMakersMake DEF Handoff, Enqueue, records
<1>9. ASSUME NEW u \in Users, SkipCommit(u)
      PROVE  MadeOnce'
  <2> DEFINE d == act[u].date
             earlier == {e \in Open : e < d}
             valid == /\ template.status = "active" /\ template.rule = act[u].rule
                      /\ template.checkpoint <= d /\ earlier \subseteq act[u].ids
             created == valid /\ act[u].pc = "skip" /\ ~Exists(d)
  <2>1. /\ task' = [e \in Dates |->
             IF valid /\ e \in earlier THEN [task[e] EXCEPT !.status = "complete", !.done = TRUE]
             ELSE IF created /\ e = d THEN [Absent EXCEPT !.status = "open"]
             ELSE task[e]]
        /\ act[u].pc \in {"skip", "end"} /\ torn' = torn
        /\ Becomes(u, IF created THEN Doing("skip", "copy", None, d, {}) ELSE Idle)
    BY <1>9 DEF SkipCommit
  <2>2. ~Making(u)
    BY <2>1 DEF Making
  <2>3. \A e \in Dates : e \in earlier \/ ~(created /\ e = d) => SameInstance(e)
    <3> SUFFICES ASSUME NEW e \in Dates, e \in earlier \/ ~(created /\ e = d)
                 PROVE  SameInstance(e)
      OBVIOUS
    <3>1. CASE valid /\ e \in earlier
      <4>1. Exists(e)
        BY <3>1 DEF Open, Exists
      <4> QED
        BY <2>1, <3>1, <4>1, StayInstance
    <3>2. CASE ~(valid /\ e \in earlier)
      <4>1. task'[e] = task[e]
        BY <2>1, <3>2
      <4> QED
        BY <4>1, StayInstance
    <3> QED
      BY <3>1, <3>2
  <2>4. CASE ~created
    <3>1. MakersStay
      BY <2>1, <2>2, <2>4, NoMaker DEF Idle
    <3> QED
      BY <2>3, <2>4, <3>1, OnlyMakersMake
  <2>5. CASE created
    <3>1. d \in Dates
      BY <2>5 DEF Roles, Sensible
    <3>2. d \notin earlier
      BY <2>5 DEF Open, Exists
    <3>3. task'[d] = [status |-> "open", done |-> FALSE, copied |-> 0, announced |-> 0]
      BY <2>1, <2>5, <3>1, <3>2 DEF Absent
    <3>4. act' = [act EXCEPT ![u] = Doing("skip", "copy", None, d, {})]
      BY <2>1, <2>5 DEF Becomes
    <3>5. act'[u].pc = "copy" /\ act'[u].date = d
      BY <1>0, <3>4 DEF Doing
    <3>6. Making(u)' /\ act'[u].date = d /\ MakerOf(act[u])'
      BY <3>3, <3>5, BoundAssumption DEF Making, MakerOf, Exists
    <3>7. \A q \in Procs \ {u} : act'[q] = act[q]
      BY <1>0, <3>4
    <3>8. \A e \in Dates \ {d} : SameInstance(e)
      BY <2>3
    <3> QED
      BY <2>1, <2>2, <2>5, <3>1, <3>6, <3>7, <3>8, MakerMakes
  <2> QED
    BY <2>4, <2>5
<1>10. ASSUME NEW p \in Procs, Insert(p)
       PROVE  MadeOnce'
  <2> DEFINE d == act[p].date
  <2>1. d \in Dates /\ act[p].pc = "insert" /\ torn' = torn
    BY <1>10, Parts DEF Insert, ActOK, ghosts
  <2>2. CASE Exists(d)
    <3>1. Becomes(p, Done(p)) /\ UNCHANGED task
      BY <1>10, <2>2 DEF Insert
    <3>2. MakersStay
      BY <2>1, <3>1, NoMaker, DoneTyped DEF Making
    <3> QED
      BY <3>1, <3>2, Stays, OnlyMakersMake
  <2>3. CASE ~Exists(d)
    <3>1. /\ task' = [task EXCEPT ![d] = [Absent EXCEPT !.status = "open"]]
          /\ act' = [act EXCEPT ![p] = [act[p] EXCEPT !.pc = "copy"]]
      BY <1>10, <2>3 DEF Insert, Becomes
    <3>2. task'[d] = [status |-> "open", done |-> FALSE, copied |-> 0, announced |-> 0]
      BY <1>0, <2>1, <3>1 DEF Absent
    <3>3. act'[p].pc = "copy" /\ act'[p].date = d
      BY <1>0, <3>1 DEF Acts
    <3>4. Making(p)' /\ act'[p].date = d /\ MakerOf(act[p])' /\ ~Making(p)
      BY <2>1, <3>2, <3>3, BoundAssumption DEF Making, MakerOf, Exists
    <3>5. \A q \in Procs \ {p} : act'[q] = act[q]
      BY <1>0, <3>1
    <3>6. \A e \in Dates \ {d} : SameInstance(e)
      BY <1>0, <3>1 DEF SameInstance, Exists
    <3> QED
      BY <2>1, <2>3, <3>4, <3>5, <3>6, MakerMakes
  <2> QED
    BY <2>2, <2>3
<1>11. ASSUME NEW p \in Procs, Copy(p)
       PROVE  MadeOnce'
  <2> DEFINE d == act[p].date
             n == task[d].copied + 1
  <2>1. d \in Dates /\ act[p].pc = "copy" /\ Making(p) /\ torn' = torn
    BY <1>11, Parts DEF Copy, ActOK, Making, ghosts
  <2>2. Exists(d) /\ task[d].announced = 0 /\ task[d].copied < Copies /\ task[d] \in Rows
    BY <1>0, <2>1 DEF MadeOnce, MakerOf
  <2>3. /\ task' = [task EXCEPT ![d].copied = n]
        /\ act' = [act EXCEPT ![p] = [act[p] EXCEPT !.pc = IF n >= Copies THEN "announce" ELSE "copy"]]
    BY <1>11 DEF Copy, Becomes
  <2>4. Exists(d)' /\ task'[d].announced = 0 /\ task'[d].copied = n
    BY <1>0, <2>1, <2>2, <2>3 DEF Exists, Rows
  <2>5. act'[p].date = d /\ act'[p].pc = IF n >= Copies THEN "announce" ELSE "copy"
    BY <1>0, <2>3 DEF Acts
  <2>6. task[d].copied \in Nat /\ Copies \in Nat
    BY <2>2, BoundAssumption DEF Rows
  <2>7. Making(p)' /\ act'[p].date = d /\ MakerOf(act[p])'
    BY <2>2, <2>4, <2>5, <2>6 DEF Making, MakerOf
  <2>8. \A q \in Procs \ {p} : act'[q] = act[q]
    BY <1>0, <2>3
  <2>9. \A e \in Dates \ {d} : SameInstance(e)
    BY <1>0, <2>3 DEF SameInstance, Exists
  <2> QED
    BY <2>1, <2>7, <2>8, <2>9, MakerMakes
<1>12. ASSUME NEW p \in Procs, Announce(p)
       PROVE  MadeOnce'
  <2>1. act[p].date \in Dates /\ act[p].pc = "announce" /\ Making(p) /\ torn' = torn
    BY <1>12, Parts DEF Announce, ActOK, Making, ghosts
  <2>2. PICK d \in Dates : act[p].date = d
    BY <2>1
  <2>3. Exists(d) /\ task[d].announced = 0 /\ task[d].copied = Copies /\ task[d] \in Rows
    BY <1>0, <2>1, <2>2 DEF MadeOnce, MakerOf
  <2>4. task' = [task EXCEPT ![d].announced = task[d].announced + 1] /\ act' = [act EXCEPT ![p] = Done(p)]
    BY <1>12, <2>2 DEF Announce, Becomes
  <2>5. Exists(d)' /\ task'[d].announced = 1 /\ task'[d].copied = Copies
    BY <1>0, <2>3, <2>4 DEF Exists, Rows
  <2>6. ~Making(p)'
    BY <1>0, <2>4, DoneTyped DEF Making
  <2>7. \A q \in Procs \ {p} : act'[q] = act[q]
    BY <1>0, <2>4
  <2>8. \A e \in Dates \ {d} : SameInstance(e)
    BY <1>0, <2>4 DEF SameInstance, Exists
  <2> QED
    BY <2>1, <2>2, <2>5, <2>6, <2>7, <2>8, MakerMakes
<1>13. CASE (\E d \in Dates : Generate(d)) \/ Sweep \/ QueueSuccessor \/ Verdict
  <2>1. PICK a : Becomes(Worker, a) /\ a.pc \in {"insert", "verdict", "successor", "idle"}
    <3>1. ASSUME NEW d \in Dates, Generate(d)
          PROVE  \E a : Becomes(Worker, a) /\ a.pc \in {"insert", "verdict"}
      BY <3>1 DEF Generate, Doing
    <3>2. CASE Sweep
      BY <3>2 DEF Sweep, Doing
    <3>3. CASE QueueSuccessor \/ Verdict
      BY <3>3 DEF QueueSuccessor, Verdict, Idle
    <3> QED
      BY <1>13, <3>1, <3>2, <3>3
  <2>2. ~Making(Worker) /\ torn' = torn /\ UNCHANGED task
    BY <1>13 DEF Generate, Sweep, QueueSuccessor, Verdict, Making, Idle, ghosts, records
  <2>3. MakersStay
    BY <2>1, <2>2, NoMaker
  <2> QED
    BY <2>2, <2>3, Stays, OnlyMakersMake
<1>14. CASE SweepDue \/ NewDay \/ UNCHANGED vars
  <2>1. UNCHANGED <<task, act, torn>>
    BY <1>14 DEF SweepDue, NewDay, vars, records, ghosts
  <2>2. MakersStay
    BY <2>1 DEF MakersStay, Making
  <2> QED
    BY <2>1, <2>2, Stays, OnlyMakersMake
<1>15. ASSUME NEW S \in SUBSET Procs, Abandoned(S), UNCHANGED task,
              act' = [p \in Procs |-> IF p \in S THEN Idle ELSE act[p]]
       PROVE  MadeOnce'
  <2>1. MakersStay
    BY <1>15 DEF MakersStay, Making, Abandoned, Idle
  <2> QED
    BY <1>15, <2>1, Stays, OnlyMakersMake
<1>16. ASSUME NEW u \in Users, RequestFails(u)
       PROVE  MadeOnce'
  <2>1. act' = [p \in Procs |-> IF p \in {u} THEN Idle ELSE act[p]]
    BY <1>0, <1>16 DEF RequestFails, Becomes
  <2> QED
    BY <1>15, <1>16, <2>1 DEF RequestFails, records
<1>17. CASE JobFails
  <2>1. act' = [act EXCEPT ![Worker] = Idle] /\ UNCHANGED task
        /\ torn' = torn \union (IF act[Worker].pc \in {"copy", "announce"} THEN {act[Worker].date} ELSE {})
    BY <1>17 DEF JobFails, Becomes, records
  <2>2. MakersStay
    BY <1>0, <2>1 DEF MakersStay, Making, Idle
  <2> QED
    BY <2>1, <2>2, Stays, OnlyMakersMake
<1>18. CASE WebCrash
  BY <1>15, <1>18 DEF WebCrash, records
<1>19. CASE WorkerCrash
  <2>1. act' = [p \in Procs |-> IF p \in {Worker} THEN Idle ELSE act[p]]
    BY <1>0, <1>19 DEF WorkerCrash, Becomes
  <2> QED
    BY <1>15, <1>19, <2>1 DEF WorkerCrash, records
<1>20. ASSUME NEW u \in Users, NEW d \in Dates, Detach(u, d)
       PROVE  MadeOnce'
  <2>1. /\ act' = [p \in Procs |-> Without(p, d)] /\ task' = [task EXCEPT ![d] = Absent]
        /\ torn' = torn \ {d}
    BY <1>20 DEF Detach
  <2>2. ASSUME NEW p \in Procs, Making(p)'
        PROVE  /\ Making(p) /\ act'[p].date = act[p].date /\ act'[p].pc = act[p].pc
               /\ act[p].date \in Dates \ {d}
    <3>1. act'[p] = Without(p, d) /\ act'[p].pc \in {"copy", "announce"}
      BY <2>1, <2>2 DEF Making
    <3>2. Without(p, d) # Idle
      BY <3>1 DEF Idle
    <3>3. act'[p].date = act[p].date /\ act'[p].pc = act[p].pc /\ act[p].date # d
      BY <3>1, <3>2, WithoutFacts
    <3> QED
      BY <3>1, <3>3, Parts DEF Making, ActOK
  <2>3. ASSUME NEW p \in Procs, Making(p), act[p].date # d
        PROVE  act'[p].date = act[p].date /\ act'[p].pc = act[p].pc
    <3>1. act[p].pc \in {"copy", "announce"} /\ act'[p] = Without(p, d)
      BY <2>1, <2>3 DEF Making
    <3> QED
      BY <2>3, <3>1, WithoutFacts
  <2>4. \A e \in Dates \ {d} : task'[e] = task[e] /\ (e \in torn => e \in torn')
    BY <1>0, <2>1
  <2>5. task'[d].status = "absent"
    BY <1>0, <2>1 DEF Absent
  <2>6. ASSUME NEW p \in Procs, Making(p)'
        PROVE  MakerOf(act[p])'
    <3>1. PICK e \in Dates \ {d} : e = act[p].date /\ e = act'[p].date
      BY <2>2, <2>6
    <3>2. Making(p) /\ act'[p].pc = act[p].pc
      BY <2>2, <2>6
    <3>3. MakerOf(act[p])
      BY <3>2 DEF MadeOnce
    <3>4. task'[e] = task[e]
      BY <2>4
    <3> QED
      BY <3>1, <3>2, <3>3, <3>4 DEF MakerOf, Exists
  <2>7. \A p, q \in Procs : Making(p)' /\ Making(q)' /\ act'[p].date = act'[q].date => p = q
    BY <2>2 DEF MadeOnce
  <2>8. ASSUME NEW e \in Dates, Exists(e)'
        PROVE  /\ task'[e].copied <= Copies /\ task'[e].announced <= 1
               /\ \/ \E p \in Procs : act'[p].date = e /\ act'[p].pc \in {"copy", "announce"}
                  \/ e \in torn'
                  \/ task'[e].copied = Copies /\ task'[e].announced = 1
    <3>1. e # d
      BY <2>5, <2>8 DEF Exists
    <3>2. task'[e] = task[e] /\ e \in Existing
      BY <2>4, <2>8, <3>1 DEF Exists, Existing
    <3>3. /\ task[e].copied <= Copies /\ task[e].announced <= 1
          /\ \/ \E p \in Procs : act[p].date = e /\ Making(p)
             \/ e \in torn
             \/ task[e].copied = Copies /\ task[e].announced = 1
      BY <3>2 DEF MadeOnce, OnceOnly, Making
    <3>4. ASSUME NEW p \in Procs, act[p].date = e, Making(p)
          PROVE  act'[p].date = e /\ act'[p].pc \in {"copy", "announce"}
      BY <2>3, <3>1, <3>4 DEF Making
    <3> QED
      BY <2>4, <3>1, <3>2, <3>3, <3>4
  <2>9. OnceOnly'
    BY <2>8 DEF OnceOnly, Existing
  <2> QED
    BY <2>6, <2>7, <2>9 DEF MadeOnce
<1> QED
  BY <1>1, <1>2, <1>3, <1>4, <1>5, <1>6, <1>7, <1>8, <1>9, <1>10, <1>11, <1>12, <1>13, <1>14,
     <1>16, <1>17, <1>18, <1>19, <1>20
     DEF Next, Asks, Proceed, Create, WorkerStep

-----------------------------------------------------------------------------
(* A chain that stands still is accounted for *)

HandingOver(u, d) == act[u].src = d /\ act[u].pc \in {"handoff", "enqueue"}

Over(d) == task[d].status \in {"complete", "archived"}

\* The series goes on after d, is known not to, or is being continued.
Followed(d) ==
  \/ \E e \in Existing : e > d
  \/ cause[d] # "none"
  \/ \E u \in Users : HandingOver(u, d)

\* An instance that is over is followed, or its generation will see to it.
Chain ==
  /\ \A d \in Dates : Over(d) => Followed(d) \/ Claimable(gen[d])
  /\ act[Worker].op = "generate" /\ act[Worker].pc = "insert" => act[Worker].date > act[Worker].src
  /\ act[Worker].op = "generate" /\ act[Worker].pc \in {"copy", "announce", "verdict"} =>
       \A d \in Dates : d = act[Worker].src /\ Over(d) => Followed(d)

\* As long as instances stay, a chain once followed stays so unless the reason why nothing
\* follows is forgotten.
Onward == Existing \subseteq Existing'

LEMMA FollowedOn ==
  ASSUME Onward, NEW d \in Dates, Followed(d),
         cause[d] # "none" => Followed(d)' \/ cause'[d] # "none",
         \A u \in Users : HandingOver(u, d) => Followed(d)' \/ HandingOver(u, d)'
  PROVE  Followed(d)'
<1>1. CASE \E e \in Existing : e > d
  BY <1>1 DEF Onward, Followed
<1>2. CASE cause[d] # "none"
  BY <1>2 DEF Followed
<1>3. CASE \E u \in Users : HandingOver(u, d)
  BY <1>3 DEF Followed
<1> QED
  BY <1>1, <1>2, <1>3 DEF Followed

LEMMA NextOnward ==
  ASSUME TypeOK, TypeOK', Roles, [Next]_vars
  PROVE  Onward \/ \E u \in Users, d \in Dates : Detach(u, d)
<1> USE Basics
<1>0. act \in [Procs -> Acts] /\ task \in [Dates -> Rows] /\ template \in Templates
  BY Parts DEF ActOK, TaskOK, TemplateOK
<1>1. UNCHANGED task => Onward
  BY DEF Onward, Existing, Exists
<1>2. ASSUME NEW u \in Users, NEW rule \in Rules,
             CreateTemplate(u, rule) \/ \E status \in {"active", "paused"} : Edit(u, status, rule)
      PROVE  Onward
  BY <1>1, <1>2 DEF CreateTemplate, Edit
<1>4. ASSUME \A d \in Dates : Exists(d) => Exists(d)'
      PROVE  Onward
  BY <1>4 DEF Onward, Existing
<1>5. ASSUME NEW u \in Users, NEW d \in Dates,
             Complete(u, d) \/ Archive(u, d) \/ Restore(u, d) \/ Reopen(u, d)
      PROVE  Onward
  <2>1. \E status \in {"open", "complete", "archived"} :
          \/ task' = [task EXCEPT ![d].status = status]
          \/ \E done \in {TRUE, FALSE} : task' = [task EXCEPT ![d].status = status, ![d].done = done]
    BY <1>5 DEF Complete, Archive, Restore, Reopen
  <2>2. \A e \in Dates : task'[e].status # task[e].status => task'[e].status \in {"open", "complete", "archived"}
    BY <1>0, <2>1 DEF Rows
  <2> QED
    BY <1>4, <2>1, <2>2 DEF Exists
<1>6. ASSUME NEW p \in Procs, Create(p) \/ (p \in Users /\ CreateFirst(p))
      PROVE  Onward
  <2>1. \/ UNCHANGED task
        \/ \E row \in Rows : row.status = "open" /\ task' = [task EXCEPT ![act[p].date] = row]
        \/ \E n : task' = [task EXCEPT ![act[p].date].copied = n]
        \/ \E n : task' = [task EXCEPT ![act[p].date].announced = n]
    <3>1. [Absent EXCEPT !.status = "open", !.copied = Copies] \in Rows /\ [Absent EXCEPT !.status = "open"] \in Rows
          /\ [Absent EXCEPT !.status = "open", !.copied = Copies].status = "open"
          /\ [Absent EXCEPT !.status = "open"].status = "open"
      BY BoundAssumption DEF Absent, Rows
    <3> QED
      BY <1>6, <3>1 DEF Create, Insert, Copy, Announce, CreateFirst
  <2>2. \A e \in Dates : task'[e].status = task[e].status \/ task'[e].status = "open"
    <3>1. CASE UNCHANGED task
      BY <3>1
    <3>2. ASSUME NEW row \in Rows, row.status = "open", task' = [task EXCEPT ![act[p].date] = row]
          PROVE  \A e \in Dates : task'[e].status = task[e].status \/ task'[e].status = "open"
      BY <1>0, <3>2
    <3>3. ASSUME NEW n, task' = [task EXCEPT ![act[p].date].copied = n]
          PROVE  \A e \in Dates : task'[e].status = task[e].status
      BY <1>0, <3>3 DEF Rows
    <3>4. ASSUME NEW n, task' = [task EXCEPT ![act[p].date].announced = n]
          PROVE  \A e \in Dates : task'[e].status = task[e].status
      BY <1>0, <3>4 DEF Rows
    <3> QED
      BY <2>1, <3>1, <3>2, <3>3, <3>4
  <2> QED
    BY <1>4, <2>1, <2>2 DEF Exists
<1>7. ASSUME NEW u \in Users, SkipCommit(u)
      PROVE  Onward
  <2>2. \A e \in Dates : \/ task'[e] = task[e]
                         \/ task'[e] = [task[e] EXCEPT !.status = "complete", !.done = TRUE]
                         \/ task'[e] = [Absent EXCEPT !.status = "open"]
    BY <1>7 DEF SkipCommit
  <2>3. \A e \in Dates : task'[e].status \in {task[e].status, "complete", "open"}
    BY <1>0, <2>2 DEF Rows, Absent
  <2> QED
    BY <1>4, <2>3 DEF Exists
<1>8. ASSUME NEW u \in Users, \/ \E d \in Dates : Touch(u, d)
                              \/ Skip(u) \/ Handoff(u) \/ Enqueue(u) \/ RequestFails(u)
      PROVE  Onward
  BY <1>1, <1>8 DEF Touch, Skip, Handoff, Enqueue, RequestFails, records
<1>9. CASE \/ \E d \in Dates : Generate(d)
           \/ Sweep \/ QueueSuccessor \/ Verdict \/ JobFails
           \/ SweepDue \/ NewDay \/ WebCrash \/ WorkerCrash \/ UNCHANGED vars
  BY <1>1, <1>9 DEF Generate, Sweep, QueueSuccessor, Verdict, JobFails, SweepDue, NewDay, WebCrash, WorkerCrash,
                    vars, records
<1> QED
  BY <1>2, <1>5, <1>6, <1>7, <1>8, <1>9 DEF Next, Asks, Proceed, WorkerStep

LEMMA Quiet ==
  ASSUME Onward, UNCHANGED cause,
         \A u \in Users, d \in Dates : HandingOver(u, d) => HandingOver(u, d)'
  PROVE  \A d \in Dates : Followed(d) => Followed(d)'
BY FollowedOn

LEMMA UserChain ==
  ASSUME Chain, act'[Worker] = act[Worker], UNCHANGED gen,
         \A d \in Dates : Followed(d) => Followed(d)',
         \A d \in Dates : Over(d)' => Over(d) \/ Followed(d)'
  PROVE  Chain'
<1>1. \A d \in Dates : Over(d)' => Followed(d)' \/ Claimable(gen'[d])
  BY DEF Chain
<1>2. act'[Worker].op = "generate" /\ act'[Worker].pc \in {"copy", "announce", "verdict"} =>
        \A d \in Dates : d = act'[Worker].src /\ Over(d)' => Followed(d)'
  BY DEF Chain
<1> QED
  BY <1>1, <1>2 DEF Chain

LEMMA WorkerChain ==
  ASSUME TypeOK, Chain, UNCHANGED task,
         NEW a, Becomes(Worker, a),
         \A d \in Dates : Followed(d) => Followed(d)',
         \A d \in Dates : Over(d) /\ Claimable(gen[d]) => Followed(d)' \/ Claimable(gen'[d]),
         a.op = "generate" /\ a.pc = "insert" => a.date > a.src,
         a.op = "generate" /\ a.pc \in {"copy", "announce", "verdict"} =>
           \A d \in Dates : d = a.src /\ Over(d) => Followed(d)'
  PROVE  Chain'
<1>1. \A d \in Dates : Over(d)' => Followed(d)' \/ Claimable(gen'[d])
  BY DEF Chain, Over
<1>2. act \in [Procs -> Acts] /\ Worker \in Procs
  BY Parts, Basics DEF ActOK
<1>3. act'[Worker] = a
  BY <1>2 DEF Becomes
<1>4. \A d \in Dates : Over(d)' <=> Over(d)
  BY DEF Over
<1> QED
  BY <1>1, <1>3, <1>4 DEF Chain

\* When a task leaves the series, the instance that thereby becomes the last one has a reason.
LEMMA DetachChain ==
  ASSUME TypeOK, Roles, Chain, NEW u \in Users, NEW d \in Dates, Detach(u, d)
  PROVE  Chain'
<1> USE Basics
<1> DEFINE rest == Existing \ {d}
<1>1. /\ task' = [task EXCEPT ![d] = Absent] /\ gen' = [gen EXCEPT ![d] = NoJob]
      /\ act' = [p \in Procs |-> Without(p, d)]
      /\ cause' = [e \in Dates |-> IF e = d THEN "none"
                                   ELSE IF d = Latest /\ rest # {} /\ e = Max(rest) THEN "detached"
                                   ELSE cause[e]]
      /\ Exists(d)
  BY DEF Detach
<1>2. act \in [Procs -> Acts] /\ task \in [Dates -> Rows] /\ gen \in [Dates -> Jobs]
  BY Parts DEF ActOK, TaskOK, JobsOK
<1>3. /\ ~Over(d)' /\ Existing' = rest
      /\ \A e \in Dates \ {d} : gen'[e] = gen[e] /\ (Over(e)' <=> Over(e))
  <2>1. task'[d].status = "absent" /\ \A e \in Dates \ {d} : task'[e] = task[e] /\ gen'[e] = gen[e]
    BY <1>1, <1>2 DEF Absent
  <2> QED
    BY <2>1 DEF Over, Existing, Exists
<1>4. ASSUME NEW e \in Dates, Over(e)', Followed(e)
      PROVE  Followed(e)'
  <2>1. e # d /\ e \in rest
    BY <1>3, <1>4 DEF Over, Existing, Exists
  <2>2. CASE cause[e] # "none"
    BY <1>1, <2>1, <2>2 DEF Followed
  <2>3. ASSUME NEW v \in Users, HandingOver(v, e)
        PROVE  HandingOver(v, e)'
    <3>1. v \in Procs /\ act[v].src = e /\ act[v].pc \in {"handoff", "enqueue"}
      BY <2>3 DEF HandingOver
    <3>2. Without(v, d).src = e /\ Without(v, d).pc = act[v].pc
      BY <2>1, <3>1, WithoutFacts
    <3> QED
      BY <1>1, <3>1, <3>2 DEF HandingOver
  <2>4. CASE \E f \in rest : f > e
    BY <1>3, <2>4 DEF Followed
  <2>5. CASE (\E f \in Existing : f > e) /\ ~ \E f \in rest : f > e
    <3>1. rest \subseteq Dates /\ d \in Existing /\ d > e
      BY <1>1, <2>5 DEF Existing
    <3>6. e \in Nat /\ d \in Nat /\ \A f \in rest : f \in Nat
      BY <3>1
    <3>2. \A f \in rest : f <= e
      <4> TAKE f \in rest
      <4>1. ~(f > e) /\ f \in Nat
        BY <2>5, <3>6
      <4> QED
        BY <3>6, <4>1
    <3>3. Max(rest) = e
      <4>1. Max(rest) \in rest /\ \A f \in rest : f <= Max(rest)
        <5>1. \E x \in rest : \A y \in rest : y <= x
          BY <2>1, <3>2
        <5> QED
          BY <5>1 DEF Max
      <4>2. Max(rest) <= e /\ e <= Max(rest)
        BY <2>1, <3>2, <4>1
      <4>3. Max(rest) \in Nat
        BY <3>6, <4>1
      <4> QED
        BY <3>6, <4>2, <4>3
    <3>4. Latest = d
      <4>1. Latest \in Existing /\ d <= Latest
        BY <3>1, LatestFacts
      <4>2. CASE Latest \in rest
        <5>1. Latest <= e /\ Latest \in Dates
          BY <3>1, <3>2, <4>2
        <5> QED
          BY <3>1, <4>1, <5>1
      <4> QED
        BY <4>1, <4>2
    <3>5. cause'[e] = "detached"
      BY <1>1, <2>1, <3>3, <3>4
    <3> QED
      BY <3>5 DEF Followed
  <2> QED
    BY <1>4, <2>2, <2>3, <2>4, <2>5 DEF Followed
<1>5. \A e \in Dates : Over(e)' => Followed(e)' \/ Claimable(gen'[e])
  BY <1>3, <1>4 DEF Chain
<1>6. act'[Worker] = Without(Worker, d)
  BY <1>1
<1>7. ASSUME act'[Worker].op = "generate", act'[Worker].pc = "insert"
      PROVE  act'[Worker].date > act'[Worker].src
  <2>1. Without(Worker, d) # Idle
    BY <1>6, <1>7 DEF Idle
  <2>2. /\ act[Worker].op = "generate" /\ act[Worker].pc = "insert" /\ act'[Worker].date = act[Worker].date
        /\ act'[Worker].src \in {act[Worker].src, None}
    BY <1>6, <1>7, <2>1, WithoutFacts
  <2>3. act[Worker].date > act[Worker].src /\ act[Worker].date \in Dates
    BY <2>2, Parts DEF Chain, ActOK
  <2>4. act[Worker].date > None
    BY <2>3 DEF None, Dates
  <2> QED
    BY <2>2, <2>3, <2>4
<1>8. ASSUME act'[Worker].op = "generate", act'[Worker].pc \in {"copy", "announce", "verdict"},
             NEW e \in Dates, e = act'[Worker].src, Over(e)'
      PROVE  Followed(e)'
  <2>1. Without(Worker, d) # Idle
    BY <1>6, <1>8 DEF Idle
  <2>2. /\ act[Worker].op = "generate" /\ act[Worker].pc \in {"copy", "announce", "verdict"}
        /\ e = act[Worker].src
    BY <1>6, <1>8, <2>1, WithoutFacts
  <2>3. Followed(e)
    BY <1>3, <1>8, <2>2 DEF Chain
  <2> QED
    BY <1>4, <1>8, <2>3
<1> QED
  BY <1>5, <1>7, <1>8 DEF Chain

LEMMA NextChain ==
  ASSUME TypeOK, TypeOK', Roles, Roles', Chain, Onward, [Next]_vars
  PROVE  Chain'
<1> USE Basics
<1>0. /\ act \in [Procs -> Acts] /\ task \in [Dates -> Rows] /\ gen \in [Dates -> Jobs]
      /\ cause \in [Dates -> Reasons] /\ template \in Templates
  BY Parts DEF ActOK, TaskOK, JobsOK, GhostsOK, TemplateOK
<1>1. ASSUME NEW u \in Users, NEW a, Becomes(u, a), act[u].pc \notin {"handoff", "enqueue"},
             UNCHANGED <<gen, cause>>,
             \A d \in Dates : Over(d)' => Over(d) \/ Followed(d)'
      PROVE  Chain'
  <2>1. act'[u] = a /\ \A p \in Procs \ {u} : act'[p] = act[p]
    BY <1>0, <1>1 DEF Becomes
  <2>2. \A d \in Dates : Followed(d) => Followed(d)'
    BY <1>1, <2>1, Quiet DEF HandingOver
  <2> QED
    BY <1>1, <2>1, <2>2, UserChain
<1>2. ASSUME UNCHANGED <<act, gen, cause>>,
             \A d \in Dates : Over(d)' => Over(d) \/ Followed(d)'
      PROVE  Chain'
  <2>1. \A d \in Dates : Followed(d) => Followed(d)'
    BY <1>2, Quiet DEF HandingOver
  <2> QED
    BY <1>2, <2>1, UserChain
<1>3. ASSUME NEW u \in Users, NEW rule \in Rules, CreateTemplate(u, rule)
      PROVE  Chain'
  BY <1>1, <1>3 DEF CreateTemplate, Free, Idle, Doing, Over, jobs, ghosts
<1>4. ASSUME NEW u \in Users, NEW rule \in Rules, NEW status \in {"active", "paused"}, Edit(u, status, rule)
      PROVE  Chain'
  BY <1>2, <1>4 DEF Edit, Over, jobs, ghosts
<1>5. ASSUME NEW u \in Users, NEW d \in Dates, Complete(u, d)
      PROVE  Chain'
  <2>1. act' = [act EXCEPT ![u] = Doing("complete", "handoff", d, None, {})] /\ act[u].pc = "idle"
        /\ UNCHANGED <<gen, cause>>
    BY <1>5 DEF Complete, Request, Free, Idle, Becomes, jobs, ghosts
  <2>2. act'[u].src = d /\ act'[u].pc = "handoff"
    BY <1>0, <2>1 DEF Doing
  <2>3. Followed(d)'
    BY <2>2 DEF Followed, HandingOver
  <2>4. \A e \in Dates : Over(e)' => Over(e) \/ Followed(e)'
    BY <1>0, <1>5, <2>3 DEF Complete, Over
  <2>5. /\ Becomes(u, Doing("complete", "handoff", d, None, {}))
        /\ Doing("complete", "handoff", d, None, {}).pc = "handoff"
    BY <2>1 DEF Becomes, Doing
  <2> QED
    BY <1>1, <2>1, <2>4, <2>5
<1>6. ASSUME NEW u \in Users, NEW d \in Dates, Touch(u, d)
      PROVE  Chain'
  BY <1>1, <1>6 DEF Touch, Request, Free, Idle, Doing, Over, records, jobs, ghosts
<1>7. ASSUME NEW u \in Users, NEW d \in Dates, Archive(u, d)
      PROVE  Chain'
  <2>1. /\ task' = [task EXCEPT ![d].status = "archived"] /\ task[d].status \in {"open", "complete"}
        /\ cause' = [cause EXCEPT ![d] = IF task[d].status = "open" THEN "archived" ELSE @]
        /\ UNCHANGED <<template, gen, act>>
    BY <1>7 DEF Archive, jobs
  <2>2. \A e \in Dates : cause'[e] = cause[e] \/ cause'[e] = "archived"
    BY <1>0, <2>1
  <2>3. \A e \in Dates : Followed(e) => Followed(e)'
    BY <2>1, <2>2, FollowedOn DEF HandingOver
  <2>4. \A e \in Dates : Over(e)' => Over(e) \/ Followed(e)'
    <3>1. task[d].status = "open" => cause'[d] # "none"
      BY <1>0, <2>1
    <3>2. \A e \in Dates \ {d} : task'[e] = task[e]
      BY <1>0, <2>1
    <3> QED
      BY <2>1, <3>1, <3>2 DEF Over, Followed
  <2> QED
    BY <2>1, <2>3, <2>4, UserChain
<1>8. ASSUME NEW u \in Users, NEW d \in Dates, Restore(u, d) \/ Reopen(u, d)
      PROVE  Chain'
  <2>1. \A e \in Dates : Over(e)' => Over(e)
    BY <1>0, <1>8 DEF Restore, Reopen, Over
  <2> QED
    BY <1>2, <1>8, <2>1 DEF Restore, Reopen, jobs, ghosts
<1>9. ASSUME NEW u \in Users, Skip(u)
      PROVE  Chain'
  <2>1. PICK a : Becomes(u, a)
    BY <1>9 DEF Skip
  <2>2. act[u].pc = "idle" /\ UNCHANGED <<task, gen, cause>>
    BY <1>9 DEF Skip, Request, Free, Idle, records, jobs, ghosts
  <2> QED
    BY <1>1, <2>1, <2>2 DEF Over
<1>10. ASSUME NEW u \in Users, CreateFirst(u)
       PROVE  Chain'
  <2>1. PICK a : Becomes(u, a) /\ a.pc \in {"idle", "announce"}
    BY <1>0, <1>10 DEF CreateFirst, Idle, Acts
  <2>2. \A d \in Dates : Over(d)' => Over(d)
    <3>1. \/ UNCHANGED task
          \/ task' = [task EXCEPT ![act[u].date] = [Absent EXCEPT !.status = "open", !.copied = Copies]]
      BY <1>10 DEF CreateFirst
    <3>2. [Absent EXCEPT !.status = "open", !.copied = Copies].status = "open"
      BY DEF Absent
    <3>3. \A d \in Dates : task'[d] = task[d] \/ task'[d].status = "open"
      BY <1>0, <3>1, <3>2
    <3> QED
      BY <3>3 DEF Over
  <2> QED
    BY <1>1, <1>10, <2>1, <2>2 DEF CreateFirst, jobs, ghosts
<1>11. ASSUME NEW u \in Users, Handoff(u)
       PROVE  Chain'
  <2>1. PICK d \in Dates : d = act[u].src
    BY <1>11 DEF Handoff, Roles, Sensible
  <2>2. /\ UNCHANGED <<task, template, gen>>
        /\ act' = [act EXCEPT ![u] = Idle] \/ act' = [act EXCEPT ![u] = [act[u] EXCEPT !.pc = "enqueue"]]
        /\ \A e \in Dates \ {d} : cause'[e] = cause[e]
    BY <1>0, <1>11, <2>1 DEF Handoff, Becomes, records, jobs
  <2>3. Followed(d)'
    <3>1. CASE template.status # "active" \/ NextDate(d) = None
      <4>1. cause'[d] = NoSuccessor(NextDate(d))
        BY <1>0, <1>11, <2>1 DEF Handoff
      <4>2. cause'[d] # "none"
        BY <3>1, <4>1 DEF NoSuccessor
      <4> QED
        BY <4>2 DEF Followed
    <3>3. CASE NextDate(d) # None /\ NextDate(d) \in Existing
      <4>1. NextDate(d) \in Existing' /\ NextDate(d) > d
        BY <3>3, NextFacts DEF Onward
      <4> QED
        BY <4>1 DEF Followed
    <3>4. CASE ~(template.status # "active" \/ NextDate(d) = None \/ NextDate(d) \in Existing)
      <4>1. Becomes(u, [act[u] EXCEPT !.pc = "enqueue"])
        BY <1>11, <2>1, <3>4 DEF Handoff
      <4>2. act'[u].pc = "enqueue" /\ act'[u].src = d
        BY <1>0, <2>1, <4>1 DEF Becomes, Acts
      <4> QED
        BY <4>2 DEF Followed, HandingOver
    <3> QED
      BY <3>1, <3>3, <3>4
  <2>4. act'[u].pc \in {"idle", "enqueue"} /\ \A p \in Procs \ {u} : act'[p] = act[p]
    BY <1>0, <2>2 DEF Idle, Acts
  <2>5. \A e \in Dates : Followed(e) => Followed(e)'
    <3>1. \A e \in Dates \ {d} : Followed(e) => Followed(e)'
      BY <2>1, <2>2, <2>4, FollowedOn DEF HandingOver
    <3> QED
      BY <2>3, <3>1
  <2> QED
    BY <2>2, <2>4, <2>5, UserChain DEF Over
<1>12. ASSUME NEW u \in Users, Enqueue(u)
       PROVE  Chain'
  <2>1. PICK d \in Dates : d = act[u].src
    BY <1>12 DEF Enqueue, Roles, Sensible
  <2>2. /\ UNCHANGED <<task, template>>
        /\ act' = [act EXCEPT ![u] = Idle]
        /\ \A e \in Dates \ {d} : gen'[e] = gen[e]
        /\ \A e \in Dates : cause'[e] \in {cause[e], "dropped"}
    BY <1>0, <1>12, <2>1 DEF Enqueue, Becomes, records
  <2>3. act'[u].pc = "idle" /\ \A p \in Procs \ {u} : act'[p] = act[p]
    BY <1>0, <2>2 DEF Idle
  <2>4. \A e \in Dates \ {d} : Followed(e) => Followed(e)'
    BY <2>1, <2>2, <2>3, FollowedOn DEF HandingOver
  <2>5. gen[d].status = "running" => Followed(d)'
    <3>1. gen[d].status = "running" => cause' = [cause EXCEPT ![d] = "dropped"]
      BY <1>12, <2>1 DEF Enqueue
    <3> QED
      BY <1>0, <3>1 DEF Followed
  <2>6. gen[d].status # "running" => Claimable(gen'[d])
    BY <1>0, <1>12, <2>1 DEF Enqueue, Claimable, FreshJob, Jobs
  <2>7. \A e \in Dates : Over(e)' => Followed(e)' \/ Claimable(gen'[e])
    BY <2>2, <2>4, <2>5, <2>6 DEF Chain, Over
  <2>8. act[Worker].op = "generate" /\ act[Worker].pc \in {"copy", "announce", "verdict"} =>
          \A e \in Dates : e = act[Worker].src /\ Over(e) => Followed(e)'
    BY <2>4, <2>5 DEF Chain, Roles
  <2>9. \A e \in Dates : Over(e)' <=> Over(e)
    BY <2>2 DEF Over
  <2> QED
    BY <2>3, <2>7, <2>8, <2>9 DEF Chain
<1>13. ASSUME NEW u \in Users, SkipCommit(u)
       PROVE  Chain'
  <2> DEFINE earlier == {e \in Open : e < act[u].date}
             valid == /\ template.status = "active" /\ template.rule = act[u].rule
                      /\ template.checkpoint <= act[u].date /\ earlier \subseteq act[u].ids
             created == valid /\ act[u].pc = "skip" /\ ~Exists(act[u].date)
  <2>1. /\ task' = [e \in Dates |->
             IF valid /\ e \in earlier THEN [task[e] EXCEPT !.status = "complete", !.done = TRUE]
             ELSE IF created /\ e = act[u].date THEN [Absent EXCEPT !.status = "open"]
             ELSE task[e]]
        /\ cause' = [e \in Dates |-> IF valid /\ act[u].pc = "end" /\ e \in earlier THEN "ended" ELSE cause[e]]
        /\ act[u].pc \in {"skip", "end"} /\ UNCHANGED gen
        /\ Becomes(u, IF created THEN Doing("skip", "copy", None, act[u].date, {}) ELSE Idle)
    BY <1>13 DEF SkipCommit, jobs
  <2>2. PICK t \in Boundaries : t = act[u].date
    BY <1>0 DEF Acts
  <2>3. ASSUME NEW e \in Dates, valid, e \in earlier
        PROVE  Followed(e)'
    <3>1. CASE act[u].pc = "skip"
      <4>1. t \in Dates /\ t > e
        BY <2>2, <2>3, <3>1 DEF Roles, Sensible
      <4>2. task'[t].status # "absent"
        <5>1. t \notin earlier
          <6>1. t \in Nat /\ ~(t < t)
            BY <4>1
          <6> QED
            BY <2>2, <6>1
        <5>2. Exists(t) => task'[t] = task[t]
          BY <2>1, <2>2, <4>1, <5>1
        <5>3. ~Exists(t) => task'[t].status = "open"
          BY <2>1, <2>2, <2>3, <3>1, <4>1, <5>1 DEF Absent
        <5> QED
          BY <5>2, <5>3 DEF Exists
      <4>3. t \in Existing'
        BY <4>1, <4>2 DEF Existing, Exists
      <4> QED
        BY <4>1, <4>3 DEF Followed
    <3>2. CASE act[u].pc = "end"
      <4>1. cause'[e] = "ended"
        BY <2>1, <2>3, <3>2
      <4> QED
        BY <4>1 DEF Followed
    <3> QED
      BY <2>1, <3>1, <3>2
  <2>4. \A e \in Dates : Over(e)' => Over(e) \/ Followed(e)'
    <3> SUFFICES ASSUME NEW e \in Dates, Over(e)'
                 PROVE  Over(e) \/ Followed(e)'
      OBVIOUS
    <3>1. CASE valid /\ e \in earlier
      BY <2>3, <3>1
    <3>2. CASE ~(valid /\ e \in earlier)
      <4>1. task'[e] = task[e] \/ task'[e].status = "open"
        BY <2>1, <3>2 DEF Absent
      <4> QED
        BY <4>1 DEF Over
    <3> QED
      BY <3>1, <3>2
  <2>5. act'[Worker] = act[Worker] /\ \A v \in Users, e \in Dates : HandingOver(v, e) => HandingOver(v, e)'
    <3>1. PICK a : act' = [act EXCEPT ![u] = a]
      BY <2>1 DEF Becomes
    <3>2. \A p \in Procs \ {u} : act'[p] = act[p]
      BY <1>0, <3>1
    <3> QED
      BY <2>1, <3>2 DEF HandingOver
  <2>6. \A e \in Dates : cause'[e] \in {cause[e], "ended"}
    BY <2>1
  <2>7. \A e \in Dates : Followed(e) => Followed(e)'
    BY <2>5, <2>6, FollowedOn
  <2> QED
    BY <2>1, <2>4, <2>5, <2>7, UserChain
<1>14. ASSUME NEW p \in Procs, Create(p)
       PROVE  Chain'
  <2>1. act[p].pc \in {"insert", "copy", "announce"} /\ UNCHANGED <<template, gen, cause>>
    BY <1>14 DEF Create, Insert, Copy, Announce, jobs, ghosts
  <2>2. PICK pc \in {"copy", "announce"} : Becomes(p, Done(p)) \/ Becomes(p, [act[p] EXCEPT !.pc = pc])
    BY <1>14 DEF Create, Insert, Copy, Announce
  <2>3. \A d \in Dates : Over(d)' => Over(d)
    <3>1. CASE Insert(p)
      BY <1>0, <3>1 DEF Insert, Over, Absent
    <3>2. CASE Copy(p) \/ Announce(p)
      BY <1>0, <3>2 DEF Copy, Announce, Over, Rows
    <3> QED
      BY <1>14, <3>1, <3>2 DEF Create
  <2>4. CASE p \in Users
    <3>1. PICK a : Becomes(p, a)
      BY <2>2
    <3> QED
      BY <1>1, <2>1, <2>3, <2>4, <3>1
  <2>5. CASE p = Worker
    <3>1. \A q \in Users : act'[q] = act[q]
      BY <1>0, <2>2, <2>5 DEF Becomes
    <3>2. \A d \in Dates : Followed(d) => Followed(d)'
      BY <2>1, <3>1, Quiet DEF HandingOver
    <3>3. /\ act[Worker].op \in {"generate", "sweep"} /\ act[Worker] \in Acts
          /\ act[Worker].op = "generate" => act[Worker].src \in Dates \union {None}
      BY <1>0, <2>1, <2>5 DEF Roles, WorkersPart, Sensible
    <3>4. act'[Worker].op = act[Worker].op /\ act'[Worker].src = act[Worker].src
          /\ act'[Worker].pc \in {"copy", "announce", "successor", "verdict"}
      BY <1>0, <2>2, <2>5, <3>3 DEF Becomes, Done, Acts
    <3>5. ASSUME act[Worker].op = "generate", NEW s \in Dates, s = act[Worker].src, Over(s)'
          PROVE  Followed(s)'
      <4>1. CASE act[Worker].pc \in {"copy", "announce"}
        BY <2>3, <3>2, <3>5, <4>1 DEF Chain
      <4>2. CASE act[Worker].pc = "insert"
        <5>1. PICK d \in Dates : d = act[Worker].date
          BY <4>2, Parts DEF ActOK
        <5>2. d > s
          BY <3>5, <4>2, <5>1 DEF Chain
        <5>3. task'[d].status # "absent"
          <6>1. CASE Exists(d)
            BY <6>1, <5>1 DEF Onward, Existing, Exists
          <6>2. CASE ~Exists(d)
            <7>1. task' = [task EXCEPT ![d] = [Absent EXCEPT !.status = "open"]]
              BY <1>14, <2>5, <4>2, <5>1, <6>2 DEF Create, Insert, Copy, Announce
            <7> QED
              BY <1>0, <7>1 DEF Absent
          <6> QED
            BY <6>1, <6>2
        <5>4. d \in Existing'
          BY <5>3 DEF Existing, Exists
        <5> QED
          BY <5>2, <5>4 DEF Followed
      <4> QED
        BY <2>1, <2>5, <4>1, <4>2
    <3>6. \A d \in Dates : Over(d)' => Followed(d)' \/ Claimable(gen'[d])
      BY <2>1, <2>3, <3>2 DEF Chain
    <3> QED
      BY <3>4, <3>5, <3>6 DEF Chain
  <2> QED
    BY <2>4, <2>5 DEF Procs
<1>15. ASSUME NEW d \in Dates, Generate(d)
       PROVE  Chain'
  <2>1. /\ gen' = [gen EXCEPT ![d] = Claimed(gen[d])] /\ act[Worker].pc = "idle"
        /\ UNCHANGED <<task, template>>
    BY <1>15 DEF Generate, Idle, records
  <2>2. cause' = [cause EXCEPT ![d] = IF template.status = "active" /\ NextDate(d) # None
                                      THEN cause[d] ELSE NoSuccessor(NextDate(d))]
    BY <1>15 DEF Generate
  <2>3. PICK a : /\ Becomes(Worker, a) /\ a.src = d
                 /\ a.pc \in {"insert", "verdict"}
                 /\ a.pc = "insert" => NextDate(d) # None /\ a.date = NextDate(d)
                 /\ a.pc = "verdict" => template.status # "active" \/ NextDate(d) = None
    BY <1>15 DEF Generate, Doing
  <2>4. \A e \in Dates : cause'[e] \in {cause[e], "paused", "ended"}
    BY <1>0, <2>2 DEF NoSuccessor
  <2>5. \A u \in Users : act'[u] = act[u]
    BY <1>0, <2>3 DEF Becomes
  <2>6. \A e \in Dates : Followed(e) => Followed(e)'
    BY <2>4, <2>5, FollowedOn DEF HandingOver
  <2>7. \A e \in Dates : Claimable(gen[e]) => Claimable(gen'[e])
    BY <1>0, <2>1 DEF Claimable, Claimed
  <2>8. a.pc = "verdict" => Followed(d)'
    <3>1. template.status # "active" \/ NextDate(d) = None => cause'[d] # "none"
      BY <1>0, <2>2 DEF NoSuccessor
    <3> QED
      BY <2>3, <3>1 DEF Followed
  <2>9. a.pc = "insert" => a.date > a.src
    BY <2>3, NextFacts
  <2>10. act'[Worker] = a
    BY <1>0, <2>3 DEF Becomes
  <2>11. \A e \in Dates : Over(e)' => Followed(e)' \/ Claimable(gen'[e])
    BY <2>1, <2>6, <2>7 DEF Chain, Over
  <2> QED
    BY <2>3, <2>8, <2>9, <2>10, <2>11 DEF Chain
<1>16. ASSUME NEW a, Becomes(Worker, a), a.op # "generate", UNCHANGED <<task, template, cause, gen>>
       PROVE  Chain'
  <2>1. \A u \in Users : act'[u] = act[u]
    BY <1>0, <1>16 DEF Becomes
  <2>2. \A e \in Dates : Followed(e) => Followed(e)'
    BY <1>16, <2>1, Quiet DEF HandingOver
  <2> QED
    BY <1>16, <2>2, WorkerChain
<1>17. CASE Sweep
  <2>1. PICK a : Becomes(Worker, a) /\ a.op = "sweep"
    BY <1>17 DEF Sweep, Doing
  <2> QED
    BY <1>16, <1>17, <2>1 DEF Sweep, records, ghosts
<1>18. CASE QueueSuccessor
  BY <1>16, <1>18, IdlePart DEF QueueSuccessor, records, ghosts
<1>19. CASE Verdict
  <2>1. act[Worker].op = "generate" /\ act[Worker].pc = "verdict"
    BY <1>19 DEF Verdict, Roles, WorkersPart
  <2>2. /\ gen' = [d \in Dates |-> IF d = act[Worker].src THEN NoJob ELSE gen[d]]
        /\ Becomes(Worker, Idle) /\ UNCHANGED <<task, cause>>
    BY <1>19 DEF Verdict, records, ghosts
  <2>3. \A u \in Users : act'[u] = act[u]
    BY <1>0, <2>2 DEF Becomes
  <2>4. \A e \in Dates : Followed(e) => Followed(e)'
    BY <2>2, <2>3, Quiet DEF HandingOver
  <2>5. \A e \in Dates : Over(e) /\ Claimable(gen[e]) => Followed(e)' \/ Claimable(gen'[e])
    BY <2>1, <2>2, <2>4 DEF Chain
  <2> QED
    BY <2>2, <2>4, <2>5, IdlePart, WorkerChain
<1>20. CASE SweepDue \/ NewDay \/ UNCHANGED vars
  BY <1>2, <1>20 DEF SweepDue, NewDay, vars, records, jobs, ghosts, Over
<1>21. ASSUME NEW S \in SUBSET Procs, Abandoned(S), UNCHANGED <<task, template, gen>>,
              act' = [p \in Procs |-> IF p \in S THEN Idle ELSE act[p]]
       PROVE  Chain'
  <2> DEFINE lost == {act[p].src : p \in {q \in S : act[q].pc \in {"handoff", "enqueue"}}}
  <2>1. cause' = [d \in Dates |-> IF d \in lost THEN "lost" ELSE cause[d]]
    BY <1>21 DEF Abandoned
  <2>2. ASSUME NEW d \in Dates, NEW u \in Users, HandingOver(u, d)
        PROVE  Followed(d)' \/ HandingOver(u, d)'
    <3>1. CASE u \in S
      <4>1. d \in lost
        BY <2>2, <3>1 DEF HandingOver
      <4>2. cause'[d] = "lost"
        BY <2>1, <4>1
      <4> QED
        BY <4>2 DEF Followed
    <3>2. CASE u \notin S
      BY <1>21, <2>2, <3>2 DEF HandingOver
    <3> QED
      BY <3>1, <3>2
  <2>3. \A d \in Dates : cause'[d] \in {cause[d], "lost"}
    BY <2>1
  <2>4. \A d \in Dates : Followed(d) => Followed(d)'
    BY <2>2, <2>3, FollowedOn
  <2>5. \A d \in Dates : Over(d)' => Followed(d)' \/ Claimable(gen'[d])
    BY <1>21, <2>4 DEF Chain, Over
  <2>6. \A p \in Procs : act'[p] \in {act[p], Idle} /\ Idle.pc = "idle" /\ Idle.op = "none"
    BY <1>21 DEF Idle
  <2>7. act'[Worker].op = "generate" => act'[Worker] = act[Worker]
    BY <2>6
  <2>8. \A d \in Dates : Over(d)' <=> Over(d)
    BY <1>21 DEF Over
  <2> QED
    BY <2>4, <2>5, <2>7, <2>8 DEF Chain
<1>22. ASSUME NEW u \in Users, RequestFails(u)
       PROVE  Chain'
  <2>1. act' = [p \in Procs |-> IF p \in {u} THEN Idle ELSE act[p]]
    BY <1>0, <1>22 DEF RequestFails, Becomes
  <2> QED
    BY <1>21, <1>22, <2>1 DEF RequestFails, records, jobs
<1>23. CASE JobFails
  <2>1. Becomes(Worker, Idle) /\ UNCHANGED <<task, template>> /\ act[Worker].op \in {"generate", "sweep"}
    BY <1>23 DEF JobFails, records, Roles, WorkersPart, Sensible, Idle
  <2>2. CASE act[Worker].op = "sweep"
    BY <1>16, <1>23, <2>1, <2>2, IdlePart DEF JobFails
  <2>3. CASE act[Worker].op = "generate"
    <3>2. /\ gen' = [d \in Dates |-> IF d = act[Worker].src THEN Judged(gen[d]) ELSE gen[d]]
          /\ cause' = [d \in Dates |-> IF d = act[Worker].src /\ gen'[d].status = "dead" THEN "dead" ELSE cause[d]]
      BY <1>23, <2>3 DEF JobFails
    <3>3. \A e \in Dates : cause'[e] \in {cause[e], "dead"}
      BY <3>2
    <3>4. \A u \in Users : act'[u] = act[u]
      BY <1>0, <2>1 DEF Becomes
    <3>5. \A e \in Dates : Followed(e) => Followed(e)'
      BY <3>3, <3>4, FollowedOn DEF HandingOver
    <3>6. ASSUME NEW e \in Dates, Claimable(gen[e])
          PROVE  Followed(e)' \/ Claimable(gen'[e])
      <4>1. CASE e = act[Worker].src
        <5>1. gen'[e] = Judged(gen[e]) /\ gen'[e].status \in {"dead", "queued"}
          BY <1>0, <3>2, <4>1 DEF Judged, Jobs
        <5>2. gen'[e].status = "dead" => cause'[e] = "dead"
          BY <3>2, <4>1
        <5> QED
          BY <5>1, <5>2 DEF Followed, Claimable
      <4>2. CASE e # act[Worker].src
        BY <3>2, <3>6, <4>2
      <4> QED
        BY <4>1, <4>2
    <3> QED
      BY <2>1, <3>5, <3>6, IdlePart, WorkerChain
  <2> QED
    BY <2>1, <2>2, <2>3
<1>24. CASE WebCrash
  BY <1>21, <1>24 DEF WebCrash, records
<1>25. CASE WorkerCrash
  <2>1. act' = [p \in Procs |-> IF p \in {Worker} THEN Idle ELSE act[p]]
    BY <1>0, <1>25 DEF WorkerCrash, Becomes
  <2> QED
    BY <1>21, <1>25, <2>1 DEF WorkerCrash, records
<1> QED
  BY <1>3, <1>4, <1>5, <1>6, <1>7, <1>8, <1>9, <1>10, <1>11, <1>12, <1>13, <1>14,
     <1>15, <1>17, <1>18, <1>19, <1>20, <1>22, <1>23, <1>24, <1>25, DetachChain
     DEF Next, Asks, Proceed, WorkerStep

-----------------------------------------------------------------------------
(* The theorems *)

\* What holds in every state: types, who does what, one maker per instance, no unexplained gap.
RecurrenceInv == TypeOK /\ Roles /\ MadeOnce /\ Chain

LEMMA InitMade == Init => MadeOnce /\ Chain
<1> SUFFICES ASSUME Init PROVE MadeOnce /\ Chain
  OBVIOUS
<1>1. \A p \in Procs : act[p].pc = "idle" /\ act[p].op = "none"
  BY DEF Init, Idle
<1>2. \A d \in Dates : task[d] = Whole \/ task[d] = Absent
  <2>1. PICK open : task = [d \in Dates |-> IF d \in open THEN Whole ELSE Absent]
    BY DEF Init
  <2> QED
    BY <2>1
<1>3. /\ Whole.status = "open" /\ Whole.copied = Copies /\ Whole.announced = 1
      /\ Absent.status = "absent" /\ Copies \in Nat
  BY BoundAssumption DEF Whole, Absent
<1>4. OnceOnly
  BY <1>2, <1>3 DEF OnceOnly, Existing, Exists
<1>5. MadeOnce
  BY <1>1, <1>4 DEF MadeOnce, Making
<1>6. Chain
  BY <1>1, <1>2, <1>3, Basics DEF Chain, Over
<1> QED
  BY <1>5, <1>6

\* The inductive core, of which the theorems below are parts.
THEOREM InvariantHolds == Spec => []RecurrenceInv
<1>1. Init => RecurrenceInv
  BY InitTyped, InitMade DEF RecurrenceInv
<1>2. RecurrenceInv /\ [Next]_vars => RecurrenceInv'
  BY NextTyped, NextRoles, NextMadeOnce, NextOnward, NextChain, DetachChain DEF RecurrenceInv
<1> QED
  BY <1>1, <1>2, PTL DEF Spec

\* Every variable keeps its type, and nobody creates an instance outside the recurrence.
THEOREM TypeCorrect == Spec => []TypeOK
<1>1. RecurrenceInv => TypeOK
  BY DEF RecurrenceInv
<1> QED
  BY <1>1, InvariantHolds, PTL

\* However many processes come to one date at once, its instance gets the template's content
\* once and is announced once, unless its creator was cut short.
THEOREM OnceOnlyHolds == Spec => []OnceOnly
<1>1. RecurrenceInv => OnceOnly
  BY DEF RecurrenceInv, MadeOnce
<1> QED
  BY <1>1, InvariantHolds, PTL

LEMMA ChainExplains == RecurrenceInv => ChainAccounted
<1> SUFFICES ASSUME RecurrenceInv, AtRest, Existing # {}, Open = {}
             PROVE  cause[Latest] # "none"
  BY DEF ChainAccounted
<1>1. /\ Latest \in Existing /\ Latest \in Dates /\ \A e \in Existing : e <= Latest
  BY LatestFacts DEF Existing
<1>2. task[Latest].status \in {"complete", "archived"}
  BY <1>1, Parts DEF RecurrenceInv, TaskOK, Rows, Existing, Exists, Open
<1>3. Followed(Latest)
  BY <1>1, <1>2 DEF RecurrenceInv, Chain, Over, AtRest
<1>4. ~ \E e \in Existing : e > Latest
  BY <1>1, Basics DEF Existing
<1>5. ~ \E u \in Users : HandingOver(u, Latest)
  BY Basics DEF AtRest, HandingOver, Idle
<1> QED
  BY <1>3, <1>4, <1>5 DEF Followed

\* When nothing is in flight, an active chain without an open instance has stopped for a
\* recorded reason, also when instances were taken out of the series and its rule has changed.
THEOREM ChainHolds == Spec => []ChainAccounted
  BY InvariantHolds, ChainExplains, PTL
=============================================================================
