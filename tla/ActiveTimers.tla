---------------------------- MODULE ActiveTimers ----------------------------
(***************************************************************************)
(* The active timers of one user in one workspace, and the tasks they may  *)
(* belong to.  Several browser tabs send requests; a request runs as a     *)
(* chain of SQL statements with an await after each, so requests of two    *)
(* tabs interleave between statements.  Only the linking of a manual timer *)
(* is a transaction.                                                       *)
(*                                                                         *)
(* A timer row sits in a slot: a number for a manual timer (the card it is *)
(* shown on), "source:..." for a task timer, and "__compact:<id>" while    *)
(* the numbers are being closed up.  Time is counted in ticks.             *)
(*                                                                         *)
(* Clients are honest: a tab sends the id, the slot and the elapsed time   *)
(* that the table holds when the request leaves.                           *)
(*                                                                         *)
(* Operators named "Mutant..." are seeded faults: each stands before the   *)
(* definition it would replace.  Nothing else refers to them.              *)
(***************************************************************************)
EXTENDS Integers, FiniteSets, Sequences, Functions

CONSTANTS
  Tabs,         \* browser tabs, each with at most one request in flight
  Ids,          \* active_timer_id values
  Tasks,        \* tasks that timers can belong to
  Kinds,        \* the kinds of request the tabs send
  Targets,      \* the statuses a task is set to by an edit
  NoTimer,      \* no row with that id
  NoTask,       \* the source of a manual timer
  Openings,     \* how many paused cards an earlier visit may have left
  MaxSlot,      \* bound: cards on the page
  MaxTime,      \* bound: ticks of the clock
  MaxLatency,   \* bound: ticks that pass while a request is in flight
  MaxRequests,  \* bound: requests of all tabs
  MaxOverlaps,  \* bound: requests sent while another is in flight, all among the last ones
  MaxFaults     \* bound: failed statements and process deaths

NotMoved == "none"
TaskStatuses == {"open", "in_progress", "blocked", "complete", "archived"}
AllKinds == {"save", "status", "discard", "finalize", "startTask", "dialogTask", "pauseTask",
             "link", "discardTask", "finalizeTask", "setTask", "complete"}
Steps == {"idle", "task", "timer", "move", "read", "others", "upsert", "convert", "entry",
          "delete", "list", "strand", "place", "evidence", "revert", "check", "write", "quiet"}
Slots == {<<"manual", n>> : n \in 1..MaxSlot} \union {<<"source", t>> : t \in Tasks}
           \union {<<"compact", i>> : i \in Ids}
Rows == [slot : Slots, src : Tasks \union {NoTask}, status : {"running", "paused"},
         acc : Nat, since : Nat, moved : TaskStatuses \union {NotMoved}]
Requests == [kind : AllKinds \union {"none"}, pc : Steps,
             slot : Slots \union {<<"none">>, <<"complete">>} \union {<<s>> : s \in Targets},
             task : Tasks \union {NoTask}, id : Ids \union {NoTimer}, on : {"running", "paused"},
             sent : Nat, since : Nat, at : Ids \union {NoTimer} \union Nat, row : Rows \union {NoTimer},
             was : TaskStatuses \union {NotMoved}, order : Seq(Ids), alone : BOOLEAN]

\* Ids, tasks, and the values that stand for none; Tabs is any set.
ASSUME IdAssumption == IsFiniteSet(Ids) /\ NoTimer \notin Ids /\ NoTask \notin Tasks
ASSUME KindAssumption == Kinds \subseteq AllKinds /\ Targets \subseteq TaskStatuses
ASSUME NoRowAssumption == NoTimer \notin Rows
ASSUME BoundAssumption == MaxSlot \in Nat /\ Openings \subseteq 0..MaxSlot

VARIABLES
  timers,     \* active_work_timers
  task,       \* status of each task
  req,        \* the request each tab has in flight
  now,        \* the wall clock
  saved,      \* per timer: how many time entries it was saved as
  booked,     \* seconds in all time entries
  worked,     \* tasks with a saved time entry
  discarded,  \* the timers some user asked to discard
  born,       \* ids handed out so far
  asked,      \* number of requests sent
  overlaps,   \* how many of them were sent while another was in flight
  dropped,    \* seconds that a start from the timer dialog has overwritten
  failures,   \* statements that failed
  crashes,    \* deaths of the server process
  ran,        \* ticks during which some timer was running
  latency     \* ticks that passed while a request was in flight

table == <<timers, task>>
books == <<saved, booked, worked, dropped>>
client == <<discarded, born, asked, overlaps>>
clock == <<now, ran, latency>>
faults == <<failures, crashes>>
vars == <<table, req, books, client, clock, faults>>

TaskStarts == {"startTask", "dialogTask"}
Closed == {"complete", "archived"}

Idle == [kind |-> "none", pc |-> "idle", slot |-> <<"none">>, task |-> NoTask, id |-> NoTimer,
         on |-> "paused", sent |-> 0, since |-> 0, at |-> NoTimer, row |-> NoTimer,
         was |-> NotMoved, order |-> << >>, alone |-> TRUE]

Existing == {i \in Ids : timers[i] # NoTimer}
Running == {i \in Existing : timers[i].status = "running"}
InSlot(slot) == {i \in Existing : timers[i].slot = slot}
OfTask(t) == {i \in Existing : timers[i].src = t}
Larger(m, n) == IF m >= n THEN m ELSE n
Elapsed(row) == row.acc + (IF row.status = "running" THEN now - row.since ELSE 0)

\* The table starts with some paused cards, numbered from one.
Init ==
  /\ \E n \in Openings : \E order \in Injection(1..n, Ids) :
       /\ timers = [i \in Ids |->
            IF \E k \in 1..n : order[k] = i
              THEN [slot |-> <<"manual", CHOOSE k \in 1..n : order[k] = i>>, src |-> NoTask,
                    status |-> "paused", acc |-> 0, since |-> 0, moved |-> NotMoved]
              ELSE NoTimer]
       /\ born = {order[k] : k \in 1..n}
  /\ task = [t \in Tasks |-> "open"]
  /\ req = [tab \in Tabs |-> Idle]
  /\ now = 0 /\ ran = 0 /\ latency = 0
  /\ saved = [i \in Ids |-> 0] /\ booked = 0 /\ worked = {} /\ dropped = 0
  /\ discarded = {} /\ asked = 0 /\ overlaps = 0
  /\ failures = 0 /\ crashes = 0

-----------------------------------------------------------------------------
(* Requests leave the browser *)

Quiet == \A tab \in Tabs : req[tab].pc = "idle"

Flow(kind) ==
  CASE kind = "save" -> "others"
    [] kind \in {"status", "finalize"} -> "read"
    [] kind = "discard" -> "delete"
    [] OTHER -> "task"

Send(tab, kind, i, slot, t, on) ==
  /\ kind \in Kinds
  /\ asked < MaxRequests
  /\ req[tab].pc = "idle"
  /\ asked' = asked + 1
  /\ overlaps' = IF Quiet THEN overlaps ELSE overlaps + 1
  /\ overlaps' <= MaxOverlaps
  /\ born' = born \union ({i} \ {NoTimer})
  /\ discarded' = IF kind \in {"discard", "discardTask"} THEN discarded \union {i} ELSE discarded
  /\ LET known == i \in Existing
         sending == [Idle EXCEPT !.kind = kind, !.slot = slot, !.task = t, !.id = i, !.on = on,
                       !.sent = IF known /\ kind # "dialogTask" THEN Elapsed(timers[i]) ELSE 0,
                       !.since = now, !.alone = Quiet,
                       !.pc = IF kind = "save" /\ on = "paused" THEN "upsert" ELSE Flow(kind)]
     IN  req' = [u \in Tabs |-> IF u = tab THEN sending ELSE [req[u] EXCEPT !.alone = req[u].pc = "idle"]]
  /\ UNCHANGED <<table, books, clock, faults>>

\* The manual timers a tab shows: readAll.
Cards == {i \in Existing : timers[i].src = NoTask /\ timers[i].slot[1] = "manual"}
SourceOf(t) == <<"source", t>>

\* A tab starts a timer on a free card, or stores an edited card.
SendSave(tab) ==
  \/ \E i \in Ids \ born, n \in 1..MaxSlot :
       InSlot(<<"manual", n>>) \intersect Cards = {} /\ Send(tab, "save", i, <<"manual", n>>, NoTask, "running")
  \/ \E i \in Cards : Send(tab, "save", i, timers[i].slot, NoTask, timers[i].status)

\* Resume or pause, discard, and save a timer by its slot.
SendBySlot(tab) ==
  \/ \E i \in Cards, on \in {"running", "paused"} :
       timers[i].status # on /\ Send(tab, "status", i, timers[i].slot, NoTask, on)
  \/ \E i \in Cards, kind \in {"discard", "finalize"} :
       Send(tab, kind, i, timers[i].slot, NoTask, "paused")

\* The timer buttons of a task.  The dialog that starts a timer sends no elapsed time.
SendTaskTimer(tab) ==
  \E t \in Tasks :
    \/ \E kind \in TaskStarts, i \in IF OfTask(t) = {} THEN Ids \ born ELSE OfTask(t) :
         Send(tab, kind, i, SourceOf(t), t, "running")
    \/ \E i \in OfTask(t), kind \in {"pauseTask", "discardTask", "finalizeTask"} :
         Send(tab, kind, i, SourceOf(t), t, "paused")
    \/ \E i \in Cards \intersect Running : Send(tab, "link", i, timers[i].slot, t, "running")

\* A task is completed, or its status is set by an edit.
SendTask(tab) ==
  \E t \in Tasks :
    \/ Send(tab, "complete", NoTimer, <<"complete">>, t, "paused")
    \/ \E s \in Targets : Send(tab, "setTask", NoTimer, <<s>>, t, "paused")

-----------------------------------------------------------------------------
(* Statements of a request.  Goto names the next one; Done answers. *)

Goto(tab, pc) == req' = [req EXCEPT ![tab].pc = pc]
Done(tab) == req' = [req EXCEPT ![tab] = Idle]
At(tab, pc) == req[tab].pc = pc
One(S) == IF S = {} THEN NoTimer ELSE CHOOSE i \in S : TRUE

MutantCaught(tab) == Done(tab)

\* The catch of a save or a link gives back the status that the timer's metadata names.
Caught(tab) == IF req[tab].was # NotMoved /\ req[tab].kind \in TaskStarts \union {"pauseTask", "link"}
                 THEN Goto(tab, "evidence") ELSE Done(tab)

\* The pause of others runs only for a timer that will run.
BeforeUpsert(on) == IF on = "running" THEN "others" ELSE "upsert"

ReadTask(tab) ==
  /\ At(tab, "task")
  /\ LET r == req[tab]
     IN  IF task[r.task] \in Closed /\ r.kind \notin {"discardTask", "setTask", "complete"}
           THEN Done(tab)
           ELSE req' = [req EXCEPT ![tab].was = task[r.task],
                          ![tab].pc = CASE r.kind = "complete" -> "check"
                                        [] r.kind = "setTask" -> "write"
                                        [] OTHER -> "timer"]
  /\ UNCHANGED <<table, books, client, clock, faults>>

\* readByTask: then the task is moved to in_progress, or kept with the old transition.
ReadTaskTimer(tab) ==
  /\ At(tab, "timer")
  /\ LET r == req[tab]
         i == One(OfTask(r.task))
         row == IF i = NoTimer THEN NoTimer ELSE timers[i]
         moves == r.was \in {"open", "blocked"}
         kept == IF i = NoTimer THEN NotMoved ELSE timers[i].moved
         seen == [r EXCEPT !.at = i, !.row = row]
     IN  req' = [req EXCEPT ![tab] =
           IF r.kind = "link" /\ i # NoTimer THEN Idle
           ELSE IF r.kind \in TaskStarts \union {"link"} /\ moves THEN [seen EXCEPT !.pc = "move"]
           ELSE
           CASE r.kind \in TaskStarts -> [seen EXCEPT !.was = kept, !.pc = "others"]
             [] r.kind = "pauseTask" -> [seen EXCEPT !.was = kept, !.pc = "upsert"]
             [] r.kind = "link" -> [seen EXCEPT !.was = NotMoved, !.pc = "read"]
             [] r.kind = "discardTask" -> [seen EXCEPT !.pc = "delete"]
             [] r.kind = "finalizeTask" ->
                  [seen EXCEPT !.pc = "entry",
                     !.sent = Larger(1, IF i = NoTimer THEN r.sent ELSE Elapsed(timers[i]))]]
  /\ UNCHANGED <<table, books, client, clock, faults>>

MoveTask(tab) ==
  /\ At(tab, "move")
  /\ task' = [task EXCEPT ![req[tab].task] = "in_progress"]
  /\ Goto(tab, IF req[tab].kind = "link" THEN "read" ELSE "others")
  /\ UNCHANGED <<timers, books, client, clock, faults>>

\* readBySlot: for a status change, for a finalization and for a link.
ReadSlot(tab) ==
  /\ At(tab, "read")
  /\ LET r == req[tab]
         i == One(InSlot(r.slot))
         absent == i = NoTimer
         seen == [r EXCEPT !.at = i, !.row = IF absent THEN NoTimer ELSE timers[i]]
     IN  CASE r.kind = "status" /\ absent -> Done(tab)
           [] r.kind = "status" /\ ~absent -> req' = [req EXCEPT ![tab] = [seen EXCEPT !.pc = BeforeUpsert(r.on)]]
           [] r.kind = "finalize" ->
                req' = [req EXCEPT ![tab] = [seen EXCEPT !.pc = "entry",
                          !.sent = Larger(1, IF absent THEN r.sent ELSE Elapsed(timers[i]))]]
           [] r.kind = "link" /\ (absent \/ i \notin Running \/ i \notin Cards) -> Caught(tab)
           [] OTHER -> req' = [req EXCEPT ![tab] = [seen EXCEPT !.pc = "convert"]]
  /\ UNCHANGED <<table, books, client, clock, faults>>

MutantPaused(row) == [row EXCEPT !.status = "paused", !.since = 0]

Paused(row) == [row EXCEPT !.acc = Elapsed(row), !.status = "paused", !.since = 0]

MutantPauseOthers(tab) ==
  /\ At(tab, "others")
  /\ Goto(tab, "upsert")
  /\ UNCHANGED <<table, books, client, clock, faults>>

PauseOthers(tab) ==
  /\ At(tab, "others")
  /\ timers' = [i \in Ids |-> IF i \in Running /\ timers[i].slot # req[tab].slot
                                THEN Paused(timers[i]) ELSE timers[i]]
  /\ Goto(tab, "upsert")
  /\ UNCHANGED <<task, books, client, clock, faults>>

MutantWritten(r) ==
  [slot |-> r.slot, src |-> r.task, moved |-> r.was, status |-> r.on, acc |-> r.sent - 1, since |-> r.since]

Written(r) ==
  LET base == IF r.kind = "status" THEN r.row
              ELSE [slot |-> r.slot, src |-> r.task, moved |-> IF r.kind = "save" THEN NotMoved ELSE r.was]
  IN  [slot |-> base.slot, src |-> base.src, moved |-> base.moved, status |-> r.on, acc |-> r.sent,
       since |-> IF r.on = "running" THEN r.since ELSE 0]

\* The row a write goes to: the one in the slot, or a new one.
Target(r) ==
  IF InSlot(r.slot) # {} THEN One(InSlot(r.slot)) ELSE IF r.kind = "status" THEN r.at ELSE r.id

\* INSERT ... ON CONFLICT (slot) DO UPDATE; a second row with the id or the task is an error.
Stored(tab, answer) ==
  /\ At(tab, "upsert")
  /\ LET r == req[tab]
         i == Target(r)
         holder == One(InSlot(r.slot))
         sameTask == IF Written(r).src = NoTask THEN {} ELSE OfTask(Written(r).src) \ {i}
     IN  /\ IF (holder = NoTimer /\ i \in Existing) \/ sameTask # {}
              THEN Caught(tab) /\ UNCHANGED timers
              ELSE timers' = [timers EXCEPT ![i] = Written(r)] /\ answer
         /\ dropped' = IF r.kind = "dialogTask" /\ holder # NoTimer /\ timers' # timers
                         THEN dropped + Elapsed(timers[holder]) ELSE dropped
  /\ UNCHANGED <<task, saved, booked, worked, client, clock>>

Upsert(tab) == Stored(tab, Done(tab)) /\ UNCHANGED faults

MutantConvert(tab) ==
  /\ At(tab, "convert")
  /\ LET r == req[tab]
         manual == InSlot(r.slot) \intersect Cards
     IN  IF OfTask(r.task) # {} \/ manual = {}
           THEN Caught(tab) /\ UNCHANGED timers
           ELSE timers' = [timers EXCEPT ![One(manual)].slot = SourceOf(r.task)] /\ Goto(tab, "list")
  /\ UNCHANGED <<task, books, client, clock, faults>>

\* convertManualToSource: one transaction.
Convert(tab) ==
  /\ At(tab, "convert")
  /\ LET r == req[tab]
         manual == InSlot(r.slot) \intersect Cards
     IN  IF OfTask(r.task) # {} \/ manual = {}
           THEN Caught(tab) /\ UNCHANGED timers
           ELSE /\ timers' = [timers EXCEPT ![One(manual)].slot = SourceOf(r.task),
                                ![One(manual)].src = r.task, ![One(manual)].moved = r.was]
                /\ Goto(tab, "list")
  /\ UNCHANGED <<task, books, client, clock, faults>>

CreateEntry(tab) ==
  /\ At(tab, "entry")
  /\ LET r == req[tab]
         i == IF r.at = NoTimer THEN r.id ELSE r.at
         src == IF r.row = NoTimer THEN r.task ELSE r.row.src
     IN  /\ saved' = [saved EXCEPT ![i] = @ + 1]
         /\ booked' = booked + r.sent
         /\ worked' = worked \union ({src} \ {NoTask})
         /\ UNCHANGED dropped
  /\ Goto(tab, "delete")
  /\ UNCHANGED <<table, client, clock, faults>>

\* Rows are deleted whatever their slot.
MutantDeleteTimer(tab) ==
  /\ At(tab, "delete")
  /\ timers' = [i \in Ids |-> NoTimer]
  /\ Done(tab)
  /\ UNCHANGED <<task, books, client, clock, faults>>

DeleteTimer(tab) ==
  /\ At(tab, "delete")
  /\ LET r == req[tab]
         gone == IF r.kind \in {"discard", "finalize"} THEN InSlot(r.slot) ELSE OfTask(r.task)
         keeps == r.row = NoTimer \/ r.was # "in_progress"
     IN  /\ timers' = [i \in Ids |-> IF i \in gone THEN NoTimer ELSE timers[i]]
         /\ CASE r.kind \in {"discard", "finalize"} -> Goto(tab, "list")
              [] r.kind = "discardTask" /\ ~keeps -> Goto(tab, "evidence")
              [] OTHER -> Done(tab)
  /\ UNCHANGED <<task, books, client, clock, faults>>

-----------------------------------------------------------------------------
(* compactManualTimerSlots: read, then one UPDATE per row, twice *)

\* The cards in the order of their slots, and the place of each in it.
Rank(i) == Cardinality({j \in Cards : timers[j].slot[2] <= timers[i].slot[2]})
Sorted == [k \in 1..Cardinality(Cards) |-> CHOOSE i \in Cards : Rank(i) = k]

ListCards(tab) ==
  /\ At(tab, "list")
  /\ IF \A i \in Cards : timers[i].slot[2] = Rank(i)
       THEN Done(tab)
       ELSE req' = [req EXCEPT ![tab].order = Sorted, ![tab].at = 1, ![tab].pc = "strand"]
  /\ UNCHANGED <<table, books, client, clock, faults>>

\* The k-th UPDATE ... WHERE active_timer_id = :id; a taken slot is an error.
Rename(tab, slot, next) ==
  LET r == req[tab]
      i == r.order[r.at]
      clash == InSlot(slot) \ {i} # {} /\ i \in Existing
  IN  /\ timers' = IF i \in Existing /\ ~clash THEN [timers EXCEPT ![i].slot = slot] ELSE timers
      /\ \/ clash /\ Caught(tab)
         \/ ~clash /\ r.at < Len(r.order) /\ req' = [req EXCEPT ![tab].at = @ + 1]
         \/ ~clash /\ r.at = Len(r.order) /\ next

Strand(tab) ==
  /\ At(tab, "strand")
  /\ Rename(tab, <<"compact", req[tab].order[req[tab].at]>>,
            req' = [req EXCEPT ![tab].at = 1, ![tab].pc = "place"])
  /\ UNCHANGED <<task, books, client, clock, faults>>

Place(tab) ==
  /\ At(tab, "place")
  /\ Rename(tab, <<"manual", req[tab].at>>, Done(tab))
  /\ UNCHANGED <<task, books, client, clock, faults>>

-----------------------------------------------------------------------------
(* Task statements *)

\* After a discard, a timer or a saved entry of the task keeps its status; after an error
\* only the status read now decides.  (The checklist, also evidence, is not modelled.)
ReadEvidence(tab) ==
  /\ At(tab, "evidence")
  /\ LET r == req[tab]
         started == OfTask(r.task) # {} \/ r.task \in worked
         undo == IF r.kind = "discardTask" THEN r.row.moved # NotMoved /\ ~started
                 ELSE task[r.task] = "in_progress"
         from == IF r.kind = "discardTask" THEN r.row.moved ELSE r.was
     IN  IF undo THEN req' = [req EXCEPT ![tab].was = from, ![tab].pc = "revert"] ELSE Done(tab)
  /\ UNCHANGED <<table, books, client, clock, faults>>

Revert(tab) ==
  /\ At(tab, "revert")
  /\ task' = [task EXCEPT ![req[tab].task] = IF req[tab].was = "blocked" THEN "blocked" ELSE "open"]
  /\ Done(tab)
  /\ UNCHANGED <<timers, books, client, clock, faults>>

CheckComplete(tab) ==
  /\ At(tab, "check")
  /\ IF OfTask(req[tab].task) # {} THEN Done(tab) ELSE Goto(tab, "write")
  /\ UNCHANGED <<table, books, client, clock, faults>>

WriteTask(tab) ==
  /\ At(tab, "write")
  /\ LET s == req[tab].slot[1]
     IN  /\ task' = [task EXCEPT ![req[tab].task] = s]
         /\ IF s = "blocked" THEN Goto(tab, "quiet") ELSE Done(tab)
  /\ UNCHANGED <<timers, books, client, clock, faults>>

MutantPauseBlocked(tab) ==
  /\ At(tab, "quiet")
  /\ Done(tab)
  /\ UNCHANGED <<table, books, client, clock, faults>>

PauseBlocked(tab) ==
  /\ At(tab, "quiet")
  /\ timers' = [i \in Ids |-> IF i \in Running \intersect OfTask(req[tab].task)
                                THEN Paused(timers[i]) ELSE timers[i]]
  /\ Done(tab)
  /\ UNCHANGED <<task, books, client, clock, faults>>

-----------------------------------------------------------------------------
(* Faults and time *)

Fails ==
  /\ failures + crashes < MaxFaults
  /\ failures' = failures + 1
  /\ UNCHANGED crashes

\* Where a save or a link would catch an error and give the status back.
Guarded == {"read", "others", "upsert", "convert", "list", "strand", "place"}

\* What a failing statement of a request leads to: the catch, or an error answer.
ErrorAt(tab) == IF req[tab].pc \in Guarded THEN Caught(tab) ELSE Done(tab)

\* A statement fails, or is refused by a check before it: those of the catch, too.
StatementFails(tab) ==
  /\ req[tab].pc # "idle"
  /\ Fails
  /\ ErrorAt(tab)
  /\ UNCHANGED <<table, books, client, clock>>

\* The move of the task is written and its audit record is not; nothing catches that.
AuditFails(tab) ==
  /\ At(tab, "move")
  /\ Fails
  /\ task' = [task EXCEPT ![req[tab].task] = "in_progress"]
  /\ Done(tab)
  /\ UNCHANGED <<timers, books, client, clock>>

\* The timer is written, and reading it back for the answer or announcing it fails.
AnswerFails(tab) == Stored(tab, Caught(tab)) /\ Fails

\* The server dies: every request in flight ends where it stands.
Crash ==
  /\ failures + crashes < MaxFaults
  /\ \E tab \in Tabs : req[tab].pc # "idle"
  /\ crashes' = crashes + 1
  /\ req' = [tab \in Tabs |-> Idle]
  /\ UNCHANGED <<table, books, client, clock, failures>>

Tick ==
  /\ now < MaxTime
  /\ now' = now + 1
  /\ ran' = IF Running # {} THEN ran + 1 ELSE ran
  /\ latency' = IF \E tab \in Tabs : req[tab].pc # "idle" THEN latency + 1 ELSE latency
  /\ latency' <= MaxLatency
  /\ UNCHANGED <<table, req, books, client, faults>>

Request(tab) == SendSave(tab) \/ SendBySlot(tab) \/ SendTaskTimer(tab) \/ SendTask(tab)

Step(tab) ==
  \/ ReadTask(tab) \/ ReadTaskTimer(tab) \/ MoveTask(tab) \/ ReadSlot(tab)
  \/ PauseOthers(tab) \/ Upsert(tab) \/ Convert(tab) \/ CreateEntry(tab) \/ DeleteTimer(tab)
  \/ ListCards(tab) \/ Strand(tab) \/ Place(tab)
  \/ ReadEvidence(tab) \/ Revert(tab) \/ CheckComplete(tab) \/ WriteTask(tab) \/ PauseBlocked(tab)

Next ==
  \/ \E tab \in Tabs : Request(tab) \/ Step(tab) \/ StatementFails(tab) \/ AuditFails(tab) \/ AnswerFails(tab)
  \/ Crash
  \/ Tick

Spec == Init /\ [][Next]_vars

-----------------------------------------------------------------------------
(* Properties *)

\* Every variable keeps its type: slots, statuses and the step a request is at.
TypeOK ==
  /\ timers \in [Ids -> Rows \union {NoTimer}]
  /\ task \in [Tasks -> TaskStatuses]
  /\ req \in [Tabs -> Requests]
  /\ saved \in [Ids -> Nat] /\ booked \in Nat /\ dropped \in Nat /\ worked \subseteq Tasks
  /\ discarded \subseteq born /\ born \subseteq Ids /\ asked \in Nat /\ overlaps \in Nat
  /\ now \in Nat /\ ran \in Nat /\ latency \in Nat
  /\ failures \in Nat /\ crashes \in Nat

\* At rest, before any fault; and before any two requests have overlapped.
Undisturbed == Quiet /\ failures + crashes = 0
Apart == overlaps = 0

\* "Only one timer runs at a time for a user in a workspace."
OneRunning == Cardinality(Running) <= 1

\* Whatever the tabs interleave, no two rows share a slot and no task has two timers, so a
\* request finds one row by slot and one by task; and a source slot names the task of its row.
OneRowEach ==
  \A i, j \in Existing :
    /\ i # j => timers[i].slot # timers[j].slot /\ (timers[i].src = NoTask \/ timers[i].src # timers[j].src)
    /\ timers[i].slot[1] = "source" => timers[i].slot = SourceOf(timers[i].src)

\* A timer becomes one time entry, and one more for each fault that hides the first; time is
\* neither lost nor invented: what is booked and what the timers show is the time during which
\* a timer ran, up to the delay of requests and one second per rounded entry.
Shown == SumFunction([i \in Ids |-> IF i \in Existing THEN Elapsed(timers[i]) ELSE 0])
Entries == SumFunction(saved)
SavedOnce == \A i \in Ids : saved[i] <= 1 + failures + crashes
TimeKept == booked + Shown + dropped >= ran - latency
TimeEarned == booked + Shown <= ran + latency + Entries
Accounted ==
  Apart => /\ SavedOnce
           /\ Undisturbed /\ discarded = {} => TimeKept /\ TimeEarned

\* At rest one timer runs at most, a blocked task has no running timer, and no card is left in
\* a temporary slot: the second statement of each pair has followed the first.
BlockedTaskStopped == \A t \in Tasks : task[t] = "blocked" => OfTask(t) \intersect Running = {}
NothingStranded == \A i \in Existing : timers[i].slot[1] # "compact"
Settled ==
  Apart => /\ OneRunning
           /\ Undisturbed => BlockedTaskStopped /\ NothingStranded

\* A row disappears only after it was saved or because somebody asked to discard it.
NoTimerLost ==
  [][Apart => \A i \in Ids : timers[i] # NoTimer /\ timers'[i] = NoTimer => saved[i] > 0 \/ i \in discarded]_vars

\* A start during which no other request was in flight leaves its timer the only one running,
\* whatever the tabs have done to each other before; it is refused only if the task's timer has
\* been moved out of its source slot, and then no timer runs.
StartAlone ==
  [][\A tab \in Tabs :
       /\ req[tab].pc = "upsert" /\ req'[tab].pc = "idle" /\ faults' = faults
       /\ req[tab].alone /\ req[tab].on = "running"
       => \/ \E i \in Ids : Running' = {i} /\ timers'[i].slot = req[tab].slot
          \/ Running' = {} /\ OfTask(req[tab].task) # {} /\ InSlot(req[tab].slot) = {}]_vars

\* A link or a start that fails gives the task back the status it had, and no task stays in
\* progress for a timer that does not exist, unless the very statements fail that would give it
\* back, or the audit record of the move: a failure anywhere else is made good.
Irreparable(tab) ==
  failures' # failures /\ (req[tab].pc \in {"evidence", "revert"} \/ task' # task)
FailedStartRestores ==
  [][\A tab \in Tabs :
       /\ req[tab].pc # "idle" /\ req'[tab].pc = "idle" /\ crashes' = crashes
       /\ req[tab].alone /\ req[tab].kind \in TaskStarts \union {"link"}
       /\ req[tab].was \in {"open", "blocked"}
       /\ \A i \in Ids : timers'[i] # NoTimer => timers'[i].src # req[tab].task
       /\ ~Irreparable(tab)
       => task'[req[tab].task] = req[tab].was]_vars
=============================================================================
