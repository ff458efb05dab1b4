------------------------ MODULE ActiveTimersProofs ------------------------
EXTENDS ActiveTimers, TLAPS, FiniteSetTheorems, WellFoundedInduction

(***************************************************************************)
(* Theorems of ActiveTimers, for any tasks, timers, tabs and bounds.       *)
(*                                                                         *)
(* The inductive invariant has one part for each thing a statement relies  *)
(* on.  Typed: the types, and for every request what its route lets it     *)
(* carry and know.  Lone and Fresh: a request that has been alone since it *)
(* left still finds the table as it read it.  Solo: while requests come    *)
(* one at a time, a task's timer is in its source slot and one timer runs. *)
(* Calm: without faults too, the table is at rest but for what the request *)
(* in flight is about to do.  Once: no timer still there was saved before, *)
(* but by a fault.  Balanced: the books balance once the time under way    *)
(* with the request in flight is counted.                                  *)
(***************************************************************************)

\* Requests by the slot of a card, by the task of a timer; those that save, those that start; those of cards.
ByCard == {"status", "discard", "finalize", "link"}
ByTask == {"pauseTask", "discardTask", "finalizeTask"}
Saves == {"finalize", "finalizeTask"}
Starts == TaskStarts \union {"link"}
Manuals == {"save", "status", "discard", "finalize"}

\* The steps a request of each kind can be at.
Route(r) ==
  /\ r.pc = "idle" <=> r.kind = "none"
  /\ r.kind = "save" => r.pc \in {"others", "upsert"}
  /\ r.kind = "status" => r.pc \in {"read", "others", "upsert"}
  /\ r.kind = "discard" => r.pc \in {"delete", "list", "strand", "place"}
  /\ r.kind = "finalize" => r.pc \in {"read", "entry", "delete", "list", "strand", "place"}
  /\ r.kind \in TaskStarts => r.pc \in {"task", "timer", "move", "others", "upsert", "evidence", "revert"}
  /\ r.kind = "pauseTask" => r.pc \in {"task", "timer", "upsert", "evidence", "revert"}
  /\ r.kind = "link" => r.pc \in {"task", "timer", "move", "read", "convert", "list", "strand", "place", "evidence", "revert"}
  /\ r.kind = "discardTask" => r.pc \in {"task", "timer", "delete", "evidence", "revert"}
  /\ r.kind = "finalizeTask" => r.pc \in {"task", "timer", "entry", "delete"}
  /\ r.kind = "setTask" => r.pc \in {"task", "write", "quiet"}
  /\ r.kind = "complete" => r.pc \in {"task", "check", "write"}

\* What a request of each kind carries from the browser.
Carried(r, b) ==
  /\ r.kind \in Manuals \union {"link"} => \E n \in 1..MaxSlot : r.slot = <<"manual", n>>
  /\ r.kind \in TaskStarts \union ByTask => r.slot = SourceOf(r.task)
  /\ r.kind \in Manuals => r.task = NoTask
  /\ r.kind \notin Manuals \union {"none"} => r.task \in Tasks
  /\ r.kind = "setTask" => r.slot[1] \in Targets
  /\ r.kind = "complete" => r.slot[1] = "complete"
  /\ r.kind \notin {"none", "setTask", "complete"} => r.id \in b
  /\ r.kind \in Starts => r.on = "running"
  /\ r.kind \in ByTask => r.on = "paused"

\* What a request has read by the step it is at.
Known(r, b) ==
  /\ r.kind \in Starts /\ r.pc = "task" => r.was = NotMoved
  /\ r.kind = "status" /\ r.pc \in {"others", "upsert"} => r.at \in b /\ r.row \in Rows /\ r.row.slot = r.slot
  /\ r.pc \in {"entry", "delete"} => r.at \in b \union {NoTimer}
  /\ r.kind = "discardTask" /\ r.pc \in {"evidence", "revert"} => r.row \in Rows
  /\ r.kind \in Starts \union {"pauseTask"} /\ r.pc = "evidence" => r.was # NotMoved
  /\ r.pc \in {"strand", "place"} => r.at \in 1..Len(r.order) /\ Len(r.order) <= MaxSlot

\* A request that answers for its step, what it carries and what it has read.
Fit(r, t, b) ==
  /\ r \in Requests /\ Route(r) /\ Carried(r, b) /\ Known(r, b)
  /\ r.pc = "idle" => r = Idle
  /\ r.since <= t

\* The types of all but the table and the requests.
Counted ==
  /\ task \in [Tasks -> TaskStatuses]
  /\ saved \in [Ids -> Nat] /\ booked \in Nat /\ dropped \in Nat /\ worked \subseteq Tasks
  /\ discarded \subseteq born /\ born \subseteq Ids /\ asked \in Nat /\ overlaps \in Nat
  /\ now \in Nat /\ ran \in Nat /\ latency \in Nat
  /\ failures \in Nat /\ crashes \in Nat

\* The table is sound: nothing started in the future, waiting slots are named after their card,
\* no two rows share a slot or a task.
Tabled ==
  /\ timers \in [Ids -> Rows \union {NoTimer}]
  /\ \A i \in Running : timers[i].since <= now
  /\ \A i \in Existing : timers[i].slot[1] = "compact" => timers[i].slot = <<"compact", i>>
  /\ Existing \subseteq born
  /\ OneRowEach

\* The types, with what every request carries and knows.
Typed ==
  /\ Counted
  /\ Tabled
  /\ req \in [Tabs -> Requests]
  /\ \A tab \in Tabs : Fit(req[tab], now, born)

\* What a fault does short of a crash, and the two ways a row is written.
Erring(tab) == StatementFails(tab) \/ AuditFails(tab) \/ AnswerFails(tab)
Puts(tab) == Upsert(tab) \/ AnswerFails(tab)

\* Typed says more than the types.
LEMMA TypedTypes == Typed => TypeOK
BY DEF Typed, Counted, Tabled, TypeOK

\* A slot is told by its first part; a manual slot by its number, a source slot by its task.
LEMMA SlotForms ==
  /\ \A s \in Slots : s[1] = "manual" => \E n \in 1..MaxSlot : s = <<"manual", n>>
  /\ \A s \in Slots : s[1] = "source" => \E t \in Tasks : s = <<"source", t>>
  /\ \A n : <<"manual", n>>[1] = "manual" /\ <<"manual", n>>[2] = n
  /\ \A n : <<"source", n>>[1] = "source" /\ <<"source", n>>[2] = n
  /\ \A n : <<"compact", n>>[1] = "compact" /\ <<"compact", n>>[2] = n
  /\ \A n \in 1..MaxSlot : <<"manual", n>> \in Slots
  /\ \A n \in Tasks : <<"source", n>> \in Slots
  /\ \A n \in Ids : <<"compact", n>> \in Slots
BY DEF Slots

\* A paused row keeps its place and shows the time it showed while it ran.
LEMMA PausedRow ==
  ASSUME now \in Nat, NEW row \in Rows, row.status = "running" => row.since <= now
  PROVE  /\ Paused(row) \in Rows /\ Paused(row) # NoTimer
         /\ Paused(row).slot = row.slot /\ Paused(row).src = row.src /\ Paused(row).moved = row.moved
         /\ Paused(row).status = "paused" /\ Paused(row).acc = Elapsed(row)
         /\ Elapsed(Paused(row)) = Elapsed(row) /\ Elapsed(row) \in Nat
<1>1. Elapsed(row) \in Nat
  BY DEF Elapsed, Rows
<1>2. Paused(row) \in Rows
  BY <1>1 DEF Paused, Rows
<1>3. /\ Paused(row).slot = row.slot /\ Paused(row).src = row.src /\ Paused(row).moved = row.moved
      /\ Paused(row).status = "paused" /\ Paused(row).acc = Elapsed(row)
  BY DEF Paused, Rows
<1>4. Elapsed(Paused(row)) = Elapsed(row)
  BY <1>1, <1>3 DEF Elapsed
<1> QED
  BY <1>1, <1>2, <1>3, <1>4, NoRowAssumption

\* Rows that are paused or deleted leave the table sound.
LEMMA RowsThinned ==
  ASSUME Tabled, now \in Nat, now' = now, born' = born,
         timers' \in [Ids -> Rows \union {NoTimer}],
         \A i \in Ids : \/ timers'[i] = timers[i]
                        \/ timers'[i] = NoTimer
                        \/ i \in Existing /\ timers'[i] = Paused(timers[i])
  PROVE  Tabled'
<1>1. \A i \in Existing' : /\ i \in Existing
                           /\ timers'[i].slot = timers[i].slot /\ timers'[i].src = timers[i].src
                           /\ timers'[i].status = "running" => timers'[i] = timers[i]
  <2> SUFFICES ASSUME NEW i \in Existing'
               PROVE  /\ i \in Existing
                      /\ timers'[i].slot = timers[i].slot /\ timers'[i].src = timers[i].src
                      /\ timers'[i].status = "running" => timers'[i] = timers[i]
    OBVIOUS
  <2>1. CASE timers'[i] = timers[i]
    BY <2>1 DEF Existing
  <2>2. CASE i \in Existing /\ timers'[i] = Paused(timers[i])
    <3>1. timers[i] \in Rows /\ (timers[i].status = "running" => timers[i].since <= now)
      BY <2>2 DEF Existing, Tabled, Running
    <3> QED
      BY <2>2, <3>1, PausedRow
  <2> QED
    BY <2>1, <2>2 DEF Existing
<1>2. OneRowEach'
  BY <1>1 DEF OneRowEach, Tabled, SourceOf
<1> QED
  BY <1>1, <1>2 DEF Tabled, Running, Existing

\* So does a written row whose slot and source task no other row has.
LEMMA RowWritten ==
  ASSUME Tabled, now \in Nat, now' = now, born' = born, NEW i \in born, born \subseteq Ids, NEW row \in Rows,
         timers' = [timers EXCEPT ![i] = row],
         row.status = "running" => row.since <= now,
         row.slot[1] = "compact" => row.slot = <<"compact", i>>,
         row.slot[1] = "source" => row.slot = SourceOf(row.src),
         InSlot(row.slot) \subseteq {i},
         row.src = NoTask \/ OfTask(row.src) \subseteq {i}
  PROVE  Tabled'
<1>1. timers' \in [Ids -> Rows \union {NoTimer}]
  BY DEF Tabled
<1>2. timers'[i] = row /\ \A j \in Ids \ {i} : timers'[j] = timers[j]
  BY DEF Tabled
<1>3. Existing' = Existing \union {i}
  BY <1>2, NoRowAssumption DEF Existing
<1>4. OneRowEach'
  <2> SUFFICES ASSUME NEW j \in Existing', NEW k \in Existing'
               PROVE  /\ j # k => timers'[j].slot # timers'[k].slot /\ (timers'[j].src = NoTask \/ timers'[j].src # timers'[k].src)
                      /\ timers'[j].slot[1] = "source" => timers'[j].slot = SourceOf(timers'[j].src)
    BY DEF OneRowEach, SourceOf
  <2>1. CASE j # i /\ k # i
    BY <1>2, <1>3, <2>1 DEF Tabled, OneRowEach, Existing
  <2>2. CASE j = i /\ k # i
    BY <1>2, <1>3, <2>2 DEF InSlot, OfTask, Existing
  <2>3. CASE j # i /\ k = i
    BY <1>2, <1>3, <2>3 DEF InSlot, OfTask, Existing, Tabled, OneRowEach
  <2>4. CASE j = i /\ k = i
    BY <1>2, <2>4
  <2> QED
    BY <2>1, <2>2, <2>3, <2>4
<1>5. \A j \in Running' : timers'[j].since <= now'
  BY <1>2, <1>3 DEF Tabled, Running, Existing
<1>6. \A j \in Existing' : timers'[j].slot[1] = "compact" => timers'[j].slot = <<"compact", j>>
  BY <1>2, <1>3 DEF Tabled, Existing
<1> QED
  BY <1>1, <1>3, <1>4, <1>5, <1>6 DEF Tabled

\* A statement that changes one request only has to answer for the record it leaves.
LEMMA OneRequest ==
  ASSUME Typed, NEW tab \in Tabs, NEW new, Fit(new, now, born), now' = now, born' = born, req' = [req EXCEPT ![tab] = new]
  PROVE  req' \in [Tabs -> Requests] /\ \A u \in Tabs : Fit(req'[u], now', born')
BY DEF Typed, Fit

\* A tab without a request has nothing to answer for.
LEMMA IdleFit == ASSUME NEW t \in Nat, NEW b PROVE Fit(Idle, t, b)
<1>1. Idle \in Requests
  BY DEF Idle, Requests, AllKinds, Steps, NotMoved
<1> QED
  BY <1>1 DEF Idle, Fit, Route, Carried, Known, TaskStarts, Starts, ByTask, Manuals

\* A request keeps what it carried when it left.
Same(new, r) == /\ new.kind = r.kind /\ new.slot = r.slot /\ new.task = r.task
                /\ new.id = r.id /\ new.on = r.on /\ new.since = r.since /\ new.alone = r.alone

\* A request that goes on keeps what it carries, and answers for its step and what it has read.
LEMMA GoesOn ==
  ASSUME NEW t, NEW b, NEW r, Fit(r, t, b), NEW new \in Requests, Route(new), Known(new, b), new.pc # "idle", Same(new, r)
  PROVE  Fit(new, t, b)
<1>1. Carried(new, b)
  BY DEF Fit, Carried, Same
<1> QED
  BY <1>1 DEF Fit, Same

\* The records that the statements leave behind
Jumped(r, p) == [r EXCEPT !.pc = p]
Marked(r, w, p) == [r EXCEPT !.was = w, !.pc = p]
Timing(r, p, n) == [r EXCEPT !.pc = p, !.sent = n]
Seen(r, i, row) == [r EXCEPT !.at = i, !.row = row]

\* The record of a request that goes to another step.
LEMMA Jump ==
  ASSUME NEW r \in Requests, NEW p \in Steps
  PROVE  /\ Jumped(r, p) \in Requests /\ Same(Jumped(r, p), r) /\ Jumped(r, p).pc = p
         /\ Jumped(r, p).at = r.at /\ Jumped(r, p).row = r.row /\ Jumped(r, p).was = r.was
         /\ Jumped(r, p).order = r.order /\ Jumped(r, p).sent = r.sent
BY DEF Requests, Same, Jumped

\* The record of a request that remembers the status a task had.
LEMMA Mark ==
  ASSUME NEW r \in Requests, NEW p \in Steps, NEW w \in TaskStatuses \union {NotMoved}
  PROVE  /\ Marked(r, w, p) \in Requests /\ Same(Marked(r, w, p), r) /\ Marked(r, w, p).pc = p
         /\ Marked(r, w, p).at = r.at /\ Marked(r, w, p).row = r.row /\ Marked(r, w, p).was = w
         /\ Marked(r, w, p).order = r.order /\ Marked(r, w, p).sent = r.sent
BY ZenonT(30) DEF Requests, Same, Marked

\* The record of a request that takes the time a row shows.
LEMMA Time ==
  ASSUME NEW r \in Requests, NEW p \in Steps, NEW n \in Nat
  PROVE  /\ Timing(r, p, n) \in Requests /\ Same(Timing(r, p, n), r) /\ Timing(r, p, n).pc = p
         /\ Timing(r, p, n).at = r.at /\ Timing(r, p, n).row = r.row /\ Timing(r, p, n).was = r.was
         /\ Timing(r, p, n).order = r.order /\ Timing(r, p, n).sent = n
BY ZenonT(30) DEF Requests, Same, Timing

\* The record of a request that has read a row.
LEMMA See ==
  ASSUME NEW r \in Requests, NEW i \in Ids \union {NoTimer}, NEW w \in Rows \union {NoTimer}
  PROVE  /\ Seen(r, i, w) \in Requests /\ Same(Seen(r, i, w), r) /\ Seen(r, i, w).pc = r.pc
         /\ Seen(r, i, w).at = i /\ Seen(r, i, w).row = w /\ Seen(r, i, w).was = r.was
         /\ Seen(r, i, w).order = r.order /\ Seen(r, i, w).sent = r.sent
<1> PICK seen : seen = Seen(r, i, w)
  OBVIOUS
<1>1. /\ r.kind \in AllKinds \union {"none"} /\ r.pc \in Steps
      /\ r.slot \in Slots \union {<<"none">>, <<"complete">>} \union {<<s>> : s \in Targets}
      /\ r.task \in Tasks \union {NoTask} /\ r.id \in Ids \union {NoTimer} /\ r.on \in {"running", "paused"}
      /\ r.sent \in Nat /\ r.since \in Nat /\ r.was \in TaskStatuses \union {NotMoved}
      /\ r.order \in Seq(Ids) /\ r.alone \in BOOLEAN
  BY DEF Requests
<1>2. seen = [kind |-> r.kind, pc |-> r.pc, slot |-> r.slot, task |-> r.task, id |-> r.id, on |-> r.on,
              sent |-> r.sent, since |-> r.since, at |-> i, row |-> w, was |-> r.was, order |-> r.order, alone |-> r.alone]
  BY DEF Requests, Seen
<1>3. seen \in Requests
  BY <1>1, <1>2 DEF Requests
<1> QED
  BY <1>2, <1>3 DEF Same

\* Goto keeps the types of the requests.
LEMMA GotoFit ==
  ASSUME Typed, NEW tab \in Tabs, NEW p \in Steps \ {"idle"}, Goto(tab, p), now' = now, born' = born,
         Route(Jumped(req[tab], p)), Known(Jumped(req[tab], p), born)
  PROVE  req' \in [Tabs -> Requests] /\ \A u \in Tabs : Fit(req'[u], now', born')
<1> DEFINE new == Jumped(req[tab], p)
<1>1. req' = [req EXCEPT ![tab] = new]
  BY DEF Goto, Typed, Jumped
<1>2. Fit(req[tab], now, born) /\ req[tab] \in Requests
  BY DEF Typed
<1>3. new \in Requests /\ new.pc # "idle" /\ Same(new, req[tab])
  BY <1>2, Jump
<1> HIDE DEF new
<1>4. Fit(new, now, born)
  BY <1>2, <1>3, GoesOn DEF new
<1> QED
  BY <1>1, <1>4, OneRequest

\* An answer keeps the types of the requests.
LEMMA DoneFit ==
  ASSUME Typed, NEW tab \in Tabs, Done(tab), now' = now, born' = born
  PROVE  req' \in [Tabs -> Requests] /\ \A u \in Tabs : Fit(req'[u], now', born')
<1>1. Fit(Idle, now, born)
  BY IdleFit DEF Typed, Counted
<1> QED
  BY <1>1, OneRequest DEF Done

\* An error keeps them, whether it is answered or the evidence is read.
LEMMA CaughtFit ==
  ASSUME Typed, NEW tab \in Tabs, Caught(tab), now' = now, born' = born
  PROVE  req' \in [Tabs -> Requests] /\ \A u \in Tabs : Fit(req'[u], now', born')
<1>1. CASE Done(tab)
  BY <1>1, DoneFit
<1>2. CASE ~Done(tab)
  <2>1. Goto(tab, "evidence") /\ req[tab].was # NotMoved /\ req[tab].kind \in TaskStarts \union {"pauseTask", "link"}
    BY <1>2 DEF Caught
  <2> DEFINE new == Jumped(req[tab], "evidence")
  <2>2. "evidence" \in Steps \ {"idle"} /\ req[tab] \in Requests /\ Fit(req[tab], now, born)
    BY DEF Steps, Typed
  <2>3. new.pc = "evidence" /\ new.kind = req[tab].kind /\ new.was = req[tab].was
    BY <2>2, Jump DEF Same
  <2> HIDE DEF new
  <2>4. Route(new) /\ Known(new, born)
    BY <2>1, <2>3 DEF Route, Known, TaskStarts, Starts
  <2> QED
    BY <2>1, <2>2, <2>4, GotoFit DEF new
<1> QED
  BY <1>1, <1>2

\* Rows stay sound while the clock goes on.
LEMMA TabledSame ==
  ASSUME Tabled, UNCHANGED <<timers, born>>, now \in Nat, now' \in Nat, now <= now'
  PROVE  Tabled'
<1>1. OneRowEach'
  BY DEF Tabled, OneRowEach, Existing, SourceOf
<1>2. \A i \in Running : timers[i] \in Rows /\ timers[i].since \in Nat
  BY DEF Tabled, Running, Existing, Rows
<1> QED
  BY <1>1, <1>2 DEF Tabled, Existing, Running

\* One chooses a member of a set that has one.
LEMMA OneIn ==
  ASSUME NEW S \in SUBSET Ids
  PROVE  IF S = {} THEN One(S) = NoTimer ELSE One(S) \in S /\ One(S) # NoTimer
BY IdAssumption DEF One

\* ReadTask keeps the types.
LEMMA ReadTaskTyped ==
  ASSUME Typed, NEW tab \in Tabs, ReadTask(tab)
  PROVE  Typed'
<1> DEFINE r == req[tab]
           next == CASE r.kind = "complete" -> "check" [] r.kind = "setTask" -> "write" [] OTHER -> "timer"
           new == Marked(r, task[r.task], next)
<1>1. Fit(r, now, born) /\ r.pc = "task" /\ r \in Requests
  BY DEF ReadTask, At, Typed
<1>2. Counted' /\ Tabled' /\ now' = now /\ born' = born
  BY TabledSame DEF ReadTask, Typed, Counted, table, books, client, clock, faults
<1>3. req' \in [Tabs -> Requests] /\ \A u \in Tabs : Fit(req'[u], now', born')
  <2>1. CASE Done(tab)
    BY <1>2, <2>1, DoneFit
  <2>2. CASE ~Done(tab)
    <3>1. req' = [req EXCEPT ![tab] = new]
      BY <2>2 DEF ReadTask, Typed, Marked
    <3>2. r.task \in Tasks /\ task[r.task] \in TaskStatuses
      BY <1>1 DEF Fit, Route, Carried, Typed, Counted, TaskStarts, Manuals
    <3>3. next \in {"check", "write", "timer"} /\ next \in Steps
      BY DEF Steps
    <3>4. new \in Requests /\ new.pc = next /\ Same(new, r)
      <4> HIDE DEF next
      <4> QED
        BY <1>1, <3>2, <3>3, Mark
    <3>5. Route(new) /\ Known(new, born)
      BY <1>1, <3>4 DEF Fit, Route, Known, TaskStarts, Starts, Same
    <3> HIDE DEF new, next
    <3>6. Fit(new, now, born)
      BY <1>1, <3>3, <3>4, <3>5, GoesOn
    <3> QED
      BY <1>2, <3>1, <3>6, OneRequest
  <2> QED
    BY <2>1, <2>2
<1> QED
  BY <1>2, <1>3 DEF Typed

\* ReadTaskTimer keeps the types.
LEMMA ReadTaskTimerTyped ==
  ASSUME Typed, NEW tab \in Tabs, ReadTaskTimer(tab)
  PROVE  Typed'
<1> DEFINE r == req[tab]
           i == One(OfTask(r.task))
           row == IF i = NoTimer THEN NoTimer ELSE timers[i]
           kept == IF i = NoTimer THEN NotMoved ELSE timers[i].moved
           seen == Seen(r, i, row)
           sent == Larger(1, IF i = NoTimer THEN r.sent ELSE Elapsed(timers[i]))
<1>1. Fit(r, now, born) /\ r.pc = "timer" /\ r \in Requests
  BY DEF ReadTaskTimer, At, Typed
<1>2. Counted' /\ Tabled' /\ now' = now /\ born' = born /\ now \in Nat
  BY TabledSame DEF ReadTaskTimer, Typed, Counted, table, books, client, clock, faults
<1>3. i \in Ids \union {NoTimer} /\ (i # NoTimer => i \in Existing /\ i \in born /\ timers[i] \in Rows)
  BY OneIn DEF OfTask, Existing, Typed, Tabled
<1>4. row \in Rows \union {NoTimer} /\ kept \in TaskStatuses \union {NotMoved} /\ sent \in Nat
  <2>1. i # NoTimer => Elapsed(timers[i]) \in Nat
    BY <1>2, <1>3, PausedRow DEF Typed, Tabled, Running
  <2>2. r.sent \in Nat
    BY <1>1 DEF Requests
  <2>3. kept \in TaskStatuses \union {NotMoved}
    BY <1>3 DEF Rows
  <2> HIDE DEF i
  <2>4. sent \in Nat
    BY <2>1, <2>2 DEF Larger
  <2> QED
    BY <1>3, <2>3, <2>4
<1>5. r.kind \in TaskStarts \union {"pauseTask", "link", "discardTask", "finalizeTask"} /\ Carried(r, born)
  BY <1>1 DEF Fit, Route, Requests, AllKinds, TaskStarts
<1> HIDE DEF i, row, kept, sent
<1>6. SUFFICES ASSUME NEW new, req' = [req EXCEPT ![tab] = new], new # Idle
               PROVE  new \in Requests /\ Same(new, r) /\ new.pc # "idle" /\ Route(new) /\ Known(new, born)
  <2>1. \E new : req' = [req EXCEPT ![tab] = new]
    BY DEF ReadTaskTimer
  <2>2. PICK new : req' = [req EXCEPT ![tab] = new]
    BY <2>1
  <2>3. Fit(Idle, now, born)
    BY <1>2, IdleFit
  <2>4. Fit(new, now, born)
    BY <1>1, <1>6, <2>2, <2>3, GoesOn
  <2> QED
    BY <1>2, <2>2, <2>4, OneRequest DEF Typed
<1>7. new = req'[tab]
  BY <1>6 DEF Typed
<1>7a. new = IF r.kind = "link" /\ i # NoTimer THEN Idle
             ELSE IF r.kind \in TaskStarts \union {"link"} /\ r.was \in {"open", "blocked"} THEN Jumped(seen, "move")
             ELSE CASE r.kind \in TaskStarts -> Marked(seen, kept, "others")
                    [] r.kind = "pauseTask" -> Marked(seen, kept, "upsert")
                    [] r.kind = "link" -> Marked(seen, NotMoved, "read")
                    [] r.kind = "discardTask" -> Jumped(seen, "delete")
                    [] r.kind = "finalizeTask" -> Timing(seen, "entry", sent)
  BY <1>7, Zenon DEF ReadTaskTimer, Typed, i, row, kept, sent, Seen, Jumped, Marked, Timing
<1>8. seen \in Requests /\ Same(seen, r) /\ seen.at = i /\ seen.row = row /\ seen.pc = "timer" /\ seen.was = r.was /\ seen.order = r.order
  BY <1>1, <1>3, <1>4, See, ZenonT(30)
<1> HIDE DEF seen
<1> DEFINE Fits(n) == n \in Requests /\ Same(n, r) /\ n.at = i /\ n.row = row
<1>9. \A p \in Steps, w \in TaskStatuses \union {NotMoved} :
        /\ Fits(Jumped(seen, p)) /\ Jumped(seen, p).pc = p
        /\ Fits(Marked(seen, w, p)) /\ Marked(seen, w, p).pc = p
        /\ Fits(Timing(seen, p, sent)) /\ Timing(seen, p, sent).pc = p
  <2> SUFFICES ASSUME NEW p \in Steps, NEW w \in TaskStatuses \union {NotMoved}
               PROVE  /\ Fits(Jumped(seen, p)) /\ Jumped(seen, p).pc = p
                      /\ Fits(Marked(seen, w, p)) /\ Marked(seen, w, p).pc = p
                      /\ Fits(Timing(seen, p, sent)) /\ Timing(seen, p, sent).pc = p
    OBVIOUS
  <2>1. Fits(Jumped(seen, p)) /\ Jumped(seen, p).pc = p
    BY <1>8, Jump DEF Same
  <2>2. Fits(Marked(seen, w, p)) /\ Marked(seen, w, p).pc = p
    BY <1>8, Mark DEF Same
  <2>3. Fits(Timing(seen, p, sent)) /\ Timing(seen, p, sent).pc = p
    BY <1>4, <1>8, Time DEF Same
  <2> QED
    BY <2>1, <2>2, <2>3
<1>10. Fits(new) /\ new.pc \in {"move", "others", "upsert", "read", "delete", "entry"} /\ Route(new)
  <2>0. {"move", "others", "upsert", "read", "delete", "entry"} \subseteq Steps /\ NotMoved \in {NotMoved}
    BY DEF Steps
  <2>1. CASE r.kind \in TaskStarts /\ r.was \in {"open", "blocked"}
    <3>1. new = Jumped(seen, "move")
      BY <1>7a, <2>1 DEF TaskStarts
    <3>2. Fits(new) /\ new.pc = "move"
      BY <1>9, <2>0, <3>1
    <3> QED
      BY <2>1, <3>2 DEF Route, TaskStarts, Same
  <2>2. CASE r.kind \in TaskStarts /\ r.was \notin {"open", "blocked"}
    <3>1. new = Marked(seen, kept, "others")
      BY <1>7a, <2>2 DEF TaskStarts
    <3>2. Fits(new) /\ new.pc = "others"
      BY <1>4, <1>9, <2>0, <3>1
    <3> QED
      BY <2>2, <3>2 DEF Route, TaskStarts, Same
  <2>3. CASE r.kind = "pauseTask"
    <3>1. new = Marked(seen, kept, "upsert")
      BY <1>7a, <2>3 DEF TaskStarts
    <3>2. Fits(new) /\ new.pc = "upsert"
      BY <1>4, <1>9, <2>0, <3>1
    <3> QED
      BY <2>3, <3>2 DEF Route, TaskStarts, Same
  <2>4. CASE r.kind = "link"
    <3>0. i = NoTimer
      BY <1>7a, <1>6, <2>4
    <3>1. new = Jumped(seen, "move") \/ new = Marked(seen, NotMoved, "read")
      BY <1>7a, <2>4, <3>0 DEF TaskStarts
    <3>2. Fits(new) /\ new.pc \in {"move", "read"}
      BY <1>9, <2>0, <3>1
    <3> QED
      BY <2>4, <3>2 DEF Route, TaskStarts, Same
  <2>5. CASE r.kind = "discardTask"
    <3>1. new = Jumped(seen, "delete")
      BY <1>7a, <2>5 DEF TaskStarts
    <3>2. Fits(new) /\ new.pc = "delete"
      BY <1>9, <2>0, <3>1
    <3> QED
      BY <2>5, <3>2 DEF Route, TaskStarts, Same
  <2>6. CASE r.kind = "finalizeTask"
    <3>1. new = Timing(seen, "entry", sent)
      BY <1>7a, <2>6 DEF TaskStarts
    <3>2. Fits(new) /\ new.pc = "entry"
      BY <1>9, <2>0, <3>1
    <3> QED
      BY <2>6, <3>2 DEF Route, TaskStarts, Same
  <2> QED
    BY <1>5, <2>1, <2>2, <2>3, <2>4, <2>5, <2>6
<1>11. Known(new, born)
  <2>1. r.kind # "status"
    BY <1>5 DEF TaskStarts
  <2> QED
    BY <1>3, <1>10, <2>1 DEF Known, Same, Starts, TaskStarts
<1> QED
  BY <1>10, <1>11

\* MoveTask keeps the types.
LEMMA MoveTaskTyped ==
  ASSUME Typed, NEW tab \in Tabs, MoveTask(tab)
  PROVE  Typed'
<1> DEFINE r == req[tab]
           p == IF r.kind = "link" THEN "read" ELSE "others"
<1>1. Fit(r, now, born) /\ r.pc = "move" /\ r \in Requests
  BY DEF MoveTask, At, Typed
<1>2. Counted' /\ Tabled' /\ now' = now /\ born' = born /\ now \in Nat
  <2>1. Counted' /\ now' = now /\ born' = born /\ now \in Nat
    BY DEF MoveTask, Typed, Counted, TaskStatuses, books, client, clock, faults
  <2>2. Tabled'
    BY <2>1, TabledSame DEF MoveTask, Typed, client
  <2> QED
    BY <2>1, <2>2
<1>3. p \in Steps \ {"idle"} /\ Goto(tab, p) /\ p \in {"read", "others"}
  BY DEF Steps, MoveTask
<1> DEFINE new == Jumped(r, p)
<1>4. new.pc = p /\ new.kind = r.kind
  BY <1>1, <1>3, Jump DEF Same
<1>5. Route(new) /\ Known(new, born)
  <2> HIDE DEF new
  <2> QED
    BY <1>1, <1>4 DEF Route, Known, TaskStarts, Fit, Same
<1> QED
  BY <1>2, <1>3, <1>5, GotoFit DEF Typed

\* ReadSlot keeps the types.
LEMMA ReadSlotTyped ==
  ASSUME Typed, NEW tab \in Tabs, ReadSlot(tab)
  PROVE  Typed'
<1> DEFINE r == req[tab]
           i == One(InSlot(r.slot))
           row == IF i = NoTimer THEN NoTimer ELSE timers[i]
           seen == Seen(r, i, row)
           sent == Larger(1, IF i = NoTimer THEN r.sent ELSE Elapsed(timers[i]))
<1>1. Fit(r, now, born) /\ r.pc = "read" /\ r \in Requests
  BY DEF ReadSlot, At, Typed
<1>2. Counted' /\ Tabled' /\ now' = now /\ born' = born /\ now \in Nat
  BY TabledSame DEF ReadSlot, Typed, Counted, table, books, client, clock, faults
<1>3. i \in Ids \union {NoTimer} /\ (i # NoTimer => i \in Existing /\ i \in born /\ timers[i] \in Rows /\ timers[i].slot = r.slot)
  BY OneIn DEF InSlot, Existing, Typed, Tabled
<1>4. row \in Rows \union {NoTimer} /\ sent \in Nat
  <2>1. i # NoTimer => Elapsed(timers[i]) \in Nat
    BY <1>2, <1>3, PausedRow DEF Typed, Tabled, Running
  <2>2. r.sent \in Nat
    BY <1>1 DEF Requests
  <2> HIDE DEF i
  <2>4. sent \in Nat
    BY <2>1, <2>2 DEF Larger
  <2> QED
    BY <1>3, <2>4
<1>5. r.kind \in {"status", "finalize", "link"}
  BY <1>1 DEF Fit, Route, Requests, AllKinds, TaskStarts
<1>6. CASE Done(tab) \/ Caught(tab)
  BY <1>2, <1>6, DoneFit, CaughtFit DEF Typed
<1>7. CASE ~Done(tab) /\ ~Caught(tab)
  <2> DEFINE new == CASE r.kind = "status" -> Jumped(seen, BeforeUpsert(r.on))
                      [] r.kind = "finalize" -> Timing(seen, "entry", sent)
                      [] r.kind = "link" -> Jumped(seen, "convert")
  <2>1. req' = [req EXCEPT ![tab] = new] /\ (r.kind = "status" => i # NoTimer)
    BY <1>5, <1>7 DEF ReadSlot, Seen, Jumped, Timing
  <2> HIDE DEF i, row, sent
  <2>2. seen \in Requests /\ Same(seen, r) /\ seen.at = i /\ seen.row = row
    BY <1>1, <1>3, <1>4, See
  <2> HIDE DEF seen
  <2>3. BeforeUpsert(r.on) \in {"others", "upsert"} /\ {"others", "upsert", "entry", "convert"} \subseteq Steps
    BY DEF BeforeUpsert, Steps
  <2>4a. /\ r.kind = "status" => new = Jumped(seen, BeforeUpsert(r.on))
         /\ r.kind = "finalize" => new = Timing(seen, "entry", sent)
         /\ r.kind = "link" => new = Jumped(seen, "convert")
    OBVIOUS
  <2> HIDE DEF new
  <2>4. /\ new \in Requests /\ Same(new, r) /\ new.at = i /\ new.row = row
        /\ new.pc \in {"others", "upsert", "entry", "convert"}
        /\ r.kind = "status" => new.pc \in {"others", "upsert"}
        /\ r.kind = "finalize" => new.pc = "entry"
        /\ r.kind = "link" => new.pc = "convert"
    <3>1. CASE r.kind = "status"
      BY <2>2, <2>3, <2>4a, <3>1, Jump, SMTT(30) DEF Same
    <3>2. CASE r.kind = "finalize"
      BY <1>4, <2>2, <2>3, <2>4a, <3>2, Time DEF Same
    <3>3. CASE r.kind = "link"
      <4>1. "convert" \in Steps
        BY <2>3
      <4> QED
        BY <2>2, <2>4a, <3>3, <4>1, Jump DEF Same
    <3> QED
      BY <1>5, <3>1, <3>2, <3>3
  <2>5. Route(new)
    BY <1>5, <2>4 DEF Route, TaskStarts, Same
  <2>6. Known(new, born)
    BY <1>3, <1>5, <2>1, <2>4 DEF Known, Starts, TaskStarts, row, Same
  <2>7. Fit(new, now, born)
    BY <1>1, <2>4, <2>5, <2>6, GoesOn
  <2> QED
    BY <1>2, <2>1, <2>7, OneRequest DEF Typed
<1> QED
  BY <1>6, <1>7

\* PauseOthers keeps the types.
LEMMA PauseOthersTyped ==
  ASSUME Typed, NEW tab \in Tabs, PauseOthers(tab)
  PROVE  Typed'
<1> DEFINE r == req[tab]
           new == Jumped(r, "upsert")
<1>1. Fit(r, now, born) /\ r.pc = "others" /\ r \in Requests
  BY DEF PauseOthers, At, Typed
<1>2. Counted' /\ now' = now /\ now \in Nat /\ born' = born
  BY DEF PauseOthers, Typed, Counted, TaskStatuses, books, client, clock, faults
<1>3. \A i \in Running : timers[i] \in Rows /\ timers[i].since <= now
  BY DEF Running, Existing, Typed, Tabled
<1>4. \A i \in Ids : \/ timers'[i] = timers[i]
                     \/ i \in Existing /\ timers'[i] = Paused(timers[i])
  BY DEF PauseOthers, Running
<1>5. timers' \in [Ids -> Rows \union {NoTimer}]
  <2>1. \A i \in Running : Paused(timers[i]) \in Rows
    BY <1>2, <1>3, PausedRow
  <2> QED
    BY <2>1 DEF PauseOthers, Typed, Tabled
<1>6. Tabled'
  BY <1>2, <1>4, <1>5, RowsThinned DEF Typed
<1>7. new.pc = "upsert" /\ Same(new, r) /\ new.at = r.at /\ new.row = r.row /\ "upsert" \in Steps
  BY <1>1, Jump DEF Steps
<1> HIDE DEF new
<1>8. Route(new) /\ Known(new, born)
  BY <1>1, <1>7 DEF Fit, Route, Known, Same, TaskStarts, Starts
<1> QED
  BY <1>2, <1>6, <1>7, <1>8, GotoFit DEF Typed, PauseOthers, new

\* Caught and Done in one.
LEMMA CaughtOrDone ==
  ASSUME Typed, NEW tab \in Tabs, Caught(tab) \/ Done(tab), now' = now, born' = born
  PROVE  req' \in [Tabs -> Requests] /\ \A u \in Tabs : Fit(req'[u], now', born')
BY DoneFit, CaughtFit

\* The row an upsert writes has the slot, status and time the request carries.
LEMMA WrittenRow ==
  ASSUME Typed, NEW tab \in Tabs, req[tab].pc = "upsert"
  PROVE  /\ Written(req[tab]) \in Rows
         /\ Written(req[tab]).slot = req[tab].slot
         /\ Written(req[tab]).status = req[tab].on
         /\ Written(req[tab]).acc = req[tab].sent
         /\ Written(req[tab]).since = IF req[tab].on = "running" THEN req[tab].since ELSE 0
         /\ req[tab].kind \in {"save", "status"} \union TaskStarts \union {"pauseTask"}
         /\ req[tab].kind # "status" => Written(req[tab]).src = req[tab].task
         /\ req[tab].kind = "status" => Written(req[tab]).src = req[tab].row.src
         /\ Target(req[tab]) \in born
         /\ req[tab].slot[1] = "source" => req[tab].slot = SourceOf(Written(req[tab]).src)
         /\ req[tab].slot[1] # "compact"
<1> DEFINE r == req[tab]
<1>1. Fit(r, now, born) /\ r \in Requests /\ r.pc = "upsert"
  BY DEF Typed
<1>2. r.kind \in {"save", "status"} \union TaskStarts \union {"pauseTask"}
  BY <1>1 DEF Fit, Route, Requests, AllKinds, TaskStarts
<1>3. r.kind # "status" => r.task \in Tasks \union {NoTask} /\ r.was \in TaskStatuses \union {NotMoved}
  BY <1>1 DEF Requests
<1>4. r.kind = "status" => r.at \in born /\ r.row \in Rows /\ r.row.slot = r.slot
  BY <1>1 DEF Fit, Known
<1>5. r.slot \in Slots /\ r.sent \in Nat /\ r.since \in Nat /\ r.on \in {"running", "paused"} /\ r.id \in born
  <2>1. CASE r.kind \in {"save", "status"}
    <3>1. PICK n \in 1..MaxSlot : r.slot = <<"manual", n>>
      BY <1>1, <2>1 DEF Fit, Carried, Manuals
    <3> QED
      BY <1>1, <2>1, <3>1 DEF Fit, Carried, Requests, Slots
  <2>2. CASE r.kind \in TaskStarts \union {"pauseTask"}
    <3>1. r.task \in Tasks /\ r.slot = <<"source", r.task>>
      BY <1>1, <2>2 DEF Fit, Carried, Manuals, TaskStarts, ByTask, SourceOf
    <3>2. r.slot \in Slots
      BY <3>1 DEF Slots
    <3> QED
      BY <1>1, <2>2, <3>2 DEF Fit, Carried, Requests, TaskStarts
  <2> QED
    BY <1>2, <2>1, <2>2
<1>6. /\ Written(r) = [slot |-> r.slot, src |-> Written(r).src, moved |-> Written(r).moved, status |-> r.on,
                       acc |-> r.sent, since |-> IF r.on = "running" THEN r.since ELSE 0]
      /\ Written(r).src \in Tasks \union {NoTask} /\ Written(r).moved \in TaskStatuses \union {NotMoved}
      /\ r.kind # "status" => Written(r).src = r.task
      /\ r.kind = "status" => Written(r).src = r.row.src
  <2>1. CASE r.kind = "status"
    BY <1>4, <2>1 DEF Written, Rows
  <2>2. CASE r.kind # "status"
    BY <1>3, <2>2 DEF Written
  <2> QED
    BY <2>1, <2>2
<1>7. Written(r) \in Rows
  BY <1>5, <1>6 DEF Rows
<1>8. Target(r) \in born
  <2>1. InSlot(r.slot) \subseteq born /\ born \subseteq Ids
    BY DEF InSlot, Typed, Tabled, Counted
  <2> QED
    BY <2>1, <1>4, <1>5, OneIn DEF Target
<1>9. r.slot[1] = "source" => r.slot = SourceOf(Written(r).src)
  <2>1. CASE r.kind \in {"save", "status"}
    BY <1>1, <2>1 DEF Fit, Carried, Manuals
  <2>2. CASE r.kind \in TaskStarts \union {"pauseTask"}
    BY <1>1, <1>6, <2>2 DEF Fit, Carried, Manuals, TaskStarts, ByTask
  <2> QED
    BY <1>2, <2>1, <2>2
<1>10. r.slot[1] # "compact"
  <2>1. CASE r.kind \in {"save", "status"}
    BY <1>1, <2>1 DEF Fit, Carried, Manuals
  <2>2. CASE r.kind \in TaskStarts \union {"pauseTask"}
    BY <1>1, <2>2 DEF Fit, Carried, Manuals, TaskStarts, ByTask, SourceOf
  <2> QED
    BY <1>2, <2>1, <2>2
<1> QED
  BY <1>2, <1>6, <1>7, <1>8, <1>9, <1>10

\* A slot has at most one row, by the unique index of the table.
LEMMA InOneSlot ==
  ASSUME Typed, NEW s
  PROVE  /\ InSlot(s) \subseteq {One(InSlot(s))}
         /\ InSlot(s) # {} => One(InSlot(s)) \in InSlot(s)
<1>1. InSlot(s) \subseteq Ids
  BY DEF InSlot, Existing
<1>2. \A i, j \in InSlot(s) : i = j
  BY DEF InSlot, Typed, Tabled, OneRowEach
<1> QED
  BY <1>1, <1>2, OneIn

\* A task has at most one timer, by the unique index on the source.
LEMMA OfOneTask ==
  ASSUME Typed, NEW t \in Tasks
  PROVE  /\ OfTask(t) \subseteq {One(OfTask(t))}
         /\ OfTask(t) # {} => One(OfTask(t)) \in OfTask(t)
<1>1. OfTask(t) \subseteq Ids
  BY DEF OfTask, Existing
<1>2. \A i, j \in OfTask(t) : i = j
  BY IdAssumption DEF OfTask, Typed, Tabled, OneRowEach
<1> QED
  BY <1>1, <1>2, OneIn

\* Writing a row keeps the types.
LEMMA UpsertTyped ==
  ASSUME Typed, NEW tab \in Tabs, Puts(tab)
  PROVE  Typed'
<1> DEFINE r == req[tab]
           i == Target(r)
           holder == One(InSlot(r.slot))
<1>1. Fit(r, now, born) /\ r.pc = "upsert" /\ r \in Requests
  BY DEF Puts, Upsert, AnswerFails, Fails, Stored, At, Typed
<1>2. now' = now /\ now \in Nat /\ born' = born
  BY DEF Puts, Upsert, AnswerFails, Fails, Stored, Typed, Counted, client, clock
<1>3. holder \in Ids \union {NoTimer} /\ (holder # NoTimer => holder \in Existing)
  BY OneIn DEF InSlot, Existing
<1>4. Counted'
  <2>1. holder # NoTimer => Elapsed(timers[holder]) \in Nat
    BY <1>2, <1>3, PausedRow DEF Existing, Running, Typed, Tabled
  <2> HIDE DEF holder
  <2>2. dropped' \in Nat
    BY <2>1 DEF Puts, Upsert, AnswerFails, Fails, Stored, Typed, Counted, holder
  <2> QED
    BY <2>2 DEF Puts, Upsert, AnswerFails, Fails, Stored, Typed, Counted, client, clock, faults
<1>5. (Caught(tab) \/ Done(tab)) /\ (timers' = timers \/ (timers' = [timers EXCEPT ![i] = Written(r)]
        /\ ~(holder = NoTimer /\ i \in Existing) /\ (Written(r).src # NoTask => OfTask(Written(r).src) \subseteq {i})))
  BY DEF Puts, Upsert, AnswerFails, Fails, Stored
<1>6. i \in born
  BY <1>1, WrittenRow
<1>7. InSlot(r.slot) \subseteq {i}
  BY InOneSlot DEF Target
<1>8. Written(r).status = "running" => Written(r).since <= now
  <2>1. r.since <= now
    BY <1>1 DEF Fit
  <2> QED
    BY <1>1, <2>1, WrittenRow
<1>9. Tabled'
  <2>1. CASE timers' = timers
    BY <1>2, <2>1, TabledSame DEF Typed
  <2>2. CASE timers' # timers
    <3>1. timers' = [timers EXCEPT ![i] = Written(r)] /\ (Written(r).src # NoTask => OfTask(Written(r).src) \subseteq {i})
      BY <1>5, <2>2
    <3>2. /\ Written(r) \in Rows /\ Written(r).slot = r.slot
          /\ r.slot[1] = "source" => r.slot = SourceOf(Written(r).src)
          /\ r.slot[1] # "compact"
      BY <1>1, WrittenRow
    <3> HIDE DEF i, r
    <3> QED
      BY <1>2, <1>6, <1>7, <1>8, <3>1, <3>2, RowWritten DEF Typed, Counted
  <2> QED
    BY <2>1, <2>2
<1> QED
  BY <1>2, <1>4, <1>5, <1>9, CaughtOrDone DEF Typed

\* Convert keeps the types.
LEMMA ConvertTyped ==
  ASSUME Typed, NEW tab \in Tabs, Convert(tab)
  PROVE  Typed'
<1> DEFINE r == req[tab]
           manual == InSlot(r.slot) \intersect Cards
           i == One(manual)
           row == [timers[i] EXCEPT !.slot = SourceOf(r.task), !.src = r.task, !.moved = r.was]
           new == Jumped(r, "list")
<1>1. Fit(r, now, born) /\ r.pc = "convert" /\ r \in Requests
  BY DEF Convert, At, Typed
<1>2. Counted' /\ now' = now /\ now \in Nat /\ born' = born /\ born \subseteq Ids
  BY DEF Convert, Typed, Counted, books, client, clock, faults
<1>3. r.kind = "link" /\ r.task \in Tasks
  BY <1>1 DEF Fit, Route, Carried, Requests, AllKinds, TaskStarts, Manuals
<1>4. CASE Caught(tab) /\ timers' = timers
  <2>1. Tabled'
    BY <1>2, <1>4, TabledSame DEF Typed
  <2> QED
    BY <1>2, <1>4, <2>1, CaughtFit DEF Typed
<1>5. CASE ~(Caught(tab) /\ timers' = timers)
  <2>1. manual # {} /\ OfTask(r.task) = {} /\ Goto(tab, "list")
    BY <1>5 DEF Convert
  <2>2. i \in manual /\ i \in Ids /\ i \in Existing /\ i \in born /\ timers[i] \in Rows
    <3>1. manual \subseteq Ids
      BY DEF Cards, Existing
    <3>2. i \in manual
      BY <2>1, <3>1, OneIn
    <3> QED
      BY <3>2 DEF Cards, Existing, Typed, Tabled
  <2>3. timers' = [timers EXCEPT ![i] = row]
    BY <1>5, <2>2 DEF Convert, Typed, Tabled
  <2>4. row \in Rows /\ row.slot = <<"source", r.task>> /\ row.src = r.task /\ row.status = timers[i].status /\ row.since = timers[i].since
    <3>1. SourceOf(r.task) \in Slots /\ r.was \in TaskStatuses \union {NotMoved}
      BY <1>1, <1>3 DEF SourceOf, Slots, Requests
    <3> HIDE DEF i
    <3> QED
      BY <1>3, <2>2, <3>1 DEF Rows, SourceOf
  <2>5. InSlot(row.slot) = {}
    <3> SUFFICES ASSUME NEW j \in InSlot(row.slot) PROVE FALSE
      OBVIOUS
    <3> HIDE DEF row
    <3>1. j \in Existing /\ timers[j].slot = <<"source", r.task>>
      BY <2>4 DEF InSlot
    <3>2. timers[j].slot = SourceOf(timers[j].src)
      <4>1. timers[j].slot[1] = "source"
        BY <3>1
      <4> QED
        BY <3>1, <4>1 DEF Typed, Tabled, OneRowEach
    <3>3. timers[j].src = r.task
      BY <3>1, <3>2 DEF SourceOf
    <3> QED
      BY <2>1, <3>1, <3>3 DEF OfTask
  <2>6. row.status = "running" => row.since <= now
    BY <2>2, <2>4 DEF Typed, Tabled, Running
  <2>7. Tabled'
    <3> HIDE DEF row, i
    <3>1. row.slot[1] = "source" /\ row.slot = SourceOf(row.src) /\ InSlot(row.slot) \subseteq {i} /\ OfTask(row.src) \subseteq {i}
      BY <2>1, <2>4, <2>5 DEF SourceOf
    <3> QED
      BY <1>2, <2>2, <2>3, <2>4, <2>6, <3>1, RowWritten DEF Typed
  <2>8. new.pc = "list" /\ Same(new, r) /\ "list" \in Steps
    BY <1>1, Jump DEF Steps
  <2> HIDE DEF new
  <2>9. Route(new) /\ Known(new, born)
    BY <1>3, <2>8 DEF Route, Known, Same, Starts, TaskStarts
  <2> QED
    BY <1>2, <2>1, <2>7, <2>8, <2>9, GotoFit DEF Typed, new
<1> QED
  BY <1>4, <1>5

\* CreateEntry keeps the types.
LEMMA CreateEntryTyped ==
  ASSUME Typed, NEW tab \in Tabs, CreateEntry(tab)
  PROVE  Typed'
<1> DEFINE r == req[tab]
           new == Jumped(r, "delete")
<1>1. Fit(r, now, born) /\ r.pc = "entry" /\ r \in Requests
  BY DEF CreateEntry, At, Typed
<1>2. now' = now /\ now \in Nat /\ born' = born /\ timers' = timers
  BY DEF CreateEntry, Typed, Counted, client, clock, table
<1>3. Tabled'
  BY <1>2, TabledSame DEF Typed
<1>4. Counted'
  <2>1. r.task \in Tasks \union {NoTask} /\ (r.row # NoTimer => r.row.src \in Tasks \union {NoTask}) /\ r.sent \in Nat
    BY <1>1 DEF Requests, Rows
  <2> DEFINE i == IF r.at = NoTimer THEN r.id ELSE r.at
             src == IF r.row = NoTimer THEN r.task ELSE r.row.src
  <2>2. src \in Tasks \union {NoTask}
    BY <2>1
  <2> HIDE DEF src, i
  <2>3. worked' \subseteq Tasks
    BY <2>2 DEF CreateEntry, Typed, Counted, src
  <2>4. saved' \in [Ids -> Nat] /\ booked' \in Nat
    <3>1. saved' = [saved EXCEPT ![i] = @ + 1] /\ booked' = booked + r.sent
      BY DEF CreateEntry, i
    <3>2. saved \in [Ids -> Nat] /\ booked \in Nat
      BY DEF Typed, Counted
    <3>3. booked' \in Nat
      BY <2>1, <3>1, <3>2
    <3>4. \A x \in Ids : saved'[x] \in Nat
      BY <3>1, <3>2
    <3> QED
      BY <3>1, <3>2, <3>3, <3>4
  <2> QED
    BY <2>3, <2>4 DEF CreateEntry, Typed, Counted, client, clock, faults, table
<1>5. new.pc = "delete" /\ Same(new, r) /\ new.at = r.at /\ "delete" \in Steps
  BY <1>1, Jump DEF Steps
<1> HIDE DEF new
<1>6. Route(new) /\ Known(new, born)
  BY <1>1, <1>5 DEF Fit, Route, Known, Same, Starts, TaskStarts
<1> QED
  BY <1>2, <1>3, <1>4, <1>5, <1>6, GotoFit DEF Typed, CreateEntry, new

\* DeleteTimer keeps the types.
LEMMA DeleteTimerTyped ==
  ASSUME Typed, NEW tab \in Tabs, DeleteTimer(tab)
  PROVE  Typed'
<1> DEFINE r == req[tab]
           keeps == r.row = NoTimer \/ r.was # "in_progress"
<1>1. Fit(r, now, born) /\ r.pc = "delete" /\ r \in Requests
  BY DEF DeleteTimer, At, Typed
<1>2. Counted' /\ now' = now /\ now \in Nat /\ born' = born
  BY DEF DeleteTimer, Typed, Counted, books, client, clock, faults
<1>3. \A i \in Ids : timers'[i] = timers[i] \/ timers'[i] = NoTimer
  BY DEF DeleteTimer
<1>4. timers' \in [Ids -> Rows \union {NoTimer}]
  BY DEF DeleteTimer, Typed, Tabled
<1>5. Tabled'
  BY <1>2, <1>3, <1>4, RowsThinned DEF Typed
<1>6. CASE Done(tab)
  BY <1>2, <1>5, <1>6, DoneFit DEF Typed
<1>7. CASE ~Done(tab)
  <2>1. \E p \in {"list", "evidence"} :
            Goto(tab, p) /\ (p = "list" => r.kind \in {"discard", "finalize"}) /\ (p = "evidence" => r.kind = "discardTask" /\ ~keeps)
    BY <1>7 DEF DeleteTimer
  <2>2. PICK p \in {"list", "evidence"} :
            Goto(tab, p) /\ (p = "list" => r.kind \in {"discard", "finalize"}) /\ (p = "evidence" => r.kind = "discardTask" /\ ~keeps)
    BY <2>1
  <2> DEFINE new == Jumped(r, p)
  <2>3. new.pc = p /\ Same(new, r) /\ new.row = r.row /\ p \in Steps
    BY <1>1, Jump DEF Steps
  <2>4. r.row \in Rows \union {NoTimer}
    BY <1>1 DEF Requests
  <2> HIDE DEF new
  <2>5. Route(new)
    BY <2>2, <2>3 DEF Route, Same, Starts, TaskStarts
  <2>6. Known(new, born)
    BY <2>2, <2>3, <2>4 DEF Known, Same, Starts, TaskStarts
  <2> QED
    BY <1>2, <1>5, <2>2, <2>3, <2>5, <2>6, GotoFit DEF Typed, new
<1> QED
  BY <1>6, <1>7

-----------------------------------------------------------------------------

\* Cards are finitely many, at most one in each manual slot.
LEMMA CardSlots ==
  ASSUME Typed
  PROVE  /\ IsFiniteSet(Cards) /\ Cardinality(Cards) \in Nat /\ Cardinality(Cards) <= MaxSlot
         /\ \A i \in Cards : i \in Ids /\ timers[i].slot[2] \in 1..MaxSlot /\ timers[i].slot = <<"manual", timers[i].slot[2]>>
         /\ \A i, j \in Cards : timers[i].slot[2] = timers[j].slot[2] => i = j
<1>1. IsFiniteSet(Cards)
  BY FS_Subset, IdAssumption DEF Cards, Existing
<1>2. \A i \in Cards : timers[i].slot \in Slots /\ timers[i].slot[1] = "manual"
  BY DEF Cards, Existing, Typed, Tabled, Rows
<1>3. \A i \in Cards : timers[i].slot[2] \in 1..MaxSlot /\ timers[i].slot = <<"manual", timers[i].slot[2]>>
  <2> SUFFICES ASSUME NEW i \in Cards
               PROVE timers[i].slot[2] \in 1..MaxSlot /\ timers[i].slot = <<"manual", timers[i].slot[2]>>
    OBVIOUS
  <2>1. PICK n \in 1..MaxSlot : timers[i].slot = <<"manual", n>>
    BY <1>2, SlotForms
  <2> QED
    BY <2>1
<1>4. \A i, j \in Cards : timers[i].slot[2] = timers[j].slot[2] => i = j
  BY <1>3 DEF Cards, Typed, Tabled, OneRowEach
<1> DEFINE place == [i \in Cards |-> timers[i].slot[2]]
<1>5. place \in Injection(Cards, 1..MaxSlot)
  BY <1>3, <1>4 DEF Injection, IsInjective
<1>6. Cardinality(Cards) <= Cardinality(1..MaxSlot) /\ Cardinality(1..MaxSlot) = MaxSlot
  <2>1. IsFiniteSet(1..MaxSlot) /\ Cardinality(1..MaxSlot) = MaxSlot
    BY FS_Interval, BoundAssumption
  <2> HIDE DEF place
  <2> QED
    BY <1>5, <2>1, FS_Injection
<1> QED
  BY <1>1, <1>3, <1>4, <1>6, FS_CardinalityType, IdAssumption DEF Cards, Existing

\* Closing up numbers the cards from one: Rank counts them one-to-one.
LEMMA RankCounts ==
  ASSUME Typed
  PROVE  /\ \A i \in Cards : Rank(i) \in 1..Cardinality(Cards)
         /\ \A k \in 1..Cardinality(Cards) : \E i \in Cards : Rank(i) = k
         /\ \A i, j \in Cards : Rank(i) = Rank(j) => i = j
<1> DEFINE Upto(i) == {j \in Cards : timers[j].slot[2] <= timers[i].slot[2]}
<1>1. IsFiniteSet(Cards) /\ Cardinality(Cards) \in Nat
  BY CardSlots
<1>2. \A i \in Cards : timers[i].slot[2] \in Int
  BY CardSlots
<1>3. \A i \in Cards : i \in Upto(i) /\ IsFiniteSet(Upto(i)) /\ Rank(i) = Cardinality(Upto(i))
  BY <1>1, <1>2, FS_Subset DEF Rank
<1>4. \A i \in Cards : Rank(i) \in 1..Cardinality(Cards)
  <2> SUFFICES ASSUME NEW i \in Cards PROVE Rank(i) \in 1..Cardinality(Cards)
    OBVIOUS
  <2>1. Cardinality(Upto(i)) <= Cardinality(Cards) /\ Cardinality(Upto(i)) \in Nat
    BY <1>1, <1>3, FS_Subset, FS_CardinalityType
  <2>2. Cardinality(Upto(i)) # 0
    BY <1>3, FS_EmptySet
  <2> QED
    BY <1>1, <1>3, <2>1, <2>2
<1>5. \A i, j \in Cards : timers[i].slot[2] < timers[j].slot[2] => Rank(i) < Rank(j)
  <2> SUFFICES ASSUME NEW i \in Cards, NEW j \in Cards, timers[i].slot[2] < timers[j].slot[2]
               PROVE  Rank(i) < Rank(j)
    OBVIOUS
  <2>1. Upto(i) \subseteq Upto(j) /\ j \notin Upto(i) /\ j \in Upto(j)
    BY <1>2
  <2>2. Upto(i) # Upto(j)
    BY <2>1
  <2>3. Cardinality(Upto(i)) < Cardinality(Upto(j))
    <3> HIDE DEF Upto
    <3> QED
      <4>1. /\ IsFiniteSet(Upto(j)) /\ Upto(i) \in SUBSET Upto(j)
            /\ Cardinality(Upto(i)) \in Nat /\ Cardinality(Upto(j)) \in Nat
        BY <1>3, <2>1, FS_CardinalityType
      <4>2. Cardinality(Upto(i)) <= Cardinality(Upto(j)) /\ Cardinality(Upto(i)) # Cardinality(Upto(j))
        BY <2>2, <4>1, FS_Subset
      <4> QED
        BY <4>1, <4>2
  <2> QED
    BY <1>3, <2>3
<1>6. \A i, j \in Cards : Rank(i) = Rank(j) => i = j
  <2> SUFFICES ASSUME NEW i \in Cards, NEW j \in Cards, Rank(i) = Rank(j) PROVE i = j
    OBVIOUS
  <2>1. Rank(i) \in Int
    BY <1>4
  <2>2. timers[i].slot[2] = timers[j].slot[2]
    BY <1>2, <1>5, <2>1
  <2> QED
    BY <2>2, CardSlots
<1> DEFINE n == Cardinality(Cards)
           rank == [i \in Cards |-> Rank(i)]
<1>7. rank \in Injection(Cards, 1..n)
  BY <1>4, <1>6 DEF Injection, IsInjective
<1>8. IsFiniteSet(1..n) /\ Cardinality(1..n) = n
  BY <1>1, FS_Interval
<1>9. rank \in Surjection(Cards, 1..n)
  <2> HIDE DEF rank
  <2> QED
    BY <1>7, <1>8, FS_Injection
<1>10. \A k \in 1..n : \E i \in Cards : Rank(i) = k
  BY <1>9 DEF Surjection
<1> QED
  BY <1>4, <1>6, <1>10

\* The order of closing up lists every card, and nothing else.
LEMMA SortedCards ==
  ASSUME Typed
  PROVE  /\ Sorted \in Seq(Ids) /\ Len(Sorted) = Cardinality(Cards) /\ Len(Sorted) \in Nat /\ Len(Sorted) <= MaxSlot
         /\ \A k \in 1..Len(Sorted) : Sorted[k] \in Cards
         /\ \A i \in Cards : \E k \in 1..Len(Sorted) : Sorted[k] = i
<1> DEFINE n == Cardinality(Cards)
<1>1. n \in Nat /\ n <= MaxSlot /\ Cards \subseteq Ids
  BY CardSlots
<1>2. \A k \in 1..n : Sorted[k] \in Cards /\ Rank(Sorted[k]) = k
  <2> SUFFICES ASSUME NEW k \in 1..n PROVE Sorted[k] \in Cards /\ Rank(Sorted[k]) = k
    OBVIOUS
  <2>1. Sorted[k] = CHOOSE i \in Cards : Rank(i) = k
    BY DEF Sorted
  <2> QED
    BY <2>1, RankCounts
<1>3. Sorted \in [1..n -> Ids]
  BY <1>1, <1>2 DEF Sorted
<1>4. Sorted \in Seq(Ids) /\ Len(Sorted) = n
  <2> HIDE DEF n
  <2> QED
    BY <1>1, <1>3
<1>5. \A i \in Cards : Rank(i) \in 1..n /\ Sorted[Rank(i)] = i
  BY <1>2, RankCounts
<1> QED
  BY <1>1, <1>2, <1>4, <1>5

\* ListCards keeps the types.
LEMMA ListCardsTyped ==
  ASSUME Typed, NEW tab \in Tabs, ListCards(tab)
  PROVE  Typed'
<1> DEFINE r == req[tab]
<1>1. Fit(r, now, born) /\ r.pc = "list" /\ r \in Requests
  BY DEF ListCards, At, Typed
<1>2. Counted' /\ Tabled' /\ now' = now /\ born' = born
  BY TabledSame DEF ListCards, Typed, Counted, table, books, client, clock, faults
<1>3. CASE Done(tab)
  BY <1>2, <1>3, DoneFit DEF Typed
<1>4. CASE ~Done(tab)
  <2>1. \E i \in Cards : timers[i].slot[2] # Rank(i)
    BY <1>4 DEF ListCards
  <2>2. 1 <= Len(Sorted)
    BY <2>1, SortedCards
  <2> DEFINE new == [r EXCEPT !.order = Sorted, !.at = 1, !.pc = "strand"]
  <2>3. req' = [req EXCEPT ![tab] = new]
    BY <1>4 DEF ListCards, Typed
  <2>4. Sorted \in Seq(Ids) /\ "strand" \in Steps
    BY SortedCards DEF Steps
  <2>5. new \in Requests /\ Same(new, r) /\ new.pc = "strand" /\ new.order = Sorted /\ new.at = 1
    BY <1>1, <2>4, ZenonT(30) DEF Requests, Same
  <2> HIDE DEF new
  <2>6. Route(new) /\ Known(new, born)
    BY <1>1, <2>2, <2>5, SortedCards DEF Fit, Route, Known, Same, Starts, TaskStarts
  <2>7. Fit(new, now, born)
    BY <1>1, <2>5, <2>6, GoesOn
  <2> QED
    BY <1>2, <2>3, <2>7, OneRequest DEF Typed
<1> QED
  BY <1>3, <1>4

\* A row that gets a free slot leaves the table sound.
LEMMA MovedRow ==
  ASSUME Typed, born' = born, now' = now, NEW i \in Existing, NEW slot \in Slots, InSlot(slot) \subseteq {i},
         timers' = [timers EXCEPT ![i].slot = slot],
         slot[1] = "compact" => slot = <<"compact", i>>, slot[1] # "source"
  PROVE  Tabled'
<1> DEFINE row == [timers[i] EXCEPT !.slot = slot]
<1>1. i \in born /\ i \in Ids /\ timers[i] \in Rows /\ now \in Nat /\ born \subseteq Ids
  BY DEF Existing, Typed, Tabled, Counted
<1>2. timers' = [timers EXCEPT ![i] = row]
  BY DEF Typed, Tabled
<1>3. row \in Rows /\ row.slot = slot /\ row.src = timers[i].src /\ row.status = timers[i].status /\ row.since = timers[i].since
  BY <1>1 DEF Rows
<1>4. row.src = NoTask \/ OfTask(row.src) \subseteq {i}
  <2>1. \A j \in OfTask(timers[i].src) : timers[i].src # NoTask => j = i
    BY DEF OfTask, Typed, Tabled, OneRowEach
  <2> QED
    BY <1>3, <2>1
<1>5. row.status = "running" => row.since <= now
  BY <1>3 DEF Typed, Tabled, Running
<1> HIDE DEF row
<1> QED
  BY <1>1, <1>2, <1>3, <1>4, <1>5, RowWritten DEF Typed

\* Rename keeps the types.
LEMMA RenameTyped ==
  ASSUME Typed, NEW tab \in Tabs, req[tab].pc \in {"strand", "place"}, NEW slot \in Slots, NEW next \in BOOLEAN,
         Rename(tab, slot, next), born' = born, now' = now,
         slot[1] = "compact" => slot = <<"compact", req[tab].order[req[tab].at]>>, slot[1] # "source",
         next => req' \in [Tabs -> Requests] /\ \A u \in Tabs : Fit(req'[u], now', born')
  PROVE  Tabled' /\ req' \in [Tabs -> Requests] /\ \A u \in Tabs : Fit(req'[u], now', born')
<1> DEFINE r == req[tab]
           i == r.order[r.at]
           clash == InSlot(slot) \ {i} # {} /\ i \in Existing
<1>1. Fit(r, now, born) /\ r \in Requests /\ r.at \in 1..Len(r.order) /\ Len(r.order) <= MaxSlot /\ r.order \in Seq(Ids) /\ i \in Ids
  <2>1. Fit(r, now, born) /\ r \in Requests /\ r.order \in Seq(Ids) /\ r.at \in 1..Len(r.order) /\ Len(r.order) <= MaxSlot
    BY DEF Typed, Fit, Known, Requests
  <2> QED
    BY <2>1
<1>2. Tabled'
  <2>1. CASE i \in Existing /\ ~clash
    <3>1. timers' = [timers EXCEPT ![i].slot = slot] /\ InSlot(slot) \subseteq {i}
      BY <2>1 DEF Rename
    <3> HIDE DEF i, clash
    <3>2. slot[1] = "compact" => slot = <<"compact", i>>
      BY DEF i
    <3> QED
      BY <2>1, <3>1, <3>2, MovedRow
  <2>2. CASE ~(i \in Existing /\ ~clash)
    <3>1. timers' = timers
      BY <2>2 DEF Rename
    <3> QED
      BY <3>1, TabledSame DEF Typed, Counted
  <2> QED
    BY <2>1, <2>2
<1>3. CASE Caught(tab)
  BY <1>2, <1>3, CaughtFit
<1>4. CASE r.at < Len(r.order) /\ req' = [req EXCEPT ![tab].at = @ + 1]
  <2> DEFINE new == [r EXCEPT !.at = @ + 1]
  <2>1. req' = [req EXCEPT ![tab] = new]
    BY <1>4 DEF Typed
  <2>2. r.at + 1 \in Nat /\ r.at + 1 \in 1..Len(r.order)
    BY <1>1, <1>4
  <2>3. new \in Requests /\ Same(new, r) /\ new.pc = r.pc /\ new.order = r.order /\ new.at = r.at + 1
    BY <1>1, <2>2 DEF Requests, Same
  <2> HIDE DEF new
  <2>4. Route(new) /\ Known(new, born)
    BY <1>1, <2>2, <2>3 DEF Fit, Route, Known, Same, Starts, TaskStarts
  <2>5. Fit(new, now, born)
    BY <1>1, <2>3, <2>4, GoesOn
  <2> QED
    BY <1>2, <2>1, <2>5, OneRequest
<1>5. CASE next
  BY <1>2, <1>5
<1> QED
  BY <1>3, <1>4, <1>5 DEF Rename

\* Strand keeps the types.
LEMMA StrandTyped ==
  ASSUME Typed, NEW tab \in Tabs, Strand(tab)
  PROVE  Typed'
<1> DEFINE r == req[tab]
           i == r.order[r.at]
           next == req' = [req EXCEPT ![tab].at = 1, ![tab].pc = "place"]
<1>1. Fit(r, now, born) /\ r.pc = "strand" /\ r \in Requests /\ r.at \in 1..Len(r.order) /\ Len(r.order) <= MaxSlot /\ r.order \in Seq(Ids)
  BY DEF Strand, At, Typed, Fit, Known, Requests
<1>2. Counted' /\ now' = now /\ born' = born
  BY DEF Strand, Typed, Counted, books, client, clock, faults
<1>3. i \in Ids /\ <<"compact", i>> \in Slots
  <2>1. i \in Ids
    BY <1>1
  <2> HIDE DEF i
  <2> QED
    BY <2>1 DEF Slots
<1>4. ASSUME next PROVE req' \in [Tabs -> Requests] /\ \A u \in Tabs : Fit(req'[u], now', born')
  <2> DEFINE new == [r EXCEPT !.at = 1, !.pc = "place"]
  <2>1. req' = [req EXCEPT ![tab] = new]
    BY <1>4 DEF Typed
  <2>2. "place" \in Steps /\ 1 \in 1..Len(r.order)
    BY <1>1 DEF Steps
  <2>3. new \in Requests /\ Same(new, r) /\ new.pc = "place" /\ new.order = r.order /\ new.at = 1
    BY <1>1, <2>2, ZenonT(30) DEF Requests, Same
  <2> HIDE DEF new
  <2>4. Route(new) /\ Known(new, born)
    BY <1>1, <2>2, <2>3 DEF Fit, Route, Known, Same, Starts, TaskStarts
  <2>5. Fit(new, now, born)
    BY <1>1, <2>3, <2>4, GoesOn
  <2> QED
    BY <1>2, <2>1, <2>5, OneRequest
<1>5. Rename(tab, <<"compact", i>>, next)
  BY DEF Strand
<1>6. Tabled' /\ req' \in [Tabs -> Requests] /\ \A u \in Tabs : Fit(req'[u], now', born')
  <2> HIDE DEF next
  <2>1. next \in BOOLEAN
    BY DEF next
  <2>2. PICK s \in Slots : s = <<"compact", i>>
    BY <1>3
  <2>3. s[1] = "compact" /\ s[1] # "source"
    BY <2>2
  <2> QED
    BY <1>1, <1>2, <1>4, <1>5, <2>1, <2>2, <2>3, RenameTyped
<1> QED
  BY <1>2, <1>6 DEF Typed

\* Place keeps the types.
LEMMA PlaceTyped ==
  ASSUME Typed, NEW tab \in Tabs, Place(tab)
  PROVE  Typed'
<1> DEFINE r == req[tab]
<1>1. Fit(r, now, born) /\ r.pc = "place" /\ r \in Requests /\ r.at \in 1..Len(r.order) /\ Len(r.order) <= MaxSlot /\ r.order \in Seq(Ids)
  BY DEF Place, At, Typed, Fit, Known, Requests
<1>2. Counted' /\ now' = now /\ born' = born
  BY DEF Place, Typed, Counted, books, client, clock, faults
<1>3. <<"manual", r.at>> \in Slots
  BY <1>1, BoundAssumption DEF Slots
<1>4. Done(tab) => req' \in [Tabs -> Requests] /\ \A u \in Tabs : Fit(req'[u], now', born')
  BY <1>2, DoneFit
<1>5. Rename(tab, <<"manual", r.at>>, Done(tab))
  BY DEF Place
<1>6. Tabled' /\ req' \in [Tabs -> Requests] /\ \A u \in Tabs : Fit(req'[u], now', born')
  <2>1. Done(tab) \in BOOLEAN
    BY DEF Done
  <2>2. PICK s \in Slots : s = <<"manual", r.at>>
    BY <1>3
  <2>3. s[1] # "compact" /\ s[1] # "source"
    BY <2>2
  <2> QED
    BY <1>1, <1>2, <1>4, <1>5, <2>1, <2>2, <2>3, RenameTyped
<1> QED
  BY <1>2, <1>6 DEF Typed

\* ReadEvidence keeps the types.
LEMMA ReadEvidenceTyped ==
  ASSUME Typed, NEW tab \in Tabs, ReadEvidence(tab)
  PROVE  Typed'
<1> DEFINE r == req[tab]
           from == IF r.kind = "discardTask" THEN r.row.moved ELSE r.was
           new == Marked(r, from, "revert")
<1>1. Fit(r, now, born) /\ r.pc = "evidence" /\ r \in Requests
  BY DEF ReadEvidence, At, Typed
<1>2. Counted' /\ Tabled' /\ now' = now /\ born' = born
  BY TabledSame DEF ReadEvidence, Typed, Counted, table, books, client, clock, faults
<1>3. CASE Done(tab)
  BY <1>2, <1>3, DoneFit DEF Typed
<1>4. CASE ~Done(tab)
  <2>1. req' = [req EXCEPT ![tab] = new]
    BY <1>4 DEF ReadEvidence, Marked, Typed
  <2>2. from \in TaskStatuses \union {NotMoved}
    BY <1>1 DEF Fit, Known, Requests, Rows
  <2>3. "revert" \in Steps
    BY DEF Steps
  <2> HIDE DEF from
  <2>4. new \in Requests /\ Same(new, r) /\ new.pc = "revert" /\ new.row = r.row
    BY <1>1, <2>2, <2>3, Mark
  <2> HIDE DEF new
  <2>5. Route(new) /\ Known(new, born)
    BY <1>1, <2>4 DEF Fit, Route, Known, Same, Starts, TaskStarts
  <2>6. Fit(new, now, born)
    BY <1>1, <2>4, <2>5, GoesOn
  <2> QED
    BY <1>2, <2>1, <2>6, OneRequest DEF Typed
<1> QED
  BY <1>3, <1>4

\* Revert keeps the types.
LEMMA RevertTyped ==
  ASSUME Typed, NEW tab \in Tabs, Revert(tab)
  PROVE  Typed'
<1>1. Counted' /\ now' = now /\ born' = born /\ Done(tab) /\ timers' = timers
  BY DEF Revert, Typed, Counted, TaskStatuses, books, client, clock, faults
<1>2. Tabled'
  BY <1>1, TabledSame DEF Typed, Counted
<1> QED
  BY <1>1, <1>2, DoneFit DEF Typed

\* CheckComplete keeps the types.
LEMMA CheckCompleteTyped ==
  ASSUME Typed, NEW tab \in Tabs, CheckComplete(tab)
  PROVE  Typed'
<1> DEFINE r == req[tab]
           new == Jumped(r, "write")
<1>1. Fit(r, now, born) /\ r.pc = "check" /\ r \in Requests
  BY DEF CheckComplete, At, Typed
<1>2. Counted' /\ Tabled' /\ now' = now /\ born' = born
  BY TabledSame DEF CheckComplete, Typed, Counted, table, books, client, clock, faults
<1>3. CASE Done(tab)
  BY <1>2, <1>3, DoneFit DEF Typed
<1>4. CASE Goto(tab, "write")
  <2>1. new.pc = "write" /\ Same(new, r) /\ "write" \in Steps
    BY <1>1, Jump DEF Steps
  <2> HIDE DEF new
  <2>2. Route(new) /\ Known(new, born)
    BY <1>1, <2>1 DEF Fit, Route, Known, Same, Starts, TaskStarts
  <2> QED
    BY <1>2, <1>4, <2>1, <2>2, GotoFit DEF Typed, new
<1> QED
  BY <1>3, <1>4 DEF CheckComplete

\* WriteTask keeps the types.
LEMMA WriteTaskTyped ==
  ASSUME Typed, NEW tab \in Tabs, WriteTask(tab)
  PROVE  Typed'
<1> DEFINE r == req[tab]
           s == r.slot[1]
           new == Jumped(r, "quiet")
<1>1. Fit(r, now, born) /\ r.pc = "write" /\ r \in Requests
  BY DEF WriteTask, At, Typed
<1>2. (s \in Targets /\ r.kind = "setTask") \/ s = "complete"
  BY <1>1 DEF Fit, Route, Carried, Requests, AllKinds, TaskStarts
<1>3. Counted' /\ now' = now /\ born' = born /\ timers' = timers
  <2>1. s \in TaskStatuses
    BY <1>2, KindAssumption DEF TaskStatuses
  <2> HIDE DEF s
  <2> QED
    BY <2>1 DEF WriteTask, Typed, Counted, books, client, clock, faults, s
<1>4. Tabled'
  BY <1>3, TabledSame DEF Typed, Counted
<1>5. CASE Done(tab)
  BY <1>3, <1>4, <1>5, DoneFit DEF Typed
<1>6. CASE ~Done(tab)
  <2>0. s = "blocked" /\ Goto(tab, "quiet") /\ r.kind = "setTask"
    BY <1>2, <1>6 DEF WriteTask
  <2>1. new.pc = "quiet" /\ Same(new, r) /\ "quiet" \in Steps
    BY <1>1, Jump DEF Steps
  <2> HIDE DEF new
  <2>2. Route(new) /\ Known(new, born)
    BY <1>1, <2>0, <2>1 DEF Fit, Route, Known, Same, Starts, TaskStarts
  <2> QED
    BY <1>3, <1>4, <2>0, <2>1, <2>2, GotoFit DEF Typed, new
<1> QED
  BY <1>5, <1>6

\* PauseBlocked keeps the types.
LEMMA PauseBlockedTyped ==
  ASSUME Typed, NEW tab \in Tabs, PauseBlocked(tab)
  PROVE  Typed'
<1>1. Counted' /\ now' = now /\ now \in Nat /\ born' = born /\ Done(tab)
  BY DEF PauseBlocked, Typed, Counted, TaskStatuses, books, client, clock, faults
<1>2. \A i \in Running : timers[i] \in Rows /\ timers[i].since <= now
  BY DEF Running, Existing, Typed, Tabled
<1>3. \A i \in Ids : \/ timers'[i] = timers[i]
                     \/ i \in Existing /\ timers'[i] = Paused(timers[i])
  BY DEF PauseBlocked, Running
<1>4. timers' \in [Ids -> Rows \union {NoTimer}]
  <2>1. \A i \in Running : Paused(timers[i]) \in Rows
    BY <1>1, <1>2, PausedRow
  <2> QED
    BY <2>1 DEF PauseBlocked, Typed, Tabled
<1>5. Tabled'
  BY <1>1, <1>3, <1>4, RowsThinned DEF Typed
<1> QED
  BY <1>1, <1>5, DoneFit DEF Typed

\* A fault keeps the types.
LEMMA ErringTyped ==
  ASSUME Typed, NEW tab \in Tabs, Erring(tab)
  PROVE  Typed'
<1>1. CASE StatementFails(tab)
  <2>1. Counted' /\ Tabled' /\ now' = now /\ born' = born /\ (Caught(tab) \/ Done(tab))
    BY <1>1, TabledSame DEF StatementFails, ErrorAt, Fails, Typed, Counted, table, books, client, clock
  <2> QED
    BY <2>1, CaughtOrDone DEF Typed
<1>2. CASE AuditFails(tab)
  <2>1. task' \in [Tasks -> TaskStatuses]
    BY <1>2 DEF AuditFails, Typed, Counted, TaskStatuses
  <2>2. Counted' /\ Tabled' /\ now' = now /\ born' = born /\ Done(tab)
    BY <1>2, <2>1, TabledSame DEF AuditFails, Fails, Typed, Counted, books, client, clock
  <2> QED
    BY <2>2, DoneFit DEF Typed
<1>3. CASE AnswerFails(tab)
  BY <1>3, UpsertTyped DEF Puts
<1> QED
  BY <1>1, <1>2, <1>3 DEF Erring

\* Crash keeps the types.
LEMMA CrashTyped ==
  ASSUME Typed, Crash
  PROVE  Typed'
<1>1. Counted' /\ Tabled' /\ now' = now /\ now \in Nat /\ born' = born
  BY TabledSame DEF Crash, Typed, Counted, table, books, client, clock, faults
<1>2. Fit(Idle, now, born) /\ Idle \in Requests
  BY <1>1, IdleFit DEF Fit
<1> QED
  BY <1>1, <1>2 DEF Crash, Typed

\* Tick keeps the types.
LEMMA TickTyped ==
  ASSUME Typed, Tick
  PROVE  Typed'
<1>1. Counted' /\ now' = now + 1 /\ now \in Nat /\ born' = born /\ timers' = timers /\ req' = req
  BY DEF Tick, Typed, Counted, table, books, client, clock, faults
<1>2. Tabled'
  BY <1>1, TabledSame DEF Typed
<1>3. \A tab \in Tabs : Fit(req[tab], now + 1, born)
  <2>1. \A tab \in Tabs : req[tab].since \in Nat
    BY DEF Typed, Requests
  <2> QED
    BY <1>1, <2>1 DEF Typed, Fit
<1> QED
  BY <1>1, <1>2, <1>3 DEF Typed

\* The record of a request that leaves, and of one that another has overtaken
Leaving(kind, i, slot, t, on) ==
  [Idle EXCEPT !.kind = kind, !.slot = slot, !.task = t, !.id = i, !.on = on,
               !.sent = IF i \in Existing /\ kind # "dialogTask" THEN Elapsed(timers[i]) ELSE 0,
               !.since = now, !.alone = Quiet,
               !.pc = IF kind = "save" /\ on = "paused" THEN "upsert" ELSE Flow(kind)]
Joined(r) == [r EXCEPT !.alone = r.pc = "idle"]

\* A request that leaves marks the ones in flight as no longer alone.
LEMMA SendLeaves ==
  ASSUME NEW tab \in Tabs, NEW kind, NEW i, NEW slot, NEW t, NEW on, Send(tab, kind, i, slot, t, on)
  PROVE  req' = [u \in Tabs |-> IF u = tab THEN Leaving(kind, i, slot, t, on) ELSE Joined(req[u])]
BY DEF Send, Leaving, Joined

\* The record of a request that leaves carries what the browser shows.
LEMMA LeavingRecord ==
  ASSUME Typed, NEW kind \in AllKinds, NEW i \in Ids \union {NoTimer}, NEW t \in Tasks \union {NoTask}, NEW on \in {"running", "paused"},
         NEW slot \in Slots \union {<<"none">>, <<"complete">>} \union {<<s>> : s \in Targets}
  PROVE  LET new == Leaving(kind, i, slot, t, on)
         IN  /\ new \in Requests /\ new.kind = kind /\ new.slot = slot /\ new.task = t /\ new.id = i /\ new.on = on
             /\ new.sent = (IF i \in Existing /\ kind # "dialogTask" THEN Elapsed(timers[i]) ELSE 0)
             /\ new.since = now /\ new.alone = Quiet /\ new.at = NoTimer /\ new.row = NoTimer /\ new.was = NotMoved
             /\ new.pc = (IF kind = "save" /\ on = "paused" THEN "upsert" ELSE Flow(kind)) /\ new.order = << >>
<1> DEFINE sent == IF i \in Existing /\ kind # "dialogTask" THEN Elapsed(timers[i]) ELSE 0
           pc == IF kind = "save" /\ on = "paused" THEN "upsert" ELSE Flow(kind)
<1>1. now \in Nat
  BY DEF Typed, Counted
<1>2. sent \in Nat
  <2>1. i \in Existing => timers[i] \in Rows /\ (timers[i].status = "running" => timers[i].since <= now)
    BY DEF Existing, Running, Typed, Tabled
  <2>2. i \in Existing => Elapsed(timers[i]) \in Nat
    BY <1>1, <2>1, PausedRow
  <2> QED
    BY <2>2
<1>3. pc \in Steps /\ Quiet \in BOOLEAN
  <2>1. CASE kind \in {"save", "status", "finalize", "discard"}
    BY <2>1 DEF Flow, Steps, Quiet
  <2>2. CASE kind \notin {"save", "status", "finalize", "discard"}
    BY <2>2 DEF Flow, Steps, Quiet
  <2> QED
    BY <2>1, <2>2
<1>4. Leaving(kind, i, slot, t, on) =
        [kind |-> kind, pc |-> pc, slot |-> slot, task |-> t, id |-> i,
         on |-> on, sent |-> sent, since |-> now, at |-> NoTimer, row |-> NoTimer,
         was |-> NotMoved, order |-> << >>, alone |-> Quiet]
  <2>1. Leaving(kind, i, slot, t, on) =
          [Idle EXCEPT !.kind = kind, !.slot = slot, !.task = t, !.id = i, !.on = on,
                       !.sent = sent, !.since = now, !.alone = Quiet, !.pc = pc]
    BY DEF Leaving
  <2> HIDE DEF sent, pc
  <2> QED
    BY <2>1, ZenonT(30) DEF Idle
<1>5. Leaving(kind, i, slot, t, on) \in Requests
  <2> HIDE DEF sent, pc
  <2>1. << >> \in Seq(Ids)
    OBVIOUS
  <2> QED
    BY <1>1, <1>2, <1>3, <1>4, <2>1 DEF Requests
<1> QED
  BY <1>4, <1>5

\* A request that leaves answers for what it carries.
LEMMA LeavingFit ==
  ASSUME Typed, NEW kind \in AllKinds, NEW i \in Ids \union {NoTimer}, NEW t \in Tasks \union {NoTask}, NEW on \in {"running", "paused"},
         NEW slot \in Slots \union {<<"none">>, <<"complete">>} \union {<<s>> : s \in Targets}, NEW b,
         kind \in Manuals \union {"link"} => \E n \in 1..MaxSlot : slot = <<"manual", n>>,
         kind \in TaskStarts \union ByTask => slot = SourceOf(t),
         kind \in Manuals => t = NoTask,
         kind \notin Manuals => t \in Tasks,
         kind = "setTask" => slot[1] \in Targets,
         kind = "complete" => slot[1] = "complete",
         kind \notin {"setTask", "complete"} => i \in b,
         kind \in Starts => on = "running",
         kind \in ByTask => on = "paused"
  PROVE  Fit(Leaving(kind, i, slot, t, on), now, b)
<1> DEFINE new == Leaving(kind, i, slot, t, on)
<1>1. /\ new \in Requests /\ new.kind = kind /\ new.slot = slot /\ new.task = t /\ new.id = i /\ new.on = on
      /\ new.since = now /\ new.was = NotMoved
      /\ new.pc = (IF kind = "save" /\ on = "paused" THEN "upsert" ELSE Flow(kind))
  BY LeavingRecord
<1> HIDE DEF new
<1>2. kind \in {"startTask", "dialogTask", "pauseTask", "link", "discardTask", "finalizeTask", "setTask", "complete"}
          => new.pc = "task"
  BY <1>1 DEF Flow
<1>3. /\ kind = "save" => new.pc \in {"others", "upsert"}
      /\ kind \in {"status", "finalize"} => new.pc = "read"
      /\ kind = "discard" => new.pc = "delete"
  BY <1>1 DEF Flow
<1>4. Route(new) /\ new.pc # "idle"
  BY <1>1, <1>2, <1>3 DEF Route, TaskStarts, AllKinds
<1>5. Carried(new, b)
  BY <1>1 DEF Carried, AllKinds
<1>6. Known(new, b)
  <2>1. CASE kind \in Manuals /\ kind # "discard"
    BY <1>1, <1>3, <2>1 DEF Known, Manuals, Starts, TaskStarts
  <2>2. CASE kind = "discard"
    <3>1. new.at = NoTimer
      BY LeavingRecord DEF new
    <3> QED
      BY <1>1, <1>3, <2>2, <3>1 DEF Known, Manuals, Starts, TaskStarts
  <2>3. CASE kind \notin Manuals
    BY <1>1, <1>2, <2>3 DEF Known, Manuals, Starts, TaskStarts, AllKinds
  <2> QED
    BY <2>1, <2>2, <2>3
<1>7. new.since <= now
  BY <1>1 DEF Typed, Counted
<1> QED
  BY <1>1, <1>4, <1>5, <1>6, <1>7 DEF Fit, new

\* A request in flight keeps its types when another leaves and new ids are born.
LEMMA FitLater ==
  ASSUME NEW t, NEW b, NEW c, b \subseteq c, NEW r, Fit(r, t, b)
  PROVE  Fit(Joined(r), t, c) /\ Joined(r) \in Requests /\ Joined(r).pc = r.pc /\ Joined(r).alone = (r.pc = "idle")
<1>1. r \in Requests
  BY DEF Fit
<1>2. /\ Joined(r) \in Requests /\ Joined(r).kind = r.kind /\ Joined(r).slot = r.slot /\ Joined(r).task = r.task
      /\ Joined(r).id = r.id /\ Joined(r).on = r.on /\ Joined(r).since = r.since /\ Joined(r).alone = (r.pc = "idle")
      /\ Joined(r).pc = r.pc /\ Joined(r).was = r.was /\ Joined(r).at = r.at /\ Joined(r).row = r.row /\ Joined(r).order = r.order
  <2>1. PICK a \in BOOLEAN : a = (r.pc = "idle")
    OBVIOUS
  <2>2. Joined(r) = [r EXCEPT !.alone = a]
    BY <2>1 DEF Joined
  <2>3. Joined(r).alone = a
    BY <1>1, <2>2 DEF Requests
  <2> QED
    BY <1>1, <2>1, <2>2, <2>3, ZenonT(30) DEF Requests
<1>3. r.pc = "idle" => Joined(r) = Idle
  <2>1. ASSUME r.pc = "idle" PROVE Joined(r) = Idle
    <3>1. r = Idle
      BY <2>1 DEF Fit
    <3>2. (r.pc = "idle") = TRUE
      BY <2>1
    <3>3. Joined(r) = [Idle EXCEPT !.alone = TRUE]
      BY <3>1, <3>2 DEF Joined
    <3> QED
      BY <3>3 DEF Idle
  <2> QED
    BY <2>1
<1>4. Carried(Joined(r), c)
  BY <1>2 DEF Fit, Carried
<1>5. Known(Joined(r), c) /\ Route(Joined(r))
  BY <1>2 DEF Fit, Known, Route
<1> QED
  BY <1>2, <1>3, <1>4, <1>5 DEF Fit

\* A request that leaves keeps the types.
LEMMA SendTyped ==
  ASSUME Typed, NEW tab \in Tabs, NEW kind \in AllKinds, NEW i \in Ids \union {NoTimer}, NEW t \in Tasks \union {NoTask},
         NEW on \in {"running", "paused"},
         NEW slot \in Slots \union {<<"none">>, <<"complete">>} \union {<<s>> : s \in Targets},
         Send(tab, kind, i, slot, t, on),
         kind \in Manuals \union {"link"} => \E n \in 1..MaxSlot : slot = <<"manual", n>>,
         kind \in TaskStarts \union ByTask => slot = SourceOf(t),
         kind \in Manuals => t = NoTask,
         kind \notin Manuals => t \in Tasks,
         kind = "setTask" => slot[1] \in Targets,
         kind = "complete" => slot[1] = "complete",
         kind \notin {"setTask", "complete"} => i \in Ids,
         kind \in Starts => on = "running",
         kind \in ByTask => on = "paused"
  PROVE  Typed'
<1>1. born' = born \union ({i} \ {NoTimer}) /\ now' = now /\ now \in Nat /\ timers' = timers
  BY DEF Send, clock, table, Typed, Counted
<1>2. born \subseteq born' /\ born' \subseteq Ids /\ (i \in Ids => i \in born')
  BY <1>1, IdAssumption DEF Typed, Counted
<1>3. Counted'
  <2>1. discarded' \subseteq born'
    <3>1. CASE kind \in {"discard", "discardTask"}
      BY <1>2, <3>1 DEF Send, Typed, Counted
    <3>2. CASE kind \notin {"discard", "discardTask"}
      BY <1>2, <3>2 DEF Send, Typed, Counted
    <3> QED
      BY <3>1, <3>2
  <2>2. asked' \in Nat /\ overlaps' \in Nat
    BY DEF Send, Typed, Counted
  <2> QED
    BY <1>2, <2>1, <2>2 DEF Send, Typed, Counted, table, books, clock, faults
<1>4. Tabled'
  <2>1. OneRowEach'
    BY <1>1 DEF Typed, Tabled, OneRowEach, Existing, SourceOf
  <2> QED
    BY <1>1, <1>2, <2>1 DEF Typed, Tabled, Existing, Running
<1>5. req' = [u \in Tabs |-> IF u = tab THEN Leaving(kind, i, slot, t, on) ELSE Joined(req[u])]
  BY SendLeaves
<1>6. Fit(Leaving(kind, i, slot, t, on), now, born')
  BY <1>2, LeavingFit
<1>7. \A u \in Tabs : Fit(Joined(req[u]), now, born')
  BY <1>2, FitLater DEF Typed
<1>8. \A u \in Tabs : Fit(req'[u], now', born')
  BY <1>1, <1>5, <1>6, <1>7
<1>9. req' \in [Tabs -> Requests]
  BY <1>5, <1>6, <1>7 DEF Fit
<1> QED
  BY <1>3, <1>4, <1>8, <1>9 DEF Typed

\* A card is a row in a manual slot.
LEMMA CardFacts ==
  ASSUME Typed, NEW i \in Cards
  PROVE  /\ i \in Ids /\ i \in Existing /\ timers[i] \in Rows /\ timers[i].slot \in Slots /\ timers[i].status \in {"running", "paused"}
         /\ \E n \in 1..MaxSlot : timers[i].slot = <<"manual", n>>
<1>1. i \in Ids /\ i \in Existing /\ timers[i] \in Rows
  BY DEF Cards, Existing, Typed, Tabled
<1> QED
  BY <1>1, CardSlots DEF Rows

\* A request that leaves to save a card keeps the types.
LEMMA SendSaveTyped ==
  ASSUME Typed, NEW tab \in Tabs, SendSave(tab)
  PROVE  Typed'
<1>1. ASSUME NEW i \in Ids \ born, NEW n \in 1..MaxSlot, Send(tab, "save", i, <<"manual", n>>, NoTask, "running")
      PROVE  Typed'
  <2>1. PICK s \in Slots : s = <<"manual", n>>
    BY DEF Slots
  <2>2. "save" \in AllKinds
    BY DEF AllKinds
  <2> QED
    BY <1>1, <2>1, <2>2, SendTyped DEF Manuals, Starts, TaskStarts, ByTask
<1>2. ASSUME NEW i \in Cards, Send(tab, "save", i, timers[i].slot, NoTask, timers[i].status)
      PROVE  Typed'
  <2>1. "save" \in AllKinds
    BY DEF AllKinds
  <2> QED
    BY <1>2, <2>1, CardFacts, SendTyped DEF Manuals, Starts, TaskStarts, ByTask
<1> QED
  BY <1>1, <1>2 DEF SendSave

\* A request that leaves for a card keeps the types.
LEMMA SendBySlotTyped ==
  ASSUME Typed, NEW tab \in Tabs, SendBySlot(tab)
  PROVE  Typed'
<1>1. ASSUME NEW i \in Cards, NEW kind \in {"status", "discard", "finalize"}, NEW on \in {"running", "paused"},
             Send(tab, kind, i, timers[i].slot, NoTask, on)
      PROVE  Typed'
  <2>1. kind \in AllKinds
    BY DEF AllKinds
  <2> QED
    BY <1>1, <2>1, CardFacts, SendTyped, ZenonT(30) DEF Manuals, Starts, TaskStarts, ByTask
<1> QED
  BY <1>1 DEF SendBySlot

\* A request that leaves for a task's timer keeps the types.
LEMMA SendTaskTimerTyped ==
  ASSUME Typed, NEW tab \in Tabs, SendTaskTimer(tab)
  PROVE  Typed'
<1>1. ASSUME NEW t \in Tasks, NEW i \in Ids, NEW kind \in TaskStarts \union ByTask, NEW on \in {"running", "paused"},
             kind \in TaskStarts => on = "running", kind \in ByTask => on = "paused",
             Send(tab, kind, i, SourceOf(t), t, on)
      PROVE  Typed'
  <2>1. kind \in AllKinds
    BY DEF AllKinds, TaskStarts, ByTask
  <2>2. SourceOf(t) \in Slots
    BY DEF SourceOf, Slots
  <2>3. kind \notin Manuals \union {"link", "setTask", "complete"}
    BY DEF Manuals, TaskStarts, ByTask
  <2> QED
    BY <1>1, <2>1, <2>2, <2>3, SendTyped DEF Starts
<1>2. ASSUME NEW t \in Tasks, NEW i \in Cards, Send(tab, "link", i, timers[i].slot, t, "running")
      PROVE  Typed'
  <2>1. "link" \in AllKinds
    BY DEF AllKinds
  <2> QED
    BY <1>2, <2>1, CardFacts, SendTyped DEF Manuals, Starts, TaskStarts, ByTask
<1>3. \A t \in Tasks : \A i \in IF OfTask(t) = {} THEN Ids \ born ELSE OfTask(t) : i \in Ids
  BY DEF OfTask, Existing
<1>4. \A t \in Tasks : \A i \in OfTask(t) : i \in Ids
  BY DEF OfTask, Existing
<1>5. PICK t \in Tasks :
        \/ \E kind \in TaskStarts, i \in IF OfTask(t) = {} THEN Ids \ born ELSE OfTask(t) :
             Send(tab, kind, i, SourceOf(t), t, "running")
        \/ \E i \in OfTask(t), kind \in {"pauseTask", "discardTask", "finalizeTask"} :
             Send(tab, kind, i, SourceOf(t), t, "paused")
        \/ \E i \in Cards \intersect Running : Send(tab, "link", i, timers[i].slot, t, "running")
  BY DEF SendTaskTimer
<1>6. CASE \E kind \in TaskStarts, i \in IF OfTask(t) = {} THEN Ids \ born ELSE OfTask(t) :
             Send(tab, kind, i, SourceOf(t), t, "running")
  BY <1>1, <1>3, <1>6 DEF TaskStarts, ByTask
<1>7. CASE \E i \in OfTask(t), kind \in {"pauseTask", "discardTask", "finalizeTask"} :
             Send(tab, kind, i, SourceOf(t), t, "paused")
  BY <1>1, <1>4, <1>7 DEF TaskStarts, ByTask
<1> QED
  BY <1>2, <1>5, <1>6, <1>7

\* A request that leaves for a task keeps the types.
LEMMA SendTaskTyped ==
  ASSUME Typed, NEW tab \in Tabs, SendTask(tab)
  PROVE  Typed'
<1>1. ASSUME NEW t \in Tasks, Send(tab, "complete", NoTimer, <<"complete">>, t, "paused")
      PROVE  Typed'
  <2>1. "complete" \in AllKinds
    BY DEF AllKinds
  <2>2. PICK s : s = <<"complete">>
    OBVIOUS
  <2>3. s \in Slots \union {<<"none">>, <<"complete">>} \union {<<x>> : x \in Targets} /\ s[1] = "complete"
    BY <2>2
  <2> QED
    BY <1>1, <2>1, <2>2, <2>3, SendTyped DEF Manuals, Starts, TaskStarts, ByTask
<1>2. ASSUME NEW t \in Tasks, NEW x \in Targets, Send(tab, "setTask", NoTimer, <<x>>, t, "paused")
      PROVE  Typed'
  <2>1. "setTask" \in AllKinds
    BY DEF AllKinds
  <2>2. PICK s : s = <<x>>
    OBVIOUS
  <2>3. s \in Slots \union {<<"none">>, <<"complete">>} \union {<<y>> : y \in Targets} /\ s[1] \in Targets
    BY <2>2
  <2> QED
    BY <1>2, <2>1, <2>2, <2>3, SendTyped DEF Manuals, Starts, TaskStarts, ByTask
<1> QED
  BY <1>1, <1>2 DEF SendTask

\* The first state has the types.
LEMMA InitTyped == Init => Typed
<1> SUFFICES ASSUME Init PROVE Typed
  OBVIOUS
<1>0. PICK n \in Openings : \E order \in Injection(1..n, Ids) :
       /\ timers = [i \in Ids |->
            IF \E k \in 1..n : order[k] = i
              THEN [slot |-> <<"manual", CHOOSE k \in 1..n : order[k] = i>>, src |-> NoTask,
                    status |-> "paused", acc |-> 0, since |-> 0, moved |-> NotMoved]
              ELSE NoTimer]
       /\ born = {order[k] : k \in 1..n}
  BY DEF Init
<1>1. PICK order \in Injection(1..n, Ids) :
       /\ timers = [i \in Ids |->
            IF \E k \in 1..n : order[k] = i
              THEN [slot |-> <<"manual", CHOOSE k \in 1..n : order[k] = i>>, src |-> NoTask,
                    status |-> "paused", acc |-> 0, since |-> 0, moved |-> NotMoved]
              ELSE NoTimer]
       /\ born = {order[k] : k \in 1..n}
  BY <1>0
<1>2. n \in Nat /\ 1..n \subseteq 1..MaxSlot /\ order \in [1..n -> Ids]
  BY BoundAssumption DEF Injection
<1> DEFINE place(i) == CHOOSE k \in 1..n : order[k] = i
<1>3. \A i \in born : i \in Ids /\ place(i) \in 1..n /\ order[place(i)] = i
  BY <1>1, <1>2
<1> DEFINE row(i) == [slot |-> <<"manual", place(i)>>, src |-> NoTask,
                      status |-> "paused", acc |-> 0, since |-> 0, moved |-> NotMoved]
<1>4. timers = [i \in Ids |-> IF i \in born THEN row(i) ELSE NoTimer]
  BY <1>1
<1> HIDE DEF place
<1>5. \A i \in born : row(i) \in Rows
  <2> SUFFICES ASSUME NEW i \in born PROVE row(i) \in Rows
    OBVIOUS
  <2>1. <<"manual", place(i)>> \in Slots
    BY <1>2, <1>3 DEF Slots
  <2> QED
    BY <2>1 DEF Rows, NotMoved
<1>6. Existing \subseteq born /\ \A i \in Existing : timers[i] = row(i) /\ timers[i] \in Rows
  BY <1>4, <1>5 DEF Existing
<1>7. Counted
  <2>1. born \subseteq Ids
    BY <1>3
  <2> QED
    BY <2>1 DEF Init, Counted, TaskStatuses
<1>8. Tabled
  <2>1. timers \in [Ids -> Rows \union {NoTimer}]
    BY <1>4, <1>5
  <2>0. \A i \in Existing : timers[i].src = NoTask /\ timers[i].slot = <<"manual", place(i)>> /\ timers[i].status = "paused"
    <3> SUFFICES ASSUME NEW i \in Existing
                 PROVE timers[i].src = NoTask /\ timers[i].slot = <<"manual", place(i)>> /\ timers[i].status = "paused"
      OBVIOUS
    <3>1. timers[i] = row(i)
      BY <1>6
    <3> QED
      BY <3>1
  <2> HIDE DEF row
  <2>2. \A i, j \in Existing : i # j => timers[i].slot # timers[j].slot
    <3> SUFFICES ASSUME NEW i \in Existing, NEW j \in Existing, timers[i].slot = timers[j].slot PROVE i = j
      OBVIOUS
    <3>1. <<"manual", place(i)>> = <<"manual", place(j)>>
      BY <2>0
    <3>2. place(i) = place(j)
      BY <3>1
    <3> QED
      BY <1>3, <1>6, <3>2
  <2>3. \A i \in Existing : timers[i].src = NoTask /\ timers[i].slot[1] = "manual" /\ timers[i].status = "paused"
    BY <2>0
  <2> QED
    BY <1>6, <2>1, <2>2, <2>3 DEF Tabled, OneRowEach, Running
<1>9. req = [tab \in Tabs |-> Idle] /\ Fit(Idle, now, born) /\ Idle \in Requests
  <2>1. Fit(Idle, now, born)
    BY IdleFit DEF Init
  <2> QED
    BY <2>1 DEF Init, Fit
<1> QED
  BY <1>7, <1>8, <1>9 DEF Typed

\* Every step keeps the types.
LEMMA NextTyped == Typed /\ [Next]_vars => Typed'
<1> SUFFICES ASSUME Typed, [Next]_vars PROVE Typed'
  OBVIOUS
<1>1. ASSUME NEW tab \in Tabs, Request(tab) PROVE Typed'
  BY <1>1, SendSaveTyped, SendBySlotTyped, SendTaskTimerTyped, SendTaskTyped DEF Request
<1>2. ASSUME NEW tab \in Tabs, Step(tab) PROVE Typed'
  BY <1>2, ReadTaskTyped, ReadTaskTimerTyped, MoveTaskTyped, ReadSlotTyped, PauseOthersTyped, UpsertTyped,
     ConvertTyped, CreateEntryTyped, DeleteTimerTyped, ListCardsTyped, StrandTyped, PlaceTyped,
     ReadEvidenceTyped, RevertTyped, CheckCompleteTyped, WriteTaskTyped, PauseBlockedTyped DEF Step, Puts
<1>3. CASE UNCHANGED vars
  <2>1. Counted' /\ Tabled' /\ now' = now /\ born' = born /\ req' = req
    BY <1>3, TabledSame DEF Typed, Counted, vars, table, books, client, clock, faults
  <2> QED
    BY <2>1 DEF Typed
<1> QED
  BY <1>1, <1>2, <1>3, ErringTyped, CrashTyped, TickTyped DEF Next, Erring

\* Every state of the program has the types of its tables, requests and counters.
THEOREM TypesHold == Spec => []TypeOK
<1>1. Spec => []Typed
  BY InitTyped, NextTyped, PTL DEF Spec
<1> QED
  BY <1>1, TypedTypes, PTL

\* The table never has two timers in one slot nor two for one task, whatever the interleaving
\* of the statements that write it.
THEOREM OneRowEachHolds == Spec => []OneRowEach
<1>1. Spec => []Typed
  BY InitTyped, NextTyped, PTL DEF Spec
<1>2. Typed => OneRowEach
  BY DEF Typed, Tabled
<1> QED
  BY <1>1, <1>2, PTL

\* Steps at which nothing has been deleted yet.
Early == {"task", "timer", "move", "read", "others", "upsert", "convert", "entry", "delete"}

\* A request alone finds the table as it was when it left: the row it names, and its task.
Named(r) == r.pc \in Early =>
  /\ r.kind \in ByCard => r.id \in Cards /\ timers[r.id].slot = r.slot
  /\ r.kind \in ByTask => r.id \in OfTask(r.task)
  /\ r.kind = "save" /\ r.id \in Existing => r.id \in Cards /\ timers[r.id].slot = r.slot
  /\ r.kind \in TaskStarts => IF r.id \in Existing THEN r.id \in OfTask(r.task) ELSE OfTask(r.task) = {}
  /\ r.kind \in TaskStarts \union {"save"} /\ r.id \notin Existing => saved[r.id] = 0
  /\ r.kind = "link" => r.id \in Running

\* What it has read is still so.
Holds(r) ==
  (r.kind = "status" /\ r.pc \in {"others", "upsert"}) \/ (r.kind \in Saves /\ r.pc \in {"entry", "delete"})
    => r.at = r.id /\ r.row = timers[r.id]

\* Before a timer is started every other one is paused, and its task is in progress.
Stopped(r) == r.on = "running" /\ r.pc = "upsert" => Running \subseteq InSlot(r.slot)
Begun(r) == r.kind \in Starts =>
  /\ r.pc \in {"timer", "move"} => r.was = task[r.task] /\ r.was \notin Closed
  /\ r.pc \notin {"idle", "task", "timer", "move"} => task[r.task] = "in_progress"
Linked(r) == r.kind = "link" =>
  /\ r.pc \in {"move", "read", "convert"} => OfTask(r.task) = {}
  /\ r.pc \in {"list", "strand", "place"} => OfTask(r.task) # {}
Ended(r) ==
  /\ r.kind = "discardTask" /\ r.pc \in {"evidence", "revert"} => OfTask(r.task) = {}
  /\ r.kind \in {"discard", "discardTask"} => r.id \in discarded
  /\ r.kind \in Saves /\ r.pc = "delete" => saved[r.id] > 0

\* Closing up: the cards that have their place, and those that wait for it.
Ordered(r) ==
  /\ r.pc \in {"strand", "place"} =>
        \A k \in 1..Len(r.order) : r.order[k] \in Existing => timers[r.order[k]].src = NoTask
  /\ r.pc = "strand" => \A i \in Cards : \E k \in r.at..Len(r.order) : r.order[k] = i
  /\ r.pc = "place" => \A i \in Cards : \E k \in 1..(r.at - 1) : r.order[k] = i /\ timers[i].slot = <<"manual", k>>

\* All that a request relies on.
InStep(r) == Named(r) /\ Holds(r) /\ Stopped(r) /\ Begun(r) /\ Linked(r) /\ Ended(r) /\ Ordered(r)

\* A request in flight that has had no other beside it.
Alone(tab) == req[tab].alone /\ req[tab].pc # "idle"
\* It is the only one, and it may rely on what it has read.
Lone == \A tab \in Tabs : Alone(tab) => /\ \A u \in Tabs \ {tab} : req[u].pc = "idle"
                                        /\ InStep(req[tab])
\* A timer that was never made was never saved.
Fresh == \A i \in Ids : i \notin born => saved[i] = 0

\* A tab without a request has none in flight.
LEMMA IdleInStep == ASSUME NEW r, r = Idle PROVE r.pc = "idle" /\ r.alone
BY DEF Idle

\* A step of one request only has to keep what that request, if alone, relies on.
LEMMA AloneStep ==
  ASSUME Typed, Lone, NEW tab \in Tabs, req[tab].pc # "idle", NEW new, req' = [req EXCEPT ![tab] = new],
         Alone(tab) /\ new.alone /\ new.pc # "idle" => InStep(new)', new.alone => new.pc = "idle" \/ req[tab].alone
  PROVE  Lone'
<1> SUFFICES ASSUME NEW u \in Tabs, Alone(u)'
             PROVE  (\A v \in Tabs \ {u} : req'[v].pc = "idle") /\ InStep(req[u])'
  BY DEF Lone
<1>1. req'[tab] = new /\ \A v \in Tabs \ {tab} : req'[v] = req[v]
  BY DEF Typed
<1>2. CASE u = tab
  <2>1. Alone(tab) /\ new.alone /\ new.pc # "idle"
    BY <1>1, <1>2 DEF Alone
  <2> QED
    BY <1>1, <1>2, <2>1 DEF Lone
<1>3. CASE u # tab
  BY <1>1, <1>3 DEF Alone, Lone
<1> QED
  BY <1>2, <1>3

\* An answer leaves no request behind.
LEMMA AloneDone ==
  ASSUME Typed, Lone, NEW tab \in Tabs, req[tab].pc # "idle", Done(tab)
  PROVE  Lone'
BY AloneStep, IdleInStep DEF Done

\* After an error a request relies on little: the statuses of the tasks it started.
LEMMA AloneCaught ==
  ASSUME Typed, Lone, NEW tab \in Tabs, req[tab].pc \in {"read", "others", "upsert", "convert", "entry", "delete", "list", "strand", "place"},
         Caught(tab), task' = task, req[tab].kind = "discardTask" => OfTask(req[tab].task)' \subseteq OfTask(req[tab].task)
  PROVE  Lone'
<1>1. CASE Done(tab)
  BY <1>1, AloneDone
<1>2. CASE ~Done(tab)
  <2>1. PICK r : r = req[tab]
    OBVIOUS
  <2>2. PICK new : new = Jumped(r, "evidence")
    OBVIOUS
  <2>3. Goto(tab, "evidence") /\ r.kind \in TaskStarts \union {"pauseTask", "link"}
    BY <1>2, <2>1 DEF Caught
  <2>4. r \in Requests /\ "evidence" \in Steps /\ req' = [req EXCEPT ![tab] = new]
    BY <2>1, <2>2, <2>3 DEF Typed, Steps, Goto, Jumped
  <2>5. new.pc = "evidence" /\ Same(new, r)
    BY <2>2, <2>4, Jump
  <2>6. ASSUME Alone(tab) PROVE InStep(new)'
    <3>1. Begun(r)
      BY <2>1, <2>6 DEF Lone, InStep
    <3>2. Begun(new)'
      BY <2>1, <2>3, <2>5, <3>1 DEF Begun, Same
    <3>3. Named(new)' /\ Holds(new)' /\ Stopped(new)' /\ Linked(new)' /\ Ended(new)' /\ Ordered(new)'
      BY <2>3, <2>5 DEF Same, Named, Early, Holds, Stopped, Linked, Ended, Ordered, TaskStarts, Saves
    <3> QED
      BY <3>2, <3>3 DEF InStep
  <2> QED
    BY <2>1, <2>4, <2>5, <2>6, AloneStep DEF Same
<1> QED
  BY <1>1, <1>2

\* ReadTask keeps what a request alone relies on.
LEMMA ReadTaskLone ==
  ASSUME Typed, Lone, NEW tab \in Tabs, ReadTask(tab)
  PROVE  Lone'
<1>1. PICK r : r = req[tab]
  OBVIOUS
<1>2. Fit(r, now, born) /\ r.pc = "task" /\ r \in Requests /\ UNCHANGED <<timers, task, saved, discarded>>
  BY <1>1 DEF ReadTask, At, Typed, table, books, client
<1>3. CASE Done(tab)
  BY <1>1, <1>2, <1>3, AloneDone
<1>4. CASE ~Done(tab)
  <2>1. PICK next : next = CASE r.kind = "complete" -> "check" [] r.kind = "setTask" -> "write" [] OTHER -> "timer"
    OBVIOUS
  <2>2. PICK new : new = Marked(r, task[r.task], next)
    OBVIOUS
  <2>3. req' = [req EXCEPT ![tab] = new]
    BY <1>1, <1>4, <2>1, <2>2 DEF ReadTask, Marked, Typed
  <2>4. r.task \in Tasks /\ task[r.task] \in TaskStatuses
    BY <1>2 DEF Fit, Route, Carried, Typed, Counted, TaskStarts, Manuals
  <2>5. next \in {"check", "write", "timer"} /\ next \in Steps
    BY <2>1 DEF Steps
  <2>6. new \in Requests /\ new.pc = next /\ Same(new, r) /\ new.was = task[r.task]
    BY <1>2, <2>2, <2>4, <2>5, Mark
  <2>7. ASSUME Alone(tab) PROVE InStep(new)'
    <3>1. InStep(r)
      BY <1>1, <2>7 DEF Lone
    <3>2. new.pc = "timer" => r.kind \in {"discardTask"} \/ task[r.task] \notin Closed
      BY <1>1, <1>4, <2>1, <2>6 DEF ReadTask
    <3>2a. r.kind \in Starts => next = "timer" /\ r.kind # "discardTask"
      BY <2>1 DEF Starts, TaskStarts
    <3>3. Begun(new)'
      BY <1>2, <2>6, <3>2, <3>2a DEF Begun, Same
    <3>4. Named(new)'
      BY <1>2, <2>6, <3>1 DEF InStep, Named, Early, Same, Existing, Cards, OfTask, Running
    <3>5. Holds(new)' /\ Stopped(new)' /\ Linked(new)' /\ Ordered(new)'
      BY <2>5, <2>6 DEF Holds, Stopped, Linked, Ordered
    <3>6. Ended(new)'
      BY <1>2, <2>5, <2>6, <3>1 DEF InStep, Ended, Same
    <3> QED
      BY <3>3, <3>4, <3>5, <3>6 DEF InStep
  <2> QED
    BY <1>1, <1>2, <2>3, <2>6, <2>7, AloneStep DEF Same
<1> QED
  BY <1>3, <1>4

\* ReadTaskTimer keeps what a request alone relies on.
LEMMA ReadTaskTimerLone ==
  ASSUME Typed, Lone, NEW tab \in Tabs, ReadTaskTimer(tab)
  PROVE  Lone'
<1>1. PICK r : r = req[tab]
  OBVIOUS
<1>2. Fit(r, now, born) /\ r.pc = "timer" /\ r \in Requests /\ UNCHANGED <<timers, task, saved, discarded>>
  BY <1>1 DEF ReadTaskTimer, At, Typed, table, books, client
<1>3. r.kind \in TaskStarts \union {"pauseTask", "link", "discardTask", "finalizeTask"} /\ r.task \in Tasks
  BY <1>2 DEF Fit, Route, Carried, Requests, AllKinds, TaskStarts, Manuals
<1>4. PICK i : i = One(OfTask(r.task))
  OBVIOUS
<1>5. PICK row : row = IF i = NoTimer THEN NoTimer ELSE timers[i]
  OBVIOUS
<1>6. PICK kept : kept = IF i = NoTimer THEN NotMoved ELSE timers[i].moved
  OBVIOUS
<1>7. PICK sent : sent = Larger(1, IF i = NoTimer THEN r.sent ELSE Elapsed(timers[i]))
  OBVIOUS
<1>8. PICK seen : seen = Seen(r, i, row)
  OBVIOUS
<1>9. PICK new : new = IF r.kind = "link" /\ i # NoTimer THEN Idle
             ELSE IF r.kind \in TaskStarts \union {"link"} /\ r.was \in {"open", "blocked"} THEN Jumped(seen, "move")
             ELSE CASE r.kind \in TaskStarts -> Marked(seen, kept, "others")
                    [] r.kind = "pauseTask" -> Marked(seen, kept, "upsert")
                    [] r.kind = "link" -> Marked(seen, NotMoved, "read")
                    [] r.kind = "discardTask" -> Jumped(seen, "delete")
                    [] r.kind = "finalizeTask" -> Timing(seen, "entry", sent)
  OBVIOUS
<1>10. req' = [req EXCEPT ![tab] = new]
  <2>1. req' = [req EXCEPT ![tab] =
           IF r.kind = "link" /\ i # NoTimer THEN Idle
           ELSE IF r.kind \in TaskStarts \union {"link"} /\ r.was \in {"open", "blocked"} THEN [seen EXCEPT !.pc = "move"]
           ELSE
           CASE r.kind \in TaskStarts -> [seen EXCEPT !.was = kept, !.pc = "others"]
             [] r.kind = "pauseTask" -> [seen EXCEPT !.was = kept, !.pc = "upsert"]
             [] r.kind = "link" -> [seen EXCEPT !.was = NotMoved, !.pc = "read"]
             [] r.kind = "discardTask" -> [seen EXCEPT !.pc = "delete"]
             [] r.kind = "finalizeTask" -> [seen EXCEPT !.pc = "entry", !.sent = sent]]
    BY <1>1, <1>4, <1>5, <1>6, <1>7, <1>8 DEF ReadTaskTimer, Seen
  <2> QED
    BY <1>9, <2>1 DEF Jumped, Marked, Timing
<1>11. i \in Ids \union {NoTimer} /\ (i # NoTimer => i \in Existing /\ timers[i] \in Rows)
  BY <1>4, OneIn DEF OfTask, Existing, Typed, Tabled
<1>12. row \in Rows \union {NoTimer} /\ kept \in TaskStatuses \union {NotMoved} /\ sent \in Nat
  <2>1. i # NoTimer => Elapsed(timers[i]) \in Nat
    BY <1>11, PausedRow DEF Typed, Tabled, Running, Counted
  <2>2. r.sent \in Nat
    BY <1>2 DEF Requests
  <2>3. kept \in TaskStatuses \union {NotMoved}
    BY <1>6, <1>11 DEF Rows
  <2>4. sent \in Nat
    BY <1>7, <2>1, <2>2 DEF Larger
  <2> QED
    BY <1>5, <1>11, <2>3, <2>4
<1>13. seen \in Requests /\ Same(seen, r) /\ seen.at = i /\ seen.row = row /\ seen.was = r.was
  BY <1>2, <1>8, <1>11, <1>12, See
<1>14. {"move", "others", "upsert", "read", "delete", "entry"} \subseteq Steps
  BY DEF Steps
<1>15. CASE new = Idle
  BY <1>1, <1>2, <1>10, <1>15, AloneDone DEF Done
<1>16. CASE new # Idle
  <2>1. /\ new \in Requests /\ Same(new, r) /\ new.at = i /\ new.row = row
        /\ \/ r.kind \in Starts /\ r.was \in {"open", "blocked"} /\ new.pc = "move" /\ new.was = r.was
           \/ r.kind \in TaskStarts /\ r.was \notin {"open", "blocked"} /\ new.pc = "others"
           \/ r.kind = "pauseTask" /\ new.pc = "upsert"
           \/ r.kind = "link" /\ r.was \notin {"open", "blocked"} /\ new.pc = "read"
           \/ r.kind = "discardTask" /\ new.pc = "delete"
           \/ r.kind = "finalizeTask" /\ new.pc = "entry"
        /\ r.kind = "link" => i = NoTimer
    <3>1. CASE r.kind \in Starts /\ r.was \in {"open", "blocked"}
      BY <1>9, <1>13, <1>14, <1>16, <3>1, Jump DEF Same, Starts, TaskStarts
    <3>2. CASE r.kind \in TaskStarts /\ r.was \notin {"open", "blocked"}
      <4>1. new = Marked(seen, kept, "others") /\ r.kind # "link" /\ "others" \in Steps
        BY <1>9, <1>14, <3>2 DEF TaskStarts
      <4> QED
        BY <1>12, <1>13, <3>2, <4>1, Mark DEF Same
    <3>3. CASE r.kind = "pauseTask"
      BY <1>9, <1>12, <1>13, <1>14, <3>3, Mark, SMTT(30) DEF Same, TaskStarts
    <3>4. CASE r.kind = "link" /\ r.was \notin {"open", "blocked"}
      BY <1>9, <1>13, <1>14, <1>16, <3>4, Mark DEF Same, TaskStarts
    <3>5. CASE r.kind = "discardTask"
      <4>1. new = Jumped(seen, "delete") /\ "delete" \in Steps
        BY <1>9, <1>14, <3>5 DEF TaskStarts
      <4> QED
        BY <1>13, <3>5, <4>1, Jump DEF Same
    <3>6. CASE r.kind = "finalizeTask"
      BY <1>9, <1>12, <1>13, <1>14, <3>6, Time, SMTT(30) DEF Same, TaskStarts
    <3> QED
      BY <1>3, <3>1, <3>2, <3>3, <3>4, <3>5, <3>6 DEF Starts
  <2>2. new.pc \in {"move", "others", "upsert", "read", "delete", "entry"}
    BY <2>1
  <2>3. ASSUME Alone(tab) PROVE InStep(new)'
    <3>1. InStep(r)
      BY <1>1, <2>3 DEF Lone
    <3>2. Named(new)'
      BY <1>2, <2>1, <3>1 DEF InStep, Named, Early, Same, Existing, Cards, OfTask, Running
    <3>3. Begun(new)'
      <4>1. r.kind \in Starts => r.was = task[r.task] /\ r.was \notin Closed /\ task[r.task] \in TaskStatuses
        BY <1>2, <1>3, <3>1 DEF InStep, Begun, Typed, Counted
      <4>2. r.kind \in Starts /\ new.pc # "move" => task[r.task] = "in_progress"
        BY <2>1, <4>1 DEF TaskStatuses, Closed, Starts, TaskStarts
      <4>3. new.kind = r.kind /\ new.task = r.task /\ task' = task /\ new.pc # "timer"
        BY <1>2, <2>1 DEF Same
      <4> QED
        BY <2>1, <4>1, <4>2, <4>3 DEF Begun
    <3>4. Holds(new)'
      <4>1. CASE r.kind = "finalizeTask"
        <5>1. r.id \in OfTask(r.task)
          BY <1>2, <3>1, <4>1 DEF InStep, Named, Early, ByTask
        <5>2. i = r.id
          BY <1>3, <1>4, <5>1, OfOneTask
        <5> QED
          BY <1>2, <1>5, <1>11, <2>1, <5>1, <5>2, IdAssumption DEF Holds, Same, OfTask, Existing
      <4>2. CASE r.kind # "finalizeTask"
        BY <1>3, <2>1, <4>2 DEF Holds, Same, Saves, TaskStarts
      <4> QED
        BY <4>1, <4>2
    <3>5. Stopped(new)'
      <4>1. new.pc = "upsert" => r.on = "paused"
        BY <1>2, <2>1 DEF Fit, Carried, ByTask, Starts, TaskStarts
      <4> QED
        BY <2>1, <4>1 DEF Stopped, Same
    <3>6. Linked(new)'
      <4>1. r.kind = "link" => OfTask(r.task) = {}
        BY <1>3, <1>4, <2>1, OfOneTask, OneIn DEF OfTask, Existing
      <4> QED
        BY <1>2, <2>1, <2>2, <4>1 DEF Linked, Same, OfTask, Existing
    <3>7. Ended(new)' /\ Ordered(new)'
      BY <1>2, <1>3, <2>1, <2>2, <3>1 DEF InStep, Ended, Ordered, Same, Saves, TaskStarts
    <3> QED
      BY <3>2, <3>3, <3>4, <3>5, <3>6, <3>7 DEF InStep
  <2> QED
    BY <1>1, <1>2, <1>10, <2>1, <2>3, AloneStep DEF Same
<1> QED
  BY <1>15, <1>16

\* MoveTask keeps what a request alone relies on.
LEMMA MoveTaskLone ==
  ASSUME Typed, Lone, NEW tab \in Tabs, MoveTask(tab)
  PROVE  Lone'
<1>1. PICK r : r = req[tab]
  OBVIOUS
<1>2. Fit(r, now, born) /\ r.pc = "move" /\ r \in Requests /\ UNCHANGED <<timers, saved, discarded>>
  BY <1>1 DEF MoveTask, At, Typed, books, client
<1>3. PICK p : p = IF r.kind = "link" THEN "read" ELSE "others"
  OBVIOUS
<1>4. PICK new : new = Jumped(r, p)
  OBVIOUS
<1>5. req' = [req EXCEPT ![tab] = new] /\ p \in {"read", "others"} /\ p \in Steps
  BY <1>1, <1>3, <1>4 DEF MoveTask, Goto, Jumped, Steps, Typed
<1>6. new.pc = p /\ Same(new, r)
  BY <1>2, <1>4, <1>5, Jump
<1>7. r.kind \in Starts /\ r.task \in Tasks
  BY <1>2 DEF Fit, Route, Carried, Requests, AllKinds, TaskStarts, Manuals, Starts
<1>8. ASSUME Alone(tab) PROVE InStep(new)'
  <2>1. InStep(r)
    BY <1>1, <1>8 DEF Lone
  <2>2. Named(new)'
    BY <1>2, <1>6, <2>1 DEF InStep, Named, Early, Same, Existing, Cards, OfTask, Running
  <2>3. task'[r.task] = "in_progress"
    BY <1>1, <1>7 DEF MoveTask, Typed, Counted
  <2>4. Begun(new)'
    BY <1>5, <1>6, <2>3 DEF Begun, Same
  <2>5. Linked(new)'
    BY <1>2, <1>5, <1>6, <2>1 DEF InStep, Linked, Same, OfTask, Existing
  <2>6. Holds(new)' /\ Stopped(new)' /\ Ended(new)' /\ Ordered(new)'
    BY <1>5, <1>6, <1>7 DEF Holds, Stopped, Ended, Ordered, Same, Starts, TaskStarts, Saves
  <2> QED
    BY <2>2, <2>4, <2>5, <2>6 DEF InStep
<1> QED
  BY <1>1, <1>2, <1>5, <1>6, <1>8, AloneStep DEF Same

\* ReadSlot keeps what a request alone relies on.
LEMMA ReadSlotLone ==
  ASSUME Typed, Lone, NEW tab \in Tabs, ReadSlot(tab)
  PROVE  Lone'
<1>1. PICK r : r = req[tab]
  OBVIOUS
<1>2. Fit(r, now, born) /\ r.pc = "read" /\ r \in Requests /\ UNCHANGED <<timers, task, saved, discarded>>
  BY <1>1 DEF ReadSlot, At, Typed, table, books, client
<1>3. r.kind \in {"status", "finalize", "link"}
  BY <1>2 DEF Fit, Route, Requests, AllKinds, TaskStarts
<1>4. PICK i : i = One(InSlot(r.slot))
  OBVIOUS
<1>5. PICK row : row = IF i = NoTimer THEN NoTimer ELSE timers[i]
  OBVIOUS
<1>7. PICK sent : sent = Larger(1, IF i = NoTimer THEN r.sent ELSE Elapsed(timers[i]))
  OBVIOUS
<1>8. PICK seen : seen = Seen(r, i, row)
  OBVIOUS
<1>9. i \in Ids \union {NoTimer} /\ (i # NoTimer => i \in Existing /\ timers[i] \in Rows)
  BY <1>4, OneIn DEF InSlot, Existing, Typed, Tabled
<1>10. row \in Rows \union {NoTimer} /\ sent \in Nat
  <2>1. i # NoTimer => Elapsed(timers[i]) \in Nat
    BY <1>9, PausedRow DEF Typed, Tabled, Running, Counted
  <2>2. r.sent \in Nat
    BY <1>2 DEF Requests
  <2>4. sent \in Nat
    BY <1>7, <2>1, <2>2 DEF Larger
  <2> QED
    BY <1>5, <1>9, <2>4
<1>11. seen \in Requests /\ Same(seen, r) /\ seen.at = i /\ seen.row = row
  BY <1>2, <1>8, <1>9, <1>10, See
<1>12. CASE Done(tab) \/ Caught(tab)
  BY <1>1, <1>2, <1>3, <1>12, AloneDone, AloneCaught
<1>13. CASE ~Done(tab) /\ ~Caught(tab)
  <2>1. PICK new : new = CASE r.kind = "status" -> Jumped(seen, BeforeUpsert(r.on))
                           [] r.kind = "finalize" -> Timing(seen, "entry", sent)
                           [] r.kind = "link" -> Jumped(seen, "convert")
    OBVIOUS
  <2>2. req' = [req EXCEPT ![tab] = new]
    <3>1. CASE r.kind = "status"
      <4>1. req' = [req EXCEPT ![tab] = [seen EXCEPT !.pc = BeforeUpsert(r.on)]]
        BY <1>1, <1>4, <1>5, <1>8, <1>13, <3>1 DEF ReadSlot, Seen
      <4> QED
        BY <2>1, <3>1, <4>1 DEF Jumped
    <3>2. CASE r.kind = "finalize"
      <4>1. req' = [req EXCEPT ![tab] = [seen EXCEPT !.pc = "entry", !.sent = sent]]
        BY <1>1, <1>4, <1>5, <1>7, <1>8, <3>2 DEF ReadSlot, Seen
      <4> QED
        BY <2>1, <3>2, <4>1 DEF Timing
    <3>3. CASE r.kind = "link"
      <4>1. req' = [req EXCEPT ![tab] = [seen EXCEPT !.pc = "convert"]]
        BY <1>1, <1>4, <1>5, <1>8, <1>13, <3>3 DEF ReadSlot, Seen
      <4> QED
        BY <2>1, <3>3, <4>1 DEF Jumped
    <3> QED
      BY <1>3, <3>1, <3>2, <3>3
  <2>3. BeforeUpsert(r.on) \in {"others", "upsert"} /\ "others" \in Steps /\ "upsert" \in Steps /\ "entry" \in Steps /\ "convert" \in Steps
    BY DEF BeforeUpsert, Steps
  <2>4. /\ new \in Requests /\ Same(new, r) /\ new.at = i /\ new.row = row
        /\ \/ r.kind = "status" /\ new.pc = BeforeUpsert(r.on)
           \/ r.kind = "finalize" /\ new.pc = "entry"
           \/ r.kind = "link" /\ new.pc = "convert"
    <3>1. CASE r.kind = "status"
      BY <1>11, <2>1, <2>3, <3>1, Jump, SMTT(30) DEF Same
    <3>2. CASE r.kind = "finalize"
      BY <1>10, <1>11, <2>1, <2>3, <3>2, Time DEF Same
    <3>3. CASE r.kind = "link"
      BY <1>11, <2>1, <2>3, <3>3, Jump DEF Same
    <3> QED
      BY <1>3, <3>1, <3>2, <3>3
  <2>5. ASSUME Alone(tab) PROVE InStep(new)'
    <3>1. InStep(r)
      BY <1>1, <2>5 DEF Lone
    <3>2. Named(new)'
      BY <1>2, <2>4, <3>1 DEF InStep, Named, Early, Same, Existing, Cards, OfTask, Running
    <3>3. i = r.id /\ row = timers[r.id]
      <4>1. r.id \in Cards /\ timers[r.id].slot = r.slot
        BY <1>2, <1>3, <3>1 DEF InStep, Named, Early, ByCard
      <4>2. r.id \in InSlot(r.slot)
        BY <4>1 DEF InSlot, Cards
      <4>3. i = r.id /\ r.id # NoTimer
        BY <1>4, <4>2, InOneSlot, IdAssumption DEF InSlot, Existing
      <4> QED
        BY <1>5, <4>3
    <3>4. Holds(new)'
      BY <1>2, <2>4, <3>3 DEF Holds, Same
    <3>5. Stopped(new)'
      BY <1>3, <2>4 DEF Stopped, Same, BeforeUpsert
    <3>6. Begun(new)' /\ Linked(new)'
      BY <1>2, <1>3, <2>4, <3>1 DEF InStep, Begun, Linked, Same, OfTask, Existing, Starts, TaskStarts
    <3>7. Ended(new)' /\ Ordered(new)'
      BY <1>3, <2>4, <2>3 DEF Ended, Ordered, Same, Saves
    <3> QED
      BY <3>2, <3>4, <3>5, <3>6, <3>7 DEF InStep
  <2> QED
    BY <1>1, <1>2, <2>2, <2>4, <2>5, AloneStep DEF Same
<1> QED
  BY <1>12, <1>13

\* Pausing moves no row and ends no row: it only takes rows out of Running.
LEMMA PausedRows ==
  ASSUME Typed, NEW S \in SUBSET Running, timers' = [i \in Ids |-> IF i \in S THEN Paused(timers[i]) ELSE timers[i]]
  PROVE  /\ Existing' = Existing /\ Running' = Running \ S /\ Cards' = Cards
         /\ \A s : InSlot(s)' = InSlot(s)
         /\ \A t : OfTask(t)' = OfTask(t)
         /\ \A i \in Ids : i \notin S => timers'[i] = timers[i]
         /\ \A i \in Existing : timers'[i].slot = timers[i].slot /\ timers'[i].src = timers[i].src
<1>1. \A i \in S : /\ i \in Existing /\ timers[i] \in Rows
                   /\ Paused(timers[i]) # NoTimer /\ Paused(timers[i]).slot = timers[i].slot
                   /\ Paused(timers[i]).src = timers[i].src /\ Paused(timers[i]).status = "paused"
  <2> SUFFICES ASSUME NEW i \in S
               PROVE /\ i \in Existing /\ timers[i] \in Rows
                     /\ Paused(timers[i]) # NoTimer /\ Paused(timers[i]).slot = timers[i].slot
                     /\ Paused(timers[i]).src = timers[i].src /\ Paused(timers[i]).status = "paused"
    OBVIOUS
  <2>1. i \in Existing /\ timers[i] \in Rows /\ timers[i].since <= now
    BY DEF Running, Existing, Typed, Tabled
  <2> QED
    BY <2>1, PausedRow DEF Typed, Counted
<1>2. \A i \in Ids : i \in S => timers'[i] = Paused(timers[i])
  OBVIOUS
<1>3. \A i \in Ids : i \notin S => timers'[i] = timers[i]
  OBVIOUS
<1>4. Existing' = Existing
  BY <1>1, <1>2, <1>3 DEF Existing
<1>5. \A i \in Existing : i \in Ids /\ timers'[i].slot = timers[i].slot /\ timers'[i].src = timers[i].src
  BY <1>1, <1>2, <1>3 DEF Existing
<1>6. Running' = Running \ S
  BY <1>1, <1>2, <1>3, <1>4, <1>5 DEF Running
<1> QED
  BY <1>3, <1>4, <1>5, <1>6 DEF Cards, InSlot, OfTask

\* PauseOthers keeps what a request alone relies on.
LEMMA PauseOthersLone ==
  ASSUME Typed, Lone, NEW tab \in Tabs, PauseOthers(tab)
  PROVE  Lone'
<1>1. PICK r : r = req[tab]
  OBVIOUS
<1>2. Fit(r, now, born) /\ r.pc = "others" /\ r \in Requests /\ UNCHANGED <<task, saved, discarded>>
  BY <1>1 DEF PauseOthers, At, Typed, books, client
<1>3. PICK new : new = Jumped(r, "upsert")
  OBVIOUS
<1>4. req' = [req EXCEPT ![tab] = new] /\ "upsert" \in Steps
  BY <1>1, <1>3 DEF PauseOthers, Goto, Jumped, Steps, Typed
<1>5. new.pc = "upsert" /\ Same(new, r) /\ new.at = r.at /\ new.row = r.row
  BY <1>2, <1>3, <1>4, Jump
<1>6. PICK S \in SUBSET Running : S = {i \in Running : timers[i].slot # r.slot}
  OBVIOUS
<1>7. timers' = [i \in Ids |-> IF i \in S THEN Paused(timers[i]) ELSE timers[i]]
  BY <1>1, <1>6 DEF PauseOthers
<1>8. /\ Existing' = Existing /\ Running' = Running \ S /\ Cards' = Cards
      /\ \A s : InSlot(s)' = InSlot(s)
      /\ \A t : OfTask(t)' = OfTask(t)
      /\ \A i \in Ids : i \notin S => timers'[i] = timers[i]
      /\ \A i \in Existing : timers'[i].slot = timers[i].slot /\ timers'[i].src = timers[i].src
  BY <1>7, PausedRows
<1>9. r.kind \in {"save", "status"} \union TaskStarts
  BY <1>2 DEF Fit, Route, Requests, AllKinds, TaskStarts
<1>10. ASSUME Alone(tab) PROVE InStep(new)'
  <2>1. InStep(r)
    BY <1>1, <1>10 DEF Lone
  <2>2. Named(new)'
    BY <1>2, <1>5, <1>8, <1>9, <2>1 DEF InStep, Named, Early, Same, Cards, TaskStarts, ByCard, ByTask
  <2>3. Holds(new)'
    <3>1. r.kind = "status" => r.id \in Ids /\ r.id \notin S /\ r.at = r.id /\ r.row = timers[r.id]
      BY <1>2, <1>6, <2>1 DEF InStep, Named, Holds, Early, ByCard, Cards, Existing
    <3> QED
      BY <1>5, <1>8, <1>9, <3>1 DEF Holds, Same, Saves, TaskStarts
  <2>4. Stopped(new)'
    BY <1>5, <1>6, <1>8 DEF Stopped, Same, InSlot, Running
  <2>5. Begun(new)'
    BY <1>2, <1>5, <2>1 DEF InStep, Begun, Same
  <2>6. Linked(new)' /\ Ended(new)' /\ Ordered(new)'
    BY <1>5, <1>9 DEF Linked, Ended, Ordered, Same, TaskStarts, Saves
  <2> QED
    BY <2>2, <2>3, <2>4, <2>5, <2>6 DEF InStep
<1> QED
  BY <1>1, <1>2, <1>4, <1>5, <1>10, AloneStep DEF Same

\* Writing a row keeps what a request alone relies on.
LEMMA UpsertLone ==
  ASSUME Typed, Lone, NEW tab \in Tabs, Puts(tab)
  PROVE  Lone'
<1>1. req[tab].pc = "upsert" /\ task' = task /\ req[tab].kind # "discardTask"
  BY WrittenRow DEF Puts, Upsert, AnswerFails, Stored, At, TaskStarts
<1>2. CASE Caught(tab)
  BY <1>1, <1>2, AloneCaught
<1>3. CASE Done(tab)
  BY <1>1, <1>3, AloneDone
<1> QED
  BY <1>2, <1>3 DEF Puts, Upsert, AnswerFails, Stored

\* Convert keeps what a request alone relies on.
LEMMA ConvertLone ==
  ASSUME Typed, Lone, NEW tab \in Tabs, Convert(tab)
  PROVE  Lone'
<1>1. PICK r : r = req[tab]
  OBVIOUS
<1>2. Fit(r, now, born) /\ r.pc = "convert" /\ r \in Requests /\ UNCHANGED <<task, saved, discarded>>
  BY <1>1 DEF Convert, At, Typed, books, client
<1>3. r.kind = "link" /\ r.task \in Tasks
  BY <1>2 DEF Fit, Route, Carried, Requests, AllKinds, TaskStarts, Manuals
<1>4. CASE Caught(tab)
  BY <1>1, <1>2, <1>3, <1>4, AloneCaught
<1>5. CASE ~Caught(tab)
  <2>1. PICK new : new = Jumped(r, "list")
    OBVIOUS
  <2>2. req' = [req EXCEPT ![tab] = new] /\ "list" \in Steps
    BY <1>1, <1>5, <2>1 DEF Convert, Goto, Jumped, Steps, Typed
  <2>3. new.pc = "list" /\ Same(new, r)
    BY <1>2, <2>1, <2>2, Jump
  <2>4. PICK i : i = One(InSlot(r.slot) \intersect Cards)
    OBVIOUS
  <2>5. i \in Existing /\ timers[i] \in Rows /\ timers' = [timers EXCEPT ![i].slot = SourceOf(r.task), ![i].src = r.task, ![i].moved = r.was]
    <3>1. InSlot(r.slot) \intersect Cards # {} /\ InSlot(r.slot) \intersect Cards \subseteq Ids
      BY <1>1, <1>5 DEF Convert, Cards, Existing
    <3>2. i \in Existing
      BY <2>4, <3>1, OneIn DEF Cards
    <3> QED
      BY <1>1, <1>5, <2>4, <3>2 DEF Convert, Existing, Typed, Tabled
  <2>6. timers'[i].src = r.task /\ timers'[i] \in Rows
    <3>1. i \in Ids /\ timers'[i] = [timers[i] EXCEPT !.slot = SourceOf(r.task), !.src = r.task, !.moved = r.was]
      BY <2>5 DEF Existing, Typed, Tabled
    <3>2. SourceOf(r.task) \in Slots /\ r.was \in TaskStatuses \union {NotMoved}
      BY <1>2, <1>3 DEF SourceOf, Slots, Requests
    <3>3. PICK s \in Slots : s = SourceOf(r.task)
      BY <3>2
    <3>4. [timers[i] EXCEPT !.slot = s, !.src = r.task, !.moved = r.was].src = r.task
          /\ [timers[i] EXCEPT !.slot = s, !.src = r.task, !.moved = r.was] \in Rows
      BY <1>3, <2>5, <3>2 DEF Rows
    <3> QED
      BY <3>1, <3>3, <3>4
  <2>7. i \in OfTask(r.task)'
    BY <2>5, <2>6, NoRowAssumption DEF OfTask, Existing
  <2>8. ASSUME Alone(tab) PROVE InStep(new)'
    <3>1. InStep(r)
      BY <1>1, <2>8 DEF Lone
    <3>2. Begun(new)'
      BY <1>2, <1>3, <2>3, <3>1 DEF InStep, Begun, Same, Starts
    <3>3. Linked(new)'
      BY <2>3, <2>7 DEF Linked, Same
    <3>4. Named(new)' /\ Holds(new)' /\ Stopped(new)' /\ Ended(new)' /\ Ordered(new)'
      BY <1>3, <2>3 DEF Named, Holds, Stopped, Ended, Ordered, Same, Early, Saves
    <3> QED
      BY <3>2, <3>3, <3>4 DEF InStep
  <2> QED
    BY <1>1, <1>2, <2>2, <2>3, <2>8, AloneStep DEF Same
<1> QED
  BY <1>4, <1>5

\* CreateEntry keeps what a request alone relies on.
LEMMA CreateEntryLone ==
  ASSUME Typed, Lone, NEW tab \in Tabs, CreateEntry(tab)
  PROVE  Lone'
<1>1. PICK r : r = req[tab]
  OBVIOUS
<1>2. Fit(r, now, born) /\ r.pc = "entry" /\ r \in Requests /\ UNCHANGED <<timers, task, discarded>>
  BY <1>1 DEF CreateEntry, At, Typed, table, client
<1>3. r.kind \in Saves
  BY <1>2 DEF Fit, Route, Requests, AllKinds, TaskStarts, Saves
<1>4. PICK new : new = Jumped(r, "delete")
  OBVIOUS
<1>5. req' = [req EXCEPT ![tab] = new] /\ "delete" \in Steps
  BY <1>1, <1>4 DEF CreateEntry, Goto, Jumped, Steps, Typed
<1>6. new.pc = "delete" /\ Same(new, r) /\ new.at = r.at /\ new.row = r.row
  BY <1>2, <1>4, <1>5, Jump
<1>7. ASSUME Alone(tab) PROVE InStep(new)'
  <2>1. InStep(r)
    BY <1>1, <1>7 DEF Lone
  <2>2. Named(new)'
    BY <1>2, <1>3, <1>6, <2>1 DEF InStep, Named, Early, Same, Existing, Cards, OfTask, Running, Saves, TaskStarts
  <2>3. Holds(new)'
    BY <1>2, <1>3, <1>6, <2>1 DEF InStep, Holds, Same
  <2>4. r.id \in Ids /\ r.at = r.id
    BY <1>2, <1>3, <2>1 DEF InStep, Holds, Fit, Carried, Saves, Typed, Counted
  <2>5. saved'[r.id] > 0
    BY <1>1, <2>4, IdAssumption DEF CreateEntry, Typed, Counted
  <2>6. Ended(new)'
    BY <1>3, <1>6, <2>5 DEF Ended, Same, Saves
  <2>7. Stopped(new)' /\ Begun(new)' /\ Linked(new)' /\ Ordered(new)'
    BY <1>3, <1>6 DEF Stopped, Begun, Linked, Ordered, Same, Saves, Starts, TaskStarts
  <2> QED
    BY <2>2, <2>3, <2>6, <2>7 DEF InStep
<1> QED
  BY <1>1, <1>2, <1>5, <1>6, <1>7, AloneStep DEF Same

\* DeleteTimer keeps what a request alone relies on.
LEMMA DeleteTimerLone ==
  ASSUME Typed, Lone, NEW tab \in Tabs, DeleteTimer(tab)
  PROVE  Lone'
<1>1. PICK r : r = req[tab]
  OBVIOUS
<1>2. Fit(r, now, born) /\ r.pc = "delete" /\ r \in Requests /\ UNCHANGED <<task, saved, discarded>>
  BY <1>1 DEF DeleteTimer, At, Typed, books, client
<1>3. CASE Done(tab)
  BY <1>1, <1>2, <1>3, AloneDone
<1>4. CASE ~Done(tab)
  <2>1. \E p \in {"list", "evidence"} :
            Goto(tab, p) /\ (p = "list" => r.kind \in {"discard", "finalize"}) /\ (p = "evidence" => r.kind = "discardTask")
    BY <1>1, <1>4 DEF DeleteTimer
  <2>2. PICK p \in {"list", "evidence"} :
            Goto(tab, p) /\ (p = "list" => r.kind \in {"discard", "finalize"}) /\ (p = "evidence" => r.kind = "discardTask")
    BY <2>1
  <2>3. PICK new : new = Jumped(r, p)
    OBVIOUS
  <2>4. req' = [req EXCEPT ![tab] = new] /\ p \in Steps
    BY <1>1, <2>2, <2>3 DEF Goto, Jumped, Steps, Typed
  <2>5. new.pc = p /\ Same(new, r)
    BY <1>2, <2>3, <2>4, Jump
  <2>6. ASSUME Alone(tab) PROVE InStep(new)'
    <3>1. InStep(r)
      BY <1>1, <2>6 DEF Lone
    <3>2. r.kind = "discardTask" => OfTask(r.task)' = {}
      <4> SUFFICES ASSUME r.kind = "discardTask", NEW j \in OfTask(r.task)' PROVE FALSE
        OBVIOUS
      <4>1. j \in Ids /\ timers'[j] # NoTimer /\ timers'[j].src = r.task
        BY DEF OfTask, Existing
      <4>2. timers' = [i \in Ids |-> IF i \in OfTask(r.task) THEN NoTimer ELSE timers[i]]
        BY <1>1 DEF DeleteTimer
      <4> QED
        BY <4>1, <4>2 DEF OfTask, Existing
    <3>3. Ended(new)'
      BY <1>2, <2>2, <2>5, <3>1, <3>2 DEF InStep, Ended, Same
    <3>4. Named(new)' /\ Holds(new)' /\ Stopped(new)' /\ Begun(new)' /\ Linked(new)' /\ Ordered(new)'
      BY <2>2, <2>5 DEF Named, Holds, Stopped, Begun, Linked, Ordered, Same, Early, Saves, Starts, TaskStarts
    <3> QED
      BY <3>3, <3>4 DEF InStep
  <2> QED
    BY <1>1, <1>2, <2>4, <2>5, <2>6, AloneStep DEF Same
<1> QED
  BY <1>3, <1>4

\* ListCards keeps what a request alone relies on.
LEMMA ListCardsLone ==
  ASSUME Typed, Lone, NEW tab \in Tabs, ListCards(tab)
  PROVE  Lone'
<1>1. PICK r : r = req[tab]
  OBVIOUS
<1>2. Fit(r, now, born) /\ r.pc = "list" /\ r \in Requests /\ UNCHANGED <<timers, task, saved, discarded>>
  BY <1>1 DEF ListCards, At, Typed, table, books, client
<1>3. r.kind \in {"discard", "finalize", "link"}
  BY <1>2 DEF Fit, Route, Requests, AllKinds, TaskStarts
<1>4. CASE Done(tab)
  BY <1>1, <1>2, <1>4, AloneDone
<1>5. CASE ~Done(tab)
  <2>0. PICK order : order = Sorted
    OBVIOUS
  <2>1. PICK new : new = [r EXCEPT !.order = order, !.at = 1, !.pc = "strand"]
    OBVIOUS
  <2>2. req' = [req EXCEPT ![tab] = new]
    BY <1>1, <1>5, <2>0, <2>1 DEF ListCards
  <2>3. /\ order \in Seq(Ids) /\ Len(order) \in Nat /\ "strand" \in Steps
        /\ \A k \in 1..Len(order) : order[k] \in Cards
        /\ \A i \in Cards : \E k \in 1..Len(order) : order[k] = i
    BY <2>0, SortedCards DEF Steps
  <2>4. Same(new, r) /\ new.pc = "strand" /\ new.order = order /\ new.at = 1
    BY <1>2, <2>1, <2>3 DEF Requests, Same
  <2>5. ASSUME Alone(tab) PROVE InStep(new)'
    <3>1. InStep(r)
      BY <1>1, <2>5 DEF Lone
    <3>2. Begun(new)' /\ Linked(new)' /\ Ended(new)'
      BY <1>2, <1>3, <2>4, <3>1 DEF InStep, Begun, Linked, Ended, Same, OfTask, Existing, Starts, TaskStarts, Saves
    <3>3. Ordered(new)'
      BY <1>2, <2>3, <2>4 DEF Ordered, Cards, Existing
    <3>4. Named(new)' /\ Holds(new)' /\ Stopped(new)'
      BY <2>4 DEF Named, Holds, Stopped, Early
    <3> QED
      BY <3>2, <3>3, <3>4 DEF InStep
  <2> QED
    BY <1>1, <1>2, <2>2, <2>4, <2>5, AloneStep DEF Same
<1> QED
  BY <1>4, <1>5

\* Renaming a slot changes that one row, and of it the slot only.
LEMMA RenamedRows ==
  ASSUME Typed, NEW i \in Existing, NEW slot \in Slots, timers' = [timers EXCEPT ![i].slot = slot]
  PROVE  /\ Existing' = Existing /\ Running' = Running
         /\ timers'[i].slot = slot /\ timers'[i].src = timers[i].src /\ timers'[i] = [timers[i] EXCEPT !.slot = slot]
         /\ \A j \in Ids \ {i} : timers'[j] = timers[j]
         /\ \A t : OfTask(t)' = OfTask(t)
<1>1. i \in Ids /\ timers[i] \in Rows /\ timers[i] # NoTimer
  BY DEF Existing, Typed, Tabled
<1>2. timers'[i] = [timers[i] EXCEPT !.slot = slot] /\ \A j \in Ids \ {i} : timers'[j] = timers[j]
  BY <1>1 DEF Typed, Tabled
<1>3. /\ timers'[i].slot = slot /\ timers'[i].src = timers[i].src /\ timers'[i].status = timers[i].status
  BY <1>1, <1>2 DEF Rows
<1>4. timers'[i] # NoTimer
  <2>1. timers'[i] \in Rows
    BY <1>1, <1>2 DEF Rows
  <2> QED
    BY <2>1, NoRowAssumption
<1> QED
  BY <1>1, <1>2, <1>3, <1>4 DEF Existing, Running, OfTask

\* Strand keeps what a request alone relies on.
LEMMA StrandLone ==
  ASSUME Typed, Lone, NEW tab \in Tabs, Strand(tab)
  PROVE  Lone'
<1>1. PICK r : r = req[tab]
  OBVIOUS
<1>2. /\ Fit(r, now, born) /\ r.pc = "strand" /\ r \in Requests /\ UNCHANGED <<task, saved, discarded>>
      /\ r.at \in 1..Len(r.order) /\ r.order \in Seq(Ids) /\ Len(r.order) \in Nat
  BY <1>1 DEF Strand, At, Typed, books, client, Fit, Known, Requests
<1>3. r.kind \in {"discard", "finalize", "link"}
  BY <1>2 DEF Fit, Route, Requests, AllKinds, TaskStarts
<1>4. PICK i \in Ids : i = r.order[r.at]
  BY <1>2
<1>5. PICK slot \in Slots : slot = <<"compact", i>>
  BY DEF Slots
<1>6. ~(InSlot(slot) \ {i} # {} /\ i \in Existing)
  BY <1>5 DEF InSlot, Typed, Tabled
<1>7. /\ timers' = IF i \in Existing THEN [timers EXCEPT ![i].slot = slot] ELSE timers
      /\ \/ r.at < Len(r.order) /\ req' = [req EXCEPT ![tab].at = @ + 1]
         \/ r.at = Len(r.order) /\ req' = [req EXCEPT ![tab].at = 1, ![tab].pc = "place"]
  BY <1>1, <1>4, <1>5, <1>6 DEF Strand, Rename
<1>8. PICK new : new = IF r.at < Len(r.order) THEN [r EXCEPT !.at = @ + 1] ELSE [r EXCEPT !.at = 1, !.pc = "place"]
  OBVIOUS
<1>9. req' = [req EXCEPT ![tab] = new]
  <2>1. CASE r.at < Len(r.order)
    BY <1>1, <1>2, <1>7, <1>8, <2>1
  <2>2. CASE r.at = Len(r.order)
    <3>1. new = [req[tab] EXCEPT !.at = 1, !.pc = "place"]
      BY <1>1, <1>2, <1>8, <2>2
    <3>2. req' = [req EXCEPT ![tab].at = 1, ![tab].pc = "place"]
      BY <1>2, <1>7, <2>2
    <3> QED
      BY <3>1, <3>2 DEF Typed
  <2> QED
    BY <1>2, <2>1, <2>2
<1>10. /\ Same(new, r) /\ new.order = r.order
       /\ \/ r.at < Len(r.order) /\ new.at = r.at + 1 /\ new.pc = "strand"
          \/ r.at = Len(r.order) /\ new.at = 1 /\ new.pc = "place"
  BY <1>2, <1>7, <1>8 DEF Same, Requests
<1>11. /\ Existing' = Existing /\ \A t : OfTask(t)' = OfTask(t)
       /\ \A j \in Existing : timers'[j].src = timers[j].src
       /\ \A j \in Ids \ {i} : timers'[j] = timers[j]
       /\ i \notin Cards'
  <2>1. CASE i \in Existing
    <3>1. timers' = [timers EXCEPT ![i].slot = slot]
      BY <1>7, <2>1
    <3>2. /\ Existing' = Existing /\ \A t : OfTask(t)' = OfTask(t)
          /\ timers'[i].slot = slot /\ timers'[i].src = timers[i].src
          /\ \A j \in Ids \ {i} : timers'[j] = timers[j]
      BY <2>1, <3>1, RenamedRows
    <3> QED
      BY <1>5, <3>2 DEF Cards, Existing
  <2>2. CASE i \notin Existing
    <3>1. timers' = timers
      BY <1>7, <2>2
    <3> QED
      BY <2>2, <3>1 DEF Existing, OfTask, Cards
  <2> QED
    BY <2>1, <2>2
<1>12. ASSUME Alone(tab) PROVE InStep(new)'
  <2>1. InStep(r)
    BY <1>1, <1>12 DEF Lone
  <2>2. Begun(new)' /\ Linked(new)' /\ Ended(new)'
    BY <1>2, <1>3, <1>10, <1>11, <2>1 DEF InStep, Begun, Linked, Ended, Same, Starts, TaskStarts, Saves
  <2>3. Ordered(new)'
    <3>1. \A k \in 1..Len(r.order) : r.order[k] \in Existing' => timers'[r.order[k]].src = NoTask
      BY <1>2, <1>11, <2>1 DEF InStep, Ordered
    <3>2. \A j \in Cards' : j \in Cards /\ j # i
      BY <1>11 DEF Cards, Existing
    <3>3. \A j \in Cards' : \E k \in r.at..Len(r.order) : r.order[k] = j /\ k # r.at
      BY <1>2, <1>4, <2>1, <3>2 DEF InStep, Ordered
    <3>4. \A j \in Cards' : \E k \in (r.at + 1)..Len(r.order) : r.order[k] = j
      <4> SUFFICES ASSUME NEW j \in Cards' PROVE \E k \in (r.at + 1)..Len(r.order) : r.order[k] = j
        OBVIOUS
      <4>1. PICK k \in r.at..Len(r.order) : r.order[k] = j /\ k # r.at
        BY <3>3
      <4> QED
        BY <1>2, <4>1
    <3>5. CASE new.pc = "strand"
      BY <1>10, <3>1, <3>4, <3>5 DEF Ordered
    <3>6. CASE new.pc = "place"
      <4>1. Cards' = {}
        BY <1>2, <1>10, <3>4, <3>6
      <4> QED
        BY <1>10, <3>1, <3>6, <4>1 DEF Ordered
    <3> QED
      BY <1>10, <3>5, <3>6
  <2>4. Named(new)' /\ Holds(new)' /\ Stopped(new)'
    BY <1>10 DEF Named, Holds, Stopped, Early
  <2> QED
    BY <2>2, <2>3, <2>4 DEF InStep
<1> QED
  BY <1>1, <1>2, <1>9, <1>10, <1>12, AloneStep DEF Same

\* Place keeps what a request alone relies on.
LEMMA PlaceLone ==
  ASSUME Typed, Lone, NEW tab \in Tabs, Place(tab)
  PROVE  Lone'
<1>1. PICK r : r = req[tab]
  OBVIOUS
<1>2. /\ Fit(r, now, born) /\ r.pc = "place" /\ r \in Requests /\ UNCHANGED <<task, saved, discarded>>
      /\ r.at \in 1..Len(r.order) /\ r.order \in Seq(Ids) /\ Len(r.order) \in Nat /\ Len(r.order) <= MaxSlot
  BY <1>1 DEF Place, At, Typed, books, client, Fit, Known, Requests
<1>3. r.kind \in {"discard", "finalize", "link"}
  BY <1>2 DEF Fit, Route, Requests, AllKinds, TaskStarts
<1>4. PICK i \in Ids : i = r.order[r.at]
  BY <1>2
<1>5. PICK slot \in Slots : slot = <<"manual", r.at>>
  <2>1. r.at \in 1..MaxSlot
    BY <1>2, BoundAssumption
  <2> QED
    BY <2>1 DEF Slots
<1>6. CASE Caught(tab) \/ Done(tab)
  BY <1>1, <1>2, <1>3, <1>6, AloneCaught, AloneDone
<1>7. CASE ~(Caught(tab) \/ Done(tab))
  <2>1. /\ timers' = IF i \in Existing THEN [timers EXCEPT ![i].slot = slot] ELSE timers
        /\ r.at < Len(r.order) /\ req' = [req EXCEPT ![tab].at = @ + 1]
    BY <1>1, <1>4, <1>5, <1>7 DEF Place, Rename
  <2>2. PICK new : new = [r EXCEPT !.at = @ + 1]
    OBVIOUS
  <2>3. req' = [req EXCEPT ![tab] = new]
    BY <1>1, <2>1, <2>2 DEF Typed
  <2>4. Same(new, r) /\ new.order = r.order /\ new.at = r.at + 1 /\ new.pc = "place"
    BY <1>2, <2>2 DEF Same, Requests
  <2>5. /\ Existing' = Existing /\ \A t : OfTask(t)' = OfTask(t)
        /\ \A j \in Existing : timers'[j].src = timers[j].src
        /\ \A j \in Ids \ {i} : timers'[j] = timers[j]
        /\ i \in Existing => timers'[i].slot = slot
    <3>1. CASE i \in Existing
      <4>1. timers' = [timers EXCEPT ![i].slot = slot]
        BY <2>1, <3>1
      <4>2. /\ Existing' = Existing /\ \A t : OfTask(t)' = OfTask(t)
            /\ timers'[i].slot = slot /\ timers'[i].src = timers[i].src
            /\ \A j \in Ids \ {i} : timers'[j] = timers[j]
        BY <3>1, <4>1, RenamedRows
      <4> QED
        BY <4>2 DEF Existing
    <3>2. CASE i \notin Existing
      <4>1. timers' = timers
        BY <2>1, <3>2
      <4> QED
        BY <3>2, <4>1 DEF Existing, OfTask, Cards
    <3> QED
      BY <3>1, <3>2
  <2>6. ASSUME Alone(tab) PROVE InStep(new)'
    <3>1. InStep(r)
      BY <1>1, <2>6 DEF Lone
    <3>2. Begun(new)' /\ Linked(new)' /\ Ended(new)'
      BY <1>2, <1>3, <2>4, <2>5, <3>1 DEF InStep, Begun, Linked, Ended, Same, Starts, TaskStarts, Saves
    <3>3. Ordered(new)'
      <4>1. \A k \in 1..Len(r.order) : r.order[k] \in Existing' => timers'[r.order[k]].src = NoTask
        BY <1>2, <2>5, <3>1 DEF InStep, Ordered
      <4>2. \A j \in Cards' : \E k \in 1..r.at : r.order[k] = j /\ timers'[j].slot = <<"manual", k>>
        <5> SUFFICES ASSUME NEW j \in Cards' PROVE \E k \in 1..r.at : r.order[k] = j /\ timers'[j].slot = <<"manual", k>>
          OBVIOUS
        <5>1. CASE j = i
          BY <1>2, <1>4, <1>5, <2>5, <5>1 DEF Cards
        <5>2. CASE j # i
          <6>1. j \in Cards /\ timers'[j] = timers[j]
            BY <2>5, <5>2 DEF Cards, Existing
          <6>2. PICK k \in 1..(r.at - 1) : r.order[k] = j /\ timers[j].slot = <<"manual", k>>
            BY <1>2, <3>1, <6>1 DEF InStep, Ordered
          <6> QED
            BY <1>2, <6>1, <6>2
        <5> QED
          BY <5>1, <5>2
      <4>3. new.at - 1 = r.at
        BY <1>2, <2>4
      <4> QED
        BY <2>4, <4>1, <4>2, <4>3 DEF Ordered
    <3>4. Named(new)' /\ Holds(new)' /\ Stopped(new)'
      BY <2>4 DEF Named, Holds, Stopped, Early
    <3> QED
      BY <3>2, <3>3, <3>4 DEF InStep
  <2> QED
    BY <1>1, <1>2, <2>3, <2>4, <2>6, AloneStep DEF Same
<1> QED
  BY <1>6, <1>7

\* ReadEvidence keeps what a request alone relies on.
LEMMA ReadEvidenceLone ==
  ASSUME Typed, Lone, NEW tab \in Tabs, ReadEvidence(tab)
  PROVE  Lone'
<1>1. PICK r : r = req[tab]
  OBVIOUS
<1>2. Fit(r, now, born) /\ r.pc = "evidence" /\ r \in Requests /\ UNCHANGED <<timers, task, saved, discarded>>
  BY <1>1 DEF ReadEvidence, At, Typed, table, books, client
<1>3. CASE Done(tab)
  BY <1>1, <1>2, <1>3, AloneDone
<1>4. CASE ~Done(tab)
  <2>1. PICK from : from = IF r.kind = "discardTask" THEN r.row.moved ELSE r.was
    OBVIOUS
  <2>2. PICK new : new = Marked(r, from, "revert")
    OBVIOUS
  <2>3. req' = [req EXCEPT ![tab] = new]
    BY <1>1, <1>4, <2>1, <2>2 DEF ReadEvidence, Marked, Typed
  <2>4. from \in TaskStatuses \union {NotMoved} /\ "revert" \in Steps
    BY <1>2, <2>1 DEF Fit, Known, Requests, Rows, Steps
  <2>5. new.pc = "revert" /\ Same(new, r)
    BY <1>2, <2>2, <2>4, Mark
  <2>6. ASSUME Alone(tab) PROVE InStep(new)'
    <3>1. InStep(r)
      BY <1>1, <2>6 DEF Lone
    <3>2. Begun(new)' /\ Ended(new)'
      BY <1>2, <2>5, <3>1 DEF InStep, Begun, Ended, Same, OfTask, Existing
    <3>3. Named(new)' /\ Holds(new)' /\ Stopped(new)' /\ Linked(new)' /\ Ordered(new)'
      BY <2>5 DEF Named, Holds, Stopped, Linked, Ordered, Early
    <3> QED
      BY <3>2, <3>3 DEF InStep
  <2> QED
    BY <1>1, <1>2, <2>3, <2>5, <2>6, AloneStep DEF Same
<1> QED
  BY <1>3, <1>4

\* Requests that set a status rely on nothing in the table.
LEMMA SettingInStep ==
  ASSUME NEW r, r.kind \in {"setTask", "complete"}, r.pc \in {"write", "quiet"}
  PROVE  InStep(r)'
BY DEF InStep, Named, Holds, Stopped, Begun, Linked, Ended, Ordered, Early, Saves, Starts, TaskStarts

\* CheckComplete keeps what a request alone relies on.
LEMMA CheckCompleteLone ==
  ASSUME Typed, Lone, NEW tab \in Tabs, CheckComplete(tab)
  PROVE  Lone'
<1>1. PICK r : r = req[tab]
  OBVIOUS
<1>2. Fit(r, now, born) /\ r.pc = "check" /\ r \in Requests
  BY <1>1 DEF CheckComplete, At, Typed
<1>3. CASE Done(tab)
  BY <1>1, <1>2, <1>3, AloneDone
<1>4. CASE Goto(tab, "write")
  <2>1. PICK new : new = Jumped(r, "write")
    OBVIOUS
  <2>2. req' = [req EXCEPT ![tab] = new] /\ "write" \in Steps
    BY <1>1, <1>4, <2>1 DEF Goto, Jumped, Steps
  <2>3. new.pc = "write" /\ Same(new, r) /\ r.kind = "complete"
    BY <1>2, <2>1, <2>2, Jump DEF Fit, Route, Requests, AllKinds, TaskStarts
  <2>4. InStep(new)'
    BY <2>3, SettingInStep DEF Same
  <2> QED
    BY <1>1, <1>2, <2>2, <2>3, <2>4, AloneStep DEF Same
<1> QED
  BY <1>3, <1>4 DEF CheckComplete

\* WriteTask keeps what a request alone relies on.
LEMMA WriteTaskLone ==
  ASSUME Typed, Lone, NEW tab \in Tabs, WriteTask(tab)
  PROVE  Lone'
<1>1. PICK r : r = req[tab]
  OBVIOUS
<1>2. Fit(r, now, born) /\ r.pc = "write" /\ r \in Requests
  BY <1>1 DEF WriteTask, At, Typed
<1>3. CASE Done(tab)
  BY <1>1, <1>2, <1>3, AloneDone
<1>4. CASE Goto(tab, "quiet")
  <2>1. PICK new : new = Jumped(r, "quiet")
    OBVIOUS
  <2>2. req' = [req EXCEPT ![tab] = new] /\ "quiet" \in Steps
    BY <1>1, <1>4, <2>1 DEF Goto, Jumped, Steps
  <2>3. new.pc = "quiet" /\ Same(new, r) /\ r.kind \in {"setTask", "complete"}
    BY <1>2, <2>1, <2>2, Jump DEF Fit, Route, Requests, AllKinds, TaskStarts
  <2>4. InStep(new)'
    BY <2>3, SettingInStep DEF Same
  <2> QED
    BY <1>1, <1>2, <2>2, <2>3, <2>4, AloneStep DEF Same
<1> QED
  BY <1>3, <1>4 DEF WriteTask

\* Revert keeps what a request alone relies on.
LEMMA RevertLone ==
  ASSUME Typed, Lone, NEW tab \in Tabs, Revert(tab)
  PROVE  Lone'
BY AloneDone DEF Revert, At

\* PauseBlocked keeps what a request alone relies on.
LEMMA PauseBlockedLone ==
  ASSUME Typed, Lone, NEW tab \in Tabs, PauseBlocked(tab)
  PROVE  Lone'
BY AloneDone DEF PauseBlocked, At

\* A fault keeps what a request alone relies on.
LEMMA ErringLone ==
  ASSUME Typed, Lone, NEW tab \in Tabs, Erring(tab)
  PROVE  Lone'
<1>1. CASE AnswerFails(tab)
  BY <1>1, UpsertLone DEF Puts
<1>2. CASE Done(tab) /\ ~AnswerFails(tab)
  BY <1>2, AloneDone DEF Erring, StatementFails, AuditFails, At
<1>3. CASE ~Done(tab) /\ ~AnswerFails(tab)
  <2>1. Caught(tab) /\ req[tab].pc \in Guarded /\ task' = task /\ req[tab].kind # "discardTask"
    BY <1>3 DEF Erring, StatementFails, AuditFails, ErrorAt, Caught, TaskStarts, table
  <2> QED
    BY <2>1, AloneCaught DEF Guarded
<1> QED
  BY <1>1, <1>2, <1>3

\* Crash keeps what a request alone relies on.
LEMMA CrashLone ==
  ASSUME Crash
  PROVE  Lone'
BY DEF Crash, Lone, Alone, Idle

\* What leaves the table and the requests as they were keeps what a request alone relies on.
LEMMA SameLone ==
  ASSUME Lone, UNCHANGED <<table, req, saved, discarded, born>>
  PROVE  Lone'
<1>1. UNCHANGED <<timers, task, req, saved, discarded>>
  BY DEF table
<1> SUFFICES ASSUME NEW tab \in Tabs, Alone(tab)'
             PROVE  (\A u \in Tabs \ {tab} : req'[u].pc = "idle") /\ InStep(req[tab])'
  BY DEF Lone
<1>2. PICK r : r = req[tab]
  OBVIOUS
<1>3. (\A u \in Tabs \ {tab} : req[u].pc = "idle") /\ InStep(r)
  BY <1>1, <1>2 DEF Alone, Lone
<1>4. Existing' = Existing /\ Cards' = Cards /\ Running' = Running
  BY <1>1 DEF Existing, Cards, Running
<1>5. (\A t : OfTask(t)' = OfTask(t)) /\ (\A s : InSlot(s)' = InSlot(s))
  BY <1>1, <1>4 DEF OfTask, InSlot
<1>6. InStep(r)'
  <2>1. Named(r)' /\ Holds(r)' /\ Stopped(r)'
    BY <1>1, <1>3, <1>4, <1>5 DEF InStep, Named, Holds, Stopped
  <2>2. Begun(r)' /\ Linked(r)' /\ Ended(r)' /\ Ordered(r)'
    BY <1>1, <1>3, <1>4, <1>5 DEF InStep, Begun, Linked, Ended, Ordered
  <2> QED
    BY <2>1, <2>2 DEF InStep
<1> QED
  BY <1>1, <1>2, <1>3, <1>6

\* A request that leaves keeps what a request alone relies on.
LEMMA SendLone ==
  ASSUME Typed, Lone, Fresh, NEW tab \in Tabs, NEW kind \in AllKinds, NEW i \in Ids \union {NoTimer}, NEW t \in Tasks \union {NoTask},
         NEW on \in {"running", "paused"},
         NEW slot \in Slots \union {<<"none">>, <<"complete">>} \union {<<s>> : s \in Targets},
         Send(tab, kind, i, slot, t, on),
         kind \in ByCard => i \in Cards /\ timers[i].slot = slot,
         kind \in ByTask => i \in OfTask(t),
         kind = "save" /\ i \in Existing => i \in Cards /\ timers[i].slot = slot,
         kind \in TaskStarts => IF i \in Existing THEN i \in OfTask(t) ELSE OfTask(t) = {},
         kind \in TaskStarts \union {"save"} /\ i \notin Existing => saved[i] = 0,
         kind = "link" => i \in Running
  PROVE  Lone'
<1>1. PICK new : new = Leaving(kind, i, slot, t, on)
  OBVIOUS
<1>2. /\ new.kind = kind /\ new.slot = slot /\ new.task = t /\ new.id = i /\ new.on = on /\ new.alone = Quiet
      /\ new.pc = (IF kind = "save" /\ on = "paused" THEN "upsert" ELSE Flow(kind))
  BY <1>1, LeavingRecord
<1>3. UNCHANGED <<timers, task, saved>>
  BY DEF Send, table, books
<1>4. Existing' = Existing /\ Cards' = Cards /\ Running' = Running
  BY <1>3 DEF Existing, Cards, Running
<1>5. (\A x : OfTask(x)' = OfTask(x)) /\ (\A s : InSlot(s)' = InSlot(s))
  BY <1>3, <1>4 DEF OfTask, InSlot
<1>6. kind \notin {"save", "status", "finalize", "discard"} => new.pc = "task"
  BY <1>2 DEF Flow
<1>7. /\ kind = "save" => new.pc = "others" \/ (new.pc = "upsert" /\ on = "paused")
      /\ kind \in {"status", "finalize"} => new.pc = "read"
      /\ kind = "discard" => new.pc = "delete"
  BY <1>2 DEF Flow
<1>8. Named(new)'
  BY <1>2, <1>3, <1>4, <1>5 DEF Named
<1>9. Holds(new)' /\ Stopped(new)' /\ Linked(new)' /\ Ordered(new)' /\ Begun(new)'
  BY <1>2, <1>6, <1>7 DEF Holds, Stopped, Linked, Ordered, Begun, Saves, Starts, TaskStarts
<1>10. Ended(new)'
  <2>1. kind \in {"discard", "discardTask"} => i \in discarded'
    BY DEF Send
  <2>2. new.pc = "delete" => kind \notin Saves
    BY <1>6, <1>7 DEF Saves
  <2>3. new.pc \notin {"evidence", "revert"}
    BY <1>6, <1>7
  <2> QED
    BY <1>2, <2>1, <2>2, <2>3 DEF Ended
<1>11. InStep(new)'
  BY <1>8, <1>9, <1>10 DEF InStep
<1>12. req' = [u \in Tabs |-> IF u = tab THEN new ELSE Joined(req[u])]
  BY <1>1, SendLeaves
<1>13. ASSUME NEW u \in Tabs
       PROVE  Joined(req[u]).pc = req[u].pc /\ Joined(req[u]).alone = (req[u].pc = "idle")
  <2>1. req[u] \in Requests
    BY DEF Typed
  <2> QED
    BY <2>1 DEF Joined, Requests
<1> SUFFICES ASSUME NEW u \in Tabs, Alone(u)'
             PROVE  (\A v \in Tabs \ {u} : req'[v].pc = "idle") /\ InStep(req[u])'
  BY DEF Lone
<1>14. u = tab
  <2> SUFFICES ASSUME u # tab PROVE FALSE
    OBVIOUS
  <2>1. req'[u] = Joined(req[u])
    BY <1>12
  <2>2. req'[u].pc = req[u].pc /\ req'[u].alone = (req[u].pc = "idle")
    BY <1>13, <2>1
  <2> QED
    BY <2>2 DEF Alone
<1>15. Quiet
  BY <1>2, <1>12, <1>14 DEF Alone
<1> QED
  BY <1>11, <1>12, <1>13, <1>14, <1>15 DEF Quiet

\* A request that leaves keeps what a request alone relies on.
LEMMA RequestLone ==
  ASSUME Typed, Lone, Fresh, NEW tab \in Tabs, Request(tab)
  PROVE  Lone'
<1>0. \A i \in Ids \ born : i \notin Existing /\ saved[i] = 0
  BY DEF Typed, Tabled, Fresh
<1>1. CASE SendSave(tab)
  <2>1. ASSUME NEW i \in Ids \ born, NEW n \in 1..MaxSlot, Send(tab, "save", i, <<"manual", n>>, NoTask, "running")
        PROVE  Lone'
    <3>1. PICK s \in Slots : s = <<"manual", n>>
      BY DEF Slots
    <3>2. "save" \in AllKinds
      BY DEF AllKinds
    <3> QED
      BY <1>0, <2>1, <3>1, <3>2, SendLone DEF ByCard, ByTask, TaskStarts
  <2>2. ASSUME NEW i \in Cards, Send(tab, "save", i, timers[i].slot, NoTask, timers[i].status)
        PROVE  Lone'
    <3>1. "save" \in AllKinds
      BY DEF AllKinds
    <3> QED
      BY <2>2, <3>1, CardFacts, SendLone DEF ByCard, ByTask, TaskStarts
  <2> QED
    BY <1>1, <2>1, <2>2 DEF SendSave
<1>2. CASE SendBySlot(tab)
  <2>1. ASSUME NEW i \in Cards, NEW kind \in {"status", "discard", "finalize"}, NEW on \in {"running", "paused"},
               Send(tab, kind, i, timers[i].slot, NoTask, on)
        PROVE  Lone'
    <3>1. kind \in AllKinds
      BY DEF AllKinds
    <3> QED
      BY <2>1, <3>1, CardFacts, SendLone DEF ByTask, TaskStarts
  <2> QED
    BY <1>2, <2>1 DEF SendBySlot
<1>3. CASE SendTaskTimer(tab)
  <2>1. ASSUME NEW t \in Tasks, NEW kind \in TaskStarts, NEW i \in IF OfTask(t) = {} THEN Ids \ born ELSE OfTask(t),
               Send(tab, kind, i, SourceOf(t), t, "running")
        PROVE  Lone'
    <3>1. kind \in AllKinds /\ SourceOf(t) \in Slots /\ kind \notin ByCard \union ByTask \union {"save", "link"}
      BY DEF AllKinds, TaskStarts, SourceOf, Slots, ByCard, ByTask
    <3>2. i \in Ids /\ (IF i \in Existing THEN i \in OfTask(t) ELSE OfTask(t) = {}) /\ (i \notin Existing => saved[i] = 0)
      <4>1. CASE OfTask(t) = {}
        BY <1>0, <4>1
      <4>2. CASE OfTask(t) # {}
        BY <4>2 DEF OfTask, Existing
      <4> QED
        BY <4>1, <4>2
    <3> QED
      BY <2>1, <3>1, <3>2, SendLone
  <2>2. ASSUME NEW t \in Tasks, NEW kind \in ByTask, NEW i \in OfTask(t), Send(tab, kind, i, SourceOf(t), t, "paused")
        PROVE  Lone'
    <3>1. kind \in AllKinds /\ SourceOf(t) \in Slots /\ kind \notin ByCard \union TaskStarts \union {"save", "link"}
      BY DEF AllKinds, TaskStarts, SourceOf, Slots, ByCard, ByTask
    <3>2. i \in Ids
      BY DEF OfTask, Existing
    <3> QED
      BY <2>2, <3>1, <3>2, SendLone
  <2>3. ASSUME NEW t \in Tasks, NEW i \in Cards \intersect Running, Send(tab, "link", i, timers[i].slot, t, "running")
        PROVE  Lone'
    <3>1. "link" \in AllKinds
      BY DEF AllKinds
    <3> QED
      BY <2>3, <3>1, CardFacts, SendLone DEF ByTask, TaskStarts
  <2> QED
    BY <1>3, <2>1, <2>2, <2>3 DEF SendTaskTimer, ByTask
<1>4. CASE SendTask(tab)
  <2>1. ASSUME NEW t \in Tasks, NEW kind \in {"setTask", "complete"}, NEW x, x \in Targets \/ x = "complete",
               Send(tab, kind, NoTimer, <<x>>, t, "paused")
        PROVE  Lone'
    <3>1. kind \in AllKinds
      BY DEF AllKinds
    <3>2. PICK s \in Slots \union {<<"none">>, <<"complete">>} \union {<<y>> : y \in Targets} : s = <<x>>
      BY <2>1
    <3> QED
      BY <2>1, <3>1, <3>2, SendLone DEF ByCard, ByTask, TaskStarts
  <2> QED
    BY <1>4, <2>1 DEF SendTask
<1> QED
  BY <1>1, <1>2, <1>3, <1>4 DEF Request

\* Every statement of a request keeps what a request alone relies on.
LEMMA StepLone ==
  ASSUME Typed, Lone, NEW tab \in Tabs, Step(tab)
  PROVE  Lone'
BY ReadTaskLone, ReadTaskTimerLone, MoveTaskLone, ReadSlotLone, PauseOthersLone, UpsertLone,
   ConvertLone, CreateEntryLone, DeleteTimerLone, ListCardsLone, StrandLone, PlaceLone,
   ReadEvidenceLone, RevertLone, CheckCompleteLone, WriteTaskLone, PauseBlockedLone DEF Step, Puts

\* Tick keeps what a request alone relies on.
LEMMA TickLone ==
  ASSUME Lone, Tick
  PROVE  Lone'
BY SameLone DEF Tick, books, client, table

\* At first no request is in flight.
LEMMA InitLone == Init => Lone /\ Fresh
BY DEF Init, Lone, Alone, Idle, Fresh

\* A request that leaves saves nothing, and ids stay born.
LEMMA SendKeeps ==
  ASSUME NEW tab, NEW kind, NEW i, NEW slot, NEW t, NEW on, Send(tab, kind, i, slot, t, on)
  PROVE  saved' = saved /\ born \subseteq born'
BY DEF Send, books

\* An id not born yet was never saved.
LEMMA FreshNext ==
  ASSUME Typed, Fresh, [Next]_vars
  PROVE  Fresh'
<1>1. CASE \E tab \in Tabs : CreateEntry(tab)
  <2>1. PICK tab \in Tabs : CreateEntry(tab)
    BY <1>1
  <2> DEFINE i == IF req[tab].at = NoTimer THEN req[tab].id ELSE req[tab].at
  <2>2. Fit(req[tab], now, born) /\ req[tab].pc = "entry" /\ req[tab] \in Requests
    BY <2>1 DEF CreateEntry, At, Typed
  <2>3. req[tab].kind \in Saves
    BY <2>2 DEF Fit, Route, Requests, AllKinds, TaskStarts, Saves
  <2>4. i \in born
    BY <2>2, <2>3 DEF Fit, Carried, Known, Saves
  <2>5. saved' = [saved EXCEPT ![i] = @ + 1] /\ born' = born
    BY <2>1 DEF CreateEntry, client
  <2> HIDE DEF i
  <2> QED
    BY <2>4, <2>5 DEF Fresh, Typed, Counted
<1>2. CASE ~ \E tab \in Tabs : CreateEntry(tab)
  <2>1. saved' = saved /\ born \subseteq born'
    <3>1. ASSUME NEW tab \in Tabs, Request(tab) PROVE saved' = saved /\ born \subseteq born'
      BY <3>1, SendKeeps DEF Request, SendSave, SendBySlot, SendTaskTimer, SendTask
    <3>2. ASSUME NEW tab \in Tabs, Step(tab), ~CreateEntry(tab) PROVE saved' = saved /\ born' = born
      BY <3>2 DEF Step, ReadTask, ReadTaskTimer, MoveTask, ReadSlot, PauseOthers, Upsert, Stored, Convert, DeleteTimer,
         ListCards, Strand, Place, ReadEvidence, Revert, CheckComplete, WriteTask, PauseBlocked, books, client
    <3>3. ASSUME NEW tab \in Tabs, Erring(tab) PROVE saved' = saved /\ born' = born
      BY <3>3 DEF Erring, StatementFails, AuditFails, AnswerFails, Stored, books, client
    <3>4. CASE Crash \/ Tick \/ UNCHANGED vars
      BY <3>4 DEF Crash, Tick, vars, books, client
    <3> QED
      BY <1>2, <3>1, <3>2, <3>3, <3>4 DEF Next, Erring
  <2> QED
    BY <2>1 DEF Fresh
<1> QED
  BY <1>1, <1>2

\* Every step keeps what requests alone rely on.
LEMMA LoneNext ==
  ASSUME Typed, Lone, Fresh, [Next]_vars
  PROVE  Lone'
<1>1. CASE UNCHANGED vars
  BY <1>1, SameLone DEF vars, books, client
<1> QED
  BY <1>1, RequestLone, StepLone, ErringLone, CrashLone, TickLone DEF Next, Erring

\* A statement of one request leaves the other requests alone.
LEMMA StepOfOne ==
  ASSUME Typed, NEW u \in Tabs, NEW v \in Tabs \ {u}, Step(u) \/ Erring(u)
  PROVE  req'[v] = req[v]
<1>0. req \in [Tabs -> Requests]
  BY DEF Typed
<1>1. CASE ReadTask(u)
  BY <1>0, <1>1 DEF ReadTask, Done
<1>2. CASE ReadTaskTimer(u)
  BY <1>0, <1>2 DEF ReadTaskTimer
<1>3. CASE MoveTask(u) \/ PauseOthers(u) \/ CreateEntry(u) \/ Revert(u) \/ PauseBlocked(u)
  BY <1>0, <1>3 DEF MoveTask, PauseOthers, CreateEntry, Revert, PauseBlocked, Goto, Done
<1>4. CASE ReadSlot(u)
  BY <1>0, <1>4 DEF ReadSlot, Done, Caught, Goto
<1>5. CASE Upsert(u) \/ Convert(u) \/ Erring(u)
  BY <1>0, <1>5 DEF Upsert, Stored, Convert, Erring, StatementFails, AuditFails, AnswerFails, ErrorAt, Goto, Done, Caught
<1>6. CASE DeleteTimer(u) \/ ListCards(u) \/ CheckComplete(u) \/ WriteTask(u) \/ ReadEvidence(u)
  BY <1>0, <1>6 DEF DeleteTimer, ListCards, CheckComplete, WriteTask, ReadEvidence, Goto, Done
<1>7. CASE Strand(u) \/ Place(u)
  BY <1>0, <1>7 DEF Strand, Place, Rename, Goto, Done, Caught
<1> QED
  BY <1>1, <1>2, <1>3, <1>4, <1>5, <1>6, <1>7 DEF Step

\* A request leaves from a tab that has none, and moves no other request.
LEMMA SendOfOne ==
  ASSUME Typed, NEW u \in Tabs, Request(u)
  PROVE  req[u].pc = "idle" /\ \A v \in Tabs \ {u} : req'[v].pc = req[v].pc
<1>1. ASSUME NEW kind, NEW i, NEW slot, NEW t, NEW on, Send(u, kind, i, slot, t, on)
      PROVE  req[u].pc = "idle" /\ \A v \in Tabs \ {u} : req'[v].pc = req[v].pc
  <2>1. req[u].pc = "idle"
    BY <1>1 DEF Send
  <2>2. ASSUME NEW v \in Tabs \ {u} PROVE req'[v].pc = req[v].pc
    <3>1. req'[v] = Joined(req[v]) /\ req[v] \in Requests
      BY <1>1, SendLeaves DEF Typed
    <3> QED
      BY <3>1 DEF Joined, Requests
  <2> QED
    BY <2>1, <2>2
<1> QED
  BY <1>1 DEF Request, SendSave, SendBySlot, SendTaskTimer, SendTask

\* A request that is answered, other than by the death of the server, has made a step.
LEMMA Answered ==
  ASSUME Typed, [Next]_vars, NEW tab \in Tabs, req[tab].pc # "idle", req'[tab].pc = "idle", crashes' = crashes
  PROVE  Step(tab) \/ Erring(tab)
<1>1. ~Crash
  BY DEF Crash, Typed, Counted
<1>2. ~Tick /\ ~UNCHANGED vars
  BY DEF Tick, vars
<1>3. PICK u \in Tabs : Request(u) \/ Step(u) \/ Erring(u)
  BY <1>1, <1>2 DEF Next, Erring
<1>4. u = tab
  BY <1>3, StepOfOne, SendOfOne
<1> QED
  BY <1>3, <1>4, SendOfOne

\* The row in a task's source slot is the task's.
LEMMA SourceRow ==
  ASSUME Typed, NEW t \in Tasks, NEW i \in InSlot(SourceOf(t))
  PROVE  i \in OfTask(t)
<1>1. timers[i].slot = SourceOf(timers[i].src) /\ timers[i].slot = SourceOf(t)
  BY DEF Typed, Tabled, OneRowEach, InSlot, SourceOf
<1> QED
  BY <1>1 DEF SourceOf, InSlot, OfTask

\* Alone, an upsert is refused by the unique source index only for a timer out of its slot.
LEMMA Refused ==
  ASSUME Typed, NEW tab \in Tabs, req[tab].pc = "upsert", InStep(req[tab]),
         \/ InSlot(req[tab].slot) = {} /\ Target(req[tab]) \in Existing
         \/ Written(req[tab]).src # NoTask /\ OfTask(Written(req[tab]).src) \ {Target(req[tab])} # {}
  PROVE  InSlot(req[tab].slot) = {} /\ OfTask(req[tab].task) # {}
<1>1. PICK r : r = req[tab]
  OBVIOUS
<1>2. /\ r.kind \in {"save", "status"} \union TaskStarts \union {"pauseTask"} /\ Fit(r, now, born) /\ r.pc = "upsert"
      /\ r.kind # "status" => Written(r).src = r.task
      /\ r.kind = "status" => Written(r).src = r.row.src
  BY <1>1, WrittenRow DEF Typed
<1>3. PICK i : i = Target(r)
  OBVIOUS
<1>5. InSlot(r.slot) = {} => i = IF r.kind = "status" THEN r.at ELSE r.id
  BY <1>3 DEF Target
<1>6. CASE r.kind = "status"
  <2>1. r.id \in Cards /\ timers[r.id].slot = r.slot /\ r.row = timers[r.id]
    BY <1>1, <1>2, <1>6 DEF InStep, Named, Holds, Early, ByCard
  <2>2. InSlot(r.slot) # {} /\ Written(r).src = NoTask
    BY <1>2, <1>6, <2>1 DEF Cards, InSlot
  <2> QED
    BY <1>1, <2>2
<1>7. CASE r.kind = "save"
  <2>1. r.id \in Existing => InSlot(r.slot) # {}
    BY <1>1, <1>2, <1>7 DEF InStep, Named, Early, InSlot
  <2>2. Written(r).src = NoTask
    BY <1>2, <1>7 DEF Fit, Carried, Manuals
  <2> QED
    BY <1>1, <1>3, <1>5, <1>7, <2>1, <2>2
<1>8. CASE r.kind \in TaskStarts \union {"pauseTask"}
  <2>1. IF r.id \in Existing THEN r.id \in OfTask(r.task) ELSE OfTask(r.task) = {}
    <3>1. r.kind = "pauseTask" => r.id \in OfTask(r.task) /\ r.id \in Existing
      BY <1>1, <1>2 DEF InStep, Named, Early, ByTask, OfTask
    <3> QED
      BY <1>1, <1>2, <1>8, <3>1 DEF InStep, Named, Early
  <2>2. r.task \in Tasks /\ r.slot = SourceOf(r.task) /\ Written(r).src = r.task
    BY <1>2, <1>8 DEF Fit, Carried, TaskStarts, Manuals, ByTask
  <2>3. CASE InSlot(r.slot) = {}
    <3>1. i = r.id
      BY <1>5, <1>8, <2>3 DEF TaskStarts
    <3> QED
      BY <1>1, <1>3, <2>1, <2>2, <2>3, <3>1
  <2>4. CASE InSlot(r.slot) # {}
    <3>1. i \in InSlot(r.slot)
      BY <1>3, <2>4, InOneSlot DEF Target
    <3>2. i \in OfTask(r.task)
      BY <2>2, <3>1, SourceRow
    <3>3. OfTask(r.task) \ {i} = {}
      BY <2>2, <3>2, OfOneTask
    <3> QED
      BY <1>1, <1>3, <2>2, <2>4, <3>3
  <2> QED
    BY <2>3, <2>4
<1> QED
  BY <1>2, <1>6, <1>7, <1>8

\* Alone, a started timer is the one that runs, or the start was refused and none runs.
LEMMA OneStarts ==
  ASSUME Typed, NEW tab \in Tabs, InStep(req[tab]), Puts(tab), req[tab].on = "running"
  PROVE  \/ \E i \in Ids : Running' = {i} /\ timers'[i].slot = req[tab].slot
         \/ Running' = {} /\ OfTask(req[tab].task) # {} /\ InSlot(req[tab].slot) = {}
<1>1. PICK r : r = req[tab]
  OBVIOUS
<1>2. PICK i : i = Target(r)
  OBVIOUS
<1>3. PICK row : row = Written(r)
  OBVIOUS
<1>4. r.pc = "upsert" /\ row \in Rows /\ row.slot = r.slot /\ row.status = "running" /\ i \in Ids
  BY <1>1, <1>2, <1>3, WrittenRow DEF Puts, Upsert, AnswerFails, Stored, At, Typed, Counted
<1>5. Running \subseteq InSlot(r.slot)
  BY <1>1, <1>4 DEF InStep, Stopped
<1>6. InSlot(r.slot) \subseteq {i}
  BY <1>2, InOneSlot DEF Target
<1>7. PICK holder : holder = One(InSlot(r.slot))
  OBVIOUS
<1>8. holder = NoTimer <=> InSlot(r.slot) = {}
  BY <1>7, OneIn DEF InSlot, Existing
<1>9. CASE timers' = [timers EXCEPT ![i] = row]
  <2>1. timers'[i] = row /\ \A j \in Ids \ {i} : timers'[j] = timers[j]
    BY <1>4, <1>9 DEF Typed, Tabled
  <2>2. Running' = {i}
    BY <1>4, <1>5, <1>6, <2>1, NoRowAssumption DEF Running, Existing
  <2> QED
    BY <1>1, <1>4, <2>1, <2>2
<1>10. CASE timers' # [timers EXCEPT ![i] = row]
  <2>1. timers' = timers /\ ((InSlot(r.slot) = {} /\ i \in Existing) \/ (Written(r).src # NoTask /\ OfTask(Written(r).src) \ {i} # {}))
    BY <1>1, <1>2, <1>3, <1>7, <1>8, <1>10 DEF Puts, Upsert, AnswerFails, Stored
  <2>2. InSlot(r.slot) = {} /\ OfTask(r.task) # {}
    BY <1>1, <1>2, <1>4, <2>1, Refused
  <2>3. Running' = {}
    BY <1>5, <2>1, <2>2 DEF Running, Existing
  <2> QED
    BY <1>1, <2>2, <2>3
<1> QED
  BY <1>9, <1>10

\* A request that starts a timer and is answered without another in flight leaves exactly that
\* timer running, or was refused for a timer out of its slot.
THEOREM StartAloneHolds == Spec => StartAlone
<1>1. ASSUME Typed, Lone, [Next]_vars, NEW tab \in Tabs,
             req[tab].pc = "upsert", req'[tab].pc = "idle", faults' = faults, req[tab].alone, req[tab].on = "running"
      PROVE  \/ \E i \in Ids : Running' = {i} /\ timers'[i].slot = req[tab].slot
             \/ Running' = {} /\ OfTask(req[tab].task) # {} /\ InSlot(req[tab].slot) = {}
  <2>1. Step(tab) \/ Erring(tab)
    BY <1>1, Answered DEF faults
  <2>2. ~Erring(tab)
    BY <1>1 DEF Erring, StatementFails, AuditFails, AnswerFails, Fails, faults, Typed, Counted
  <2>3. Upsert(tab)
    BY <1>1, <2>1, <2>2 DEF Step, ReadTask, ReadTaskTimer, MoveTask, ReadSlot, PauseOthers, Convert, CreateEntry, DeleteTimer,
         ListCards, Strand, Place, ReadEvidence, Revert, CheckComplete, WriteTask, PauseBlocked, At
  <2>4. InStep(req[tab])
    BY <1>1 DEF Lone, Alone
  <2> QED
    BY <1>1, <2>3, <2>4, OneStarts DEF Puts
<1>2. Init /\ [][Next]_vars => [](Typed /\ Lone /\ Fresh)
  <2>1. Init => Typed /\ Lone /\ Fresh
    BY InitTyped, InitLone
  <2>2. Typed /\ Lone /\ Fresh /\ [Next]_vars => (Typed /\ Lone /\ Fresh)'
    BY NextTyped, LoneNext, FreshNext
  <2> QED
    BY <2>1, <2>2, PTL
<1>3. Typed /\ Lone /\ Fresh /\ [Next]_vars =>
        [\A tab \in Tabs :
           /\ req[tab].pc = "upsert" /\ req'[tab].pc = "idle" /\ faults' = faults
           /\ req[tab].alone /\ req[tab].on = "running"
           => \/ \E i \in Ids : Running' = {i} /\ timers'[i].slot = req[tab].slot
              \/ Running' = {} /\ OfTask(req[tab].task) # {} /\ InSlot(req[tab].slot) = {}]_vars
  BY <1>1
<1> QED
  BY <1>2, <1>3, PTL DEF Spec, StartAlone

\* An error after a start goes on to give back the status of the task.
LEMMA CaughtStart ==
  ASSUME Typed, NEW tab \in Tabs, req[tab].kind \in Starts, req[tab].was \in {"open", "blocked"}, Caught(tab)
  PROVE  req'[tab].pc # "idle"
<1>1. req' = [req EXCEPT ![tab].pc = "evidence"] /\ req[tab] \in Requests
  BY DEF Caught, Goto, Starts, NotMoved, Typed
<1> QED
  BY <1>1 DEF Requests, Typed

\* Goto names the next step.
LEMMA GotoOn ==
  ASSUME Typed, NEW tab \in Tabs, NEW p \in Steps, Goto(tab, p)
  PROVE  req'[tab].pc = p
BY DEF Goto, Typed, Requests

\* Alone, a start ends with the task's timer in the table or the task's status given back.
LEMMA StartEnds ==
  ASSUME Typed, NEW tab \in Tabs, InStep(req[tab]), Step(tab) \/ Erring(tab), req[tab].pc # "idle", req'[tab].pc = "idle",
         req[tab].kind \in Starts, req[tab].was \in {"open", "blocked"}, ~Irreparable(tab)
  PROVE  \/ task'[req[tab].task] = req[tab].was
         \/ \E i \in Ids : timers'[i] # NoTimer /\ timers'[i].src = req[tab].task
<1>0. PICK r : r = req[tab]
  OBVIOUS
<1>1. Fit(r, now, born) /\ r \in Requests /\ r.task \in Tasks /\ r.kind \in Starts /\ r.kind \notin {"status", "save"}
  BY <1>0 DEF Typed, Fit, Carried, Manuals, Starts, TaskStarts
<1>2. r.pc \in {"task", "timer", "move", "read", "others", "upsert", "convert", "list", "strand", "place", "evidence", "revert"}
      /\ (r.kind # "link" => r.pc \notin {"read", "convert", "list", "strand", "place"})
  BY <1>0, <1>1 DEF Fit, Route, Starts
<1>3. ~Caught(tab)
  BY <1>0, <1>1, CaughtStart
<1>4. CASE StatementFails(tab)
  <2>1. r.pc \in {"task", "timer", "move"} /\ task' = task
    BY <1>0, <1>2, <1>3, <1>4 DEF StatementFails, ErrorAt, Fails, Guarded, Irreparable, Typed, Counted, table
  <2>2. r.pc # "task"
    BY <1>0, <1>1, <2>1 DEF Fit, Known, NotMoved
  <2>3. task[r.task] = r.was
    BY <1>0, <1>1, <2>1, <2>2 DEF InStep, Begun
  <2> QED
    BY <1>0, <2>1, <2>3
<1>4a. CASE AuditFails(tab)
  <2>1. task' = task
    BY <1>4a DEF AuditFails, Fails, Irreparable, Typed, Counted
  <2>2. task[r.task] = r.was
    BY <1>0, <1>1, <1>4a DEF AuditFails, At, InStep, Begun
  <2> QED
    BY <1>0, <2>1, <2>2
<1>4b. CASE AnswerFails(tab)
  BY <1>3, <1>4b DEF AnswerFails, Stored
<1>5. CASE ReadTask(tab)
  BY <1>0, <1>1, <1>5 DEF ReadTask, At, Fit, Known, NotMoved
<1>6. CASE ReadTaskTimer(tab)
  <2>1. PICK i : i = One(OfTask(r.task))
    OBVIOUS
  <2>2. CASE r.kind = "link" /\ i # NoTimer
    <3>1. i \in OfTask(r.task)
      BY <2>1, <2>2, OfOneTask, OneIn, <1>1 DEF OfTask, Existing
    <3> QED
      BY <1>0, <1>6, <3>1 DEF ReadTaskTimer, table, OfTask, Existing
  <2>3. CASE ~(r.kind = "link" /\ i # NoTimer)
    <3>1. PICK row : row = IF i = NoTimer THEN NoTimer ELSE timers[i]
      OBVIOUS
    <3>2. req' = [req EXCEPT ![tab] = [[r EXCEPT !.at = i, !.row = row] EXCEPT !.pc = "move"]]
      BY <1>0, <1>1, <1>6, <2>1, <2>3, <3>1 DEF ReadTaskTimer, Starts
    <3>3. req'[tab].pc = "move"
      BY <1>0, <1>1, <3>2 DEF Typed, Requests
    <3> QED
      BY <3>3
  <2> QED
    BY <2>2, <2>3
<1>7. CASE MoveTask(tab)
  BY <1>7, GotoOn DEF MoveTask, Steps
<1>8. CASE ReadSlot(tab)
  <2>1. r.kind = "link"
    BY <1>0, <1>2, <1>8 DEF ReadSlot, At
  <2>2. PICK i : i = One(InSlot(r.slot))
    OBVIOUS
  <2>3. PICK row : row = IF i = NoTimer THEN NoTimer ELSE timers[i]
    OBVIOUS
  <2>4. req' = [req EXCEPT ![tab] = [[r EXCEPT !.at = i, !.row = row] EXCEPT !.pc = "convert"]]
    BY <1>0, <1>3, <1>8, <2>1, <2>2, <2>3 DEF ReadSlot
  <2>5. req'[tab].pc = "convert"
    BY <1>0, <1>1, <2>4 DEF Typed, Requests
  <2> QED
    BY <2>5
<1>9. CASE PauseOthers(tab)
  BY <1>9, GotoOn DEF PauseOthers, Steps
<1>10. CASE Upsert(tab)
  <2>1. PICK i \in Ids : i = Target(r)
    BY <1>0, <1>10, WrittenRow DEF Upsert, Stored, At, Typed, Counted
  <2>2. timers' = [timers EXCEPT ![i] = Written(r)]
    BY <1>0, <1>3, <1>10, <2>1 DEF Upsert, Stored
  <2>3. Written(r) \in Rows /\ Written(r).src = r.task
    BY <1>0, <1>1, <1>10, WrittenRow DEF Upsert, Stored, At
  <2>4. timers'[i] = Written(r)
    BY <2>2 DEF Typed, Tabled
  <2> QED
    BY <1>0, <2>1, <2>3, <2>4, NoRowAssumption
<1>11. CASE Convert(tab)
  <2>1. Goto(tab, "list")
    BY <1>3, <1>11 DEF Convert
  <2> QED
    BY <2>1, GotoOn DEF Steps
<1>12. CASE ListCards(tab)
  <2>1. OfTask(r.task) # {}
    BY <1>0, <1>1, <1>2, <1>12 DEF ListCards, At, InStep, Linked
  <2> QED
    BY <1>0, <1>12, <2>1 DEF ListCards, table, OfTask, Existing
<1>13. ASSUME NEW slot \in Slots, NEW next, Rename(tab, slot, next), r.pc \in {"strand", "place"}
       PROVE  \E i \in Ids : timers'[i] # NoTimer /\ timers'[i].src = r.task
  <2>1. OfTask(r.task) # {}
    BY <1>0, <1>1, <1>2, <1>13 DEF InStep, Linked
  <2>2. PICK i : i = r.order[r.at]
    OBVIOUS
  <2>3. OfTask(r.task)' = OfTask(r.task)
    <3>1. CASE timers' = timers
      BY <3>1 DEF OfTask, Existing
    <3>2. CASE timers' # timers
      <4>1. i \in Existing /\ timers' = [timers EXCEPT ![i].slot = slot]
        BY <1>0, <1>13, <2>2, <3>2 DEF Rename
      <4> QED
        BY <4>1, RenamedRows
    <3> QED
      BY <3>1, <3>2
  <2> QED
    BY <2>1, <2>3 DEF OfTask, Existing
<1>14. CASE Strand(tab)
  <2>1. r.at \in 1..Len(r.order) /\ r.order \in Seq(Ids) /\ r.pc = "strand"
    BY <1>0, <1>1, <1>14 DEF Strand, At, Fit, Known, Requests
  <2>2. <<"compact", r.order[r.at]>> \in Slots
    BY <2>1 DEF Slots
  <2> QED
    BY <1>0, <1>13, <1>14, <2>1, <2>2 DEF Strand
<1>15. CASE Place(tab)
  <2>1. r.at \in 1..Len(r.order) /\ r.order \in Seq(Ids) /\ r.pc = "place" /\ Len(r.order) <= MaxSlot
    BY <1>0, <1>1, <1>15 DEF Place, At, Fit, Known, Requests
  <2>2. <<"manual", r.at>> \in Slots
    BY <2>1, BoundAssumption DEF Slots
  <2> QED
    BY <1>0, <1>13, <1>15, <2>1, <2>2 DEF Place
<1>16. CASE ReadEvidence(tab)
  <2>1. task[r.task] = "in_progress" /\ r.kind # "discardTask"
    BY <1>0, <1>1, <1>16 DEF ReadEvidence, At, InStep, Begun, Starts, TaskStarts
  <2>2. req' = [req EXCEPT ![tab] = [r EXCEPT !.was = r.was, !.pc = "revert"]]
    BY <1>0, <1>1, <1>16, <2>1 DEF ReadEvidence, Typed
  <2>3. req'[tab].pc = "revert"
    BY <1>0, <1>1, <2>2 DEF Typed, Requests
  <2> QED
    BY <2>3
<1>17. CASE Revert(tab)
  BY <1>0, <1>1, <1>17 DEF Revert, Typed, Counted
<1>18. CASE CreateEntry(tab) \/ DeleteTimer(tab) \/ CheckComplete(tab) \/ WriteTask(tab) \/ PauseBlocked(tab)
  BY <1>0, <1>2, <1>18 DEF CreateEntry, DeleteTimer, CheckComplete, WriteTask, PauseBlocked, At
<1> QED
  BY <1>0, <1>4, <1>4a, <1>4b, <1>5, <1>6, <1>7, <1>8, <1>9, <1>10, <1>11, <1>12, <1>14, <1>15, <1>16, <1>17, <1>18 DEF Step, Erring

\* A start that fails after it has moved its task, with nothing else in flight, gives back the
\* status the task had unless the timer is there, or the statements that give it back fail too.
THEOREM FailedStartRestoresHolds == Spec => FailedStartRestores
<1>1. ASSUME Typed, Lone, [Next]_vars, NEW tab \in Tabs,
             req[tab].pc # "idle", req'[tab].pc = "idle", crashes' = crashes,
             req[tab].alone, req[tab].kind \in TaskStarts \union {"link"}, req[tab].was \in {"open", "blocked"},
             \A i \in Ids : timers'[i] # NoTimer => timers'[i].src # req[tab].task,
             ~Irreparable(tab)
      PROVE  task'[req[tab].task] = req[tab].was
  <2>1. Step(tab) \/ Erring(tab)
    BY <1>1, Answered
  <2>2. InStep(req[tab]) /\ req[tab].kind \in Starts
    BY <1>1 DEF Lone, Alone, Starts
  <2> QED
    BY <1>1, <2>1, <2>2, StartEnds
<1>2. Init /\ [][Next]_vars => [](Typed /\ Lone /\ Fresh)
  <2>1. Init => Typed /\ Lone /\ Fresh
    BY InitTyped, InitLone
  <2>2. Typed /\ Lone /\ Fresh /\ [Next]_vars => (Typed /\ Lone /\ Fresh)'
    BY NextTyped, LoneNext, FreshNext
  <2> QED
    BY <2>1, <2>2, PTL
<1>3. Typed /\ Lone /\ Fresh /\ [Next]_vars =>
        [\A tab \in Tabs :
           /\ req[tab].pc # "idle" /\ req'[tab].pc = "idle" /\ crashes' = crashes
           /\ req[tab].alone /\ req[tab].kind \in TaskStarts \union {"link"}
           /\ req[tab].was \in {"open", "blocked"}
           /\ \A i \in Ids : timers'[i] # NoTimer => timers'[i].src # req[tab].task
           /\ ~Irreparable(tab)
           => task'[req[tab].task] = req[tab].was]_vars
  BY <1>1
<1> QED
  BY <1>2, <1>3, PTL DEF Spec, FailedStartRestores

\* Requests one at a time: each is alone, a task's timer is in its source slot, one timer runs.
Single == \A tab \in Tabs : req[tab].pc # "idle" => req[tab].alone
Placed == \A i \in Existing : timers[i].src # NoTask => timers[i].slot = SourceOf(timers[i].src)
OneRuns == \A i, j \in Running : i = j
Solo == Apart => Single /\ Placed /\ OneRuns

\* One at a time, the request in flight may rely on what it has read.
LEMMA SingleAlone ==
  ASSUME Lone, Single, NEW tab \in Tabs, req[tab].pc # "idle"
  PROVE  InStep(req[tab]) /\ \A u \in Tabs \ {tab} : req[u].pc = "idle"
BY DEF Lone, Single, Alone

\* The step that may follow another
Ahead(p, q) ==
  \/ p = "task" /\ q \in {"check", "write", "timer"}
  \/ p = "timer" /\ q \in {"move", "others", "upsert", "read", "delete", "entry"}
  \/ p = "move" /\ q \in {"read", "others"}
  \/ p = "read" /\ q \in {"others", "upsert", "entry", "convert", "evidence"}
  \/ p = "others" /\ q = "upsert"
  \/ p = "upsert" /\ q = "evidence"
  \/ p = "convert" /\ q \in {"list", "evidence"}
  \/ p = "entry" /\ q = "delete"
  \/ p = "delete" /\ q \in {"list", "evidence"}
  \/ p = "list" /\ q = "strand"
  \/ p = "strand" /\ q \in {"strand", "place", "evidence"}
  \/ p = "place" /\ q \in {"place", "evidence"}
  \/ p = "evidence" /\ q = "revert"
  \/ p = "check" /\ q = "write"
  \/ p = "write" /\ q = "quiet"

\* The time that a finalization books
Due(r) == LET i == IF r.kind = "finalizeTask" THEN One(OfTask(r.task)) ELSE One(InSlot(r.slot))
          IN  Larger(1, IF i = NoTimer THEN r.sent ELSE Elapsed(timers[i]))

\* A request goes on as itself, or is answered.
Goes(new, r) == /\ Same(new, r) /\ Ahead(r.pc, new.pc)
                /\ new.pc = "delete" /\ r.pc = "timer" => r.kind = "discardTask"
                /\ new.sent = IF new.pc = "entry" THEN Due(r) ELSE r.sent

\* A statement ends its request or brings it to a later step.
LEMMA Onward ==
  ASSUME Typed, NEW tab \in Tabs, Step(tab)
  PROVE  \/ req'[tab] = Idle
         \/ /\ Goes(req'[tab], req[tab])
            /\ req'[tab].pc = "evidence" => Caught(tab) \/ (req[tab].pc = "delete" /\ req[tab].kind = "discardTask")
<1>0. req \in [Tabs -> Requests] /\ req[tab] \in Requests
  BY DEF Typed
<1> SUFFICES ASSUME ~Done(tab), req'[tab] # Idle
             PROVE  /\ Goes(req'[tab], req[tab])
                    /\ req'[tab].pc = "evidence" => Caught(tab) \/ (req[tab].pc = "delete" /\ req[tab].kind = "discardTask")
  BY <1>0 DEF Done
<1>a. PICK r : r = req[tab]
  OBVIOUS
<1>b. PICK new : new = req'[tab]
  OBVIOUS
<1>c. ASSUME NEW p, Goto(tab, p) PROVE new.pc = p /\ new.sent = r.sent /\ Same(new, r)
  BY <1>0, <1>a, <1>b, <1>c DEF Goto, Requests, Same
<1>d. Caught(tab) => new.pc = "evidence" /\ new.sent = r.sent /\ Same(new, r)
  BY <1>c DEF Caught
<1>1. CASE ReadTask(tab)
  <2>1. PICK p : p = CASE r.kind = "complete" -> "check" [] r.kind = "setTask" -> "write" [] OTHER -> "timer"
    OBVIOUS
  <2>2. req' = [req EXCEPT ![tab].was = task[r.task], ![tab].pc = p]
    BY <1>1, <1>a, <2>1 DEF ReadTask
  <2>3. new = [r EXCEPT !.was = task[r.task], !.pc = p]
    BY <1>0, <1>a, <1>b, <2>2
  <2>4. new.pc = p /\ new.sent = r.sent /\ Same(new, r) /\ p \in {"check", "write", "timer"}
    BY <1>0, <1>a, <2>1, <2>3 DEF Requests, Same
  <2> QED
    BY <1>1, <1>a, <1>b, <2>4 DEF ReadTask, At, Goes, Ahead
<1>2. CASE ReadTaskTimer(tab)
  <2>2. PICK i : i = One(OfTask(r.task))
    OBVIOUS
  <2>3. PICK row : row = IF i = NoTimer THEN NoTimer ELSE timers[i]
    OBVIOUS
  <2>4. PICK kept : kept = IF i = NoTimer THEN NotMoved ELSE timers[i].moved
    OBVIOUS
  <2>5. PICK sent : sent = Larger(1, IF i = NoTimer THEN r.sent ELSE Elapsed(timers[i]))
    OBVIOUS
  <2>6. PICK seen : seen = [r EXCEPT !.at = i, !.row = row]
    OBVIOUS
  <2>7. req' = [req EXCEPT ![tab] =
           IF r.kind = "link" /\ i # NoTimer THEN Idle
           ELSE IF r.kind \in TaskStarts \union {"link"} /\ r.was \in {"open", "blocked"} THEN [seen EXCEPT !.pc = "move"]
           ELSE
           CASE r.kind \in TaskStarts -> [seen EXCEPT !.was = kept, !.pc = "others"]
             [] r.kind = "pauseTask" -> [seen EXCEPT !.was = kept, !.pc = "upsert"]
             [] r.kind = "link" -> [seen EXCEPT !.was = NotMoved, !.pc = "read"]
             [] r.kind = "discardTask" -> [seen EXCEPT !.pc = "delete"]
             [] r.kind = "finalizeTask" -> [seen EXCEPT !.pc = "entry", !.sent = sent]]
    BY <1>2, <1>a, <2>2, <2>3, <2>4, <2>5, <2>6 DEF ReadTaskTimer
  <2>8. r.kind \in TaskStarts \union {"pauseTask", "link", "discardTask", "finalizeTask"} /\ r.pc = "timer"
    BY <1>2, <1>a DEF ReadTaskTimer, At, Typed, Fit, Route, Requests, AllKinds, TaskStarts
  <2>9. DOMAIN seen = DOMAIN r /\ seen.sent = r.sent /\ Same(seen, r)
    BY <1>0, <1>a, <2>6 DEF Requests, Same
  <2>10. \/ new \in {[seen EXCEPT !.pc = "move"], [seen EXCEPT !.was = kept, !.pc = "others"],
                     [seen EXCEPT !.was = kept, !.pc = "upsert"], [seen EXCEPT !.was = NotMoved, !.pc = "read"]}
         \/ r.kind = "discardTask" /\ new = [seen EXCEPT !.pc = "delete"]
         \/ r.kind = "finalizeTask" /\ new = [seen EXCEPT !.pc = "entry", !.sent = sent]
    BY <1>0, <1>b, <2>7, <2>8
  <2>11. {"kind", "slot", "task", "id", "on", "since", "alone", "pc", "sent", "was"} \subseteq DOMAIN seen
    BY <1>0, <1>a, <2>9 DEF Requests
  <2>12. /\ Same(new, r)
         /\ \/ new.pc \in {"move", "others", "upsert", "read"} /\ new.sent = r.sent
            \/ new.pc = "delete" /\ r.kind = "discardTask" /\ new.sent = r.sent
            \/ new.pc = "entry" /\ r.kind = "finalizeTask" /\ new.sent = sent
    BY <2>9, <2>10, <2>11 DEF Same
  <2>13. r.kind = "finalizeTask" => Due(r) = sent
    BY <2>2, <2>5 DEF Due
  <2> QED
    BY <1>a, <1>b, <2>8, <2>12, <2>13 DEF Goes, Ahead
<1>3. CASE ReadSlot(tab)
  <2>2. PICK i : i = One(InSlot(r.slot))
    OBVIOUS
  <2>3. PICK row : row = IF i = NoTimer THEN NoTimer ELSE timers[i]
    OBVIOUS
  <2>4. PICK sent : sent = Larger(1, IF i = NoTimer THEN r.sent ELSE Elapsed(timers[i]))
    OBVIOUS
  <2>5. PICK seen : seen = [r EXCEPT !.at = i, !.row = row]
    OBVIOUS
  <2>6. PICK p : p = BeforeUpsert(r.on) /\ p \in {"others", "upsert"}
    BY DEF BeforeUpsert
  <2>7. r.pc = "read"
    BY <1>3, <1>a DEF ReadSlot, At
  <2>8. \/ Caught(tab)
        \/ new \in {[seen EXCEPT !.pc = p], [seen EXCEPT !.pc = "convert"]}
        \/ r.kind = "finalize" /\ new = [seen EXCEPT !.pc = "entry", !.sent = sent]
    BY <1>0, <1>3, <1>a, <1>b, <2>2, <2>3, <2>4, <2>5, <2>6 DEF ReadSlot
  <2>9. DOMAIN seen = DOMAIN r /\ seen.sent = r.sent /\ Same(seen, r)
    BY <1>0, <1>a, <2>5 DEF Requests, Same
  <2>10. {"kind", "slot", "task", "id", "on", "since", "alone", "pc", "sent"} \subseteq DOMAIN seen
    BY <1>0, <1>a, <2>9 DEF Requests
  <2>11. \/ Caught(tab)
         \/ /\ Same(new, r)
            /\ \/ new.pc \in {"others", "upsert", "convert"} /\ new.sent = r.sent
               \/ new.pc = "entry" /\ r.kind = "finalize" /\ new.sent = sent
    BY <2>6, <2>8, <2>9, <2>10 DEF Same
  <2>12. r.kind = "finalize" => Due(r) = sent
    BY <2>2, <2>4 DEF Due
  <2> QED
    BY <1>a, <1>b, <1>d, <2>7, <2>11, <2>12 DEF Goes, Ahead
<1>4. CASE MoveTask(tab) \/ PauseOthers(tab) \/ CreateEntry(tab) \/ Revert(tab) \/ PauseBlocked(tab) \/ CheckComplete(tab)
  BY <1>4, <1>a, <1>b, <1>c DEF MoveTask, PauseOthers, CreateEntry, Revert, PauseBlocked, CheckComplete, At, Goes, Ahead
<1>5. CASE Upsert(tab) \/ Convert(tab) \/ WriteTask(tab)
  BY <1>5, <1>a, <1>b, <1>c, <1>d DEF Upsert, Stored, Convert, WriteTask, At, Goes, Ahead
<1>6. CASE DeleteTimer(tab)
  BY <1>6, <1>a, <1>b, <1>c DEF DeleteTimer, At, Goes, Ahead
<1>7. CASE ListCards(tab)
  <2>1. PICK s : req' = [req EXCEPT ![tab].order = s, ![tab].at = 1, ![tab].pc = "strand"]
    BY <1>7 DEF ListCards
  <2>2. new = [r EXCEPT !.order = s, !.at = 1, !.pc = "strand"]
    BY <1>0, <1>a, <1>b, <2>1
  <2>3. new.pc = "strand" /\ new.sent = r.sent /\ Same(new, r)
    BY <1>0, <1>a, <2>2 DEF Requests, Same
  <2> QED
    BY <1>7, <1>a, <1>b, <2>3 DEF ListCards, At, Goes, Ahead
<1>8. CASE ReadEvidence(tab)
  <2>1. PICK w : req' = [req EXCEPT ![tab].was = w, ![tab].pc = "revert"]
    BY <1>8 DEF ReadEvidence
  <2>2. new = [r EXCEPT !.was = w, !.pc = "revert"]
    BY <1>0, <1>a, <1>b, <2>1
  <2>3. new.pc = "revert" /\ new.sent = r.sent /\ Same(new, r)
    BY <1>0, <1>a, <2>2 DEF Requests, Same
  <2> QED
    BY <1>8, <1>a, <1>b, <2>3 DEF ReadEvidence, At, Goes, Ahead
<1>9. CASE Strand(tab) \/ Place(tab)
  <2>1. \/ Caught(tab)
        \/ req' = [req EXCEPT ![tab].at = @ + 1]
        \/ Strand(tab) /\ req' = [req EXCEPT ![tab].at = 1, ![tab].pc = "place"]
    BY <1>9 DEF Strand, Place, Rename
  <2>2. ASSUME req' = [req EXCEPT ![tab].at = @ + 1] PROVE new.pc = r.pc /\ new.sent = r.sent /\ Same(new, r)
    BY <1>0, <1>a, <1>b, <2>2 DEF Requests, Same
  <2>3. ASSUME req' = [req EXCEPT ![tab].at = 1, ![tab].pc = "place"] PROVE new.pc = "place" /\ new.sent = r.sent /\ Same(new, r)
    <3>1. new = [r EXCEPT !.at = 1, !.pc = "place"]
      BY <1>0, <1>a, <1>b, <2>3
    <3> QED
      BY <1>0, <1>a, <3>1 DEF Requests, Same
  <2> QED
    BY <1>9, <1>a, <1>b, <1>d, <2>1, <2>2, <2>3 DEF Strand, Place, At, Goes, Ahead
<1> QED
  BY <1>1, <1>2, <1>3, <1>4, <1>5, <1>6, <1>7, <1>8, <1>9 DEF Step

\* A statement makes no request alone and counts no overlap.
LEMMA StepAlone ==
  ASSUME Typed, NEW tab \in Tabs, Step(tab) \/ Erring(tab)
  PROVE  (req'[tab].alone = req[tab].alone \/ req'[tab].pc = "idle") /\ overlaps' = overlaps
<1>1. CASE Step(tab)
  <2>1. overlaps' = overlaps
    BY <1>1 DEF Step, ReadTask, ReadTaskTimer, MoveTask, ReadSlot, PauseOthers, Upsert, Stored, Convert, CreateEntry, DeleteTimer,
         ListCards, Strand, Place, ReadEvidence, Revert, CheckComplete, WriteTask, PauseBlocked, client
  <2> QED
    BY <1>1, <2>1, Onward DEF Goes, Same, Idle
<1>2. CASE Erring(tab)
  <2>1. (Caught(tab) \/ Done(tab)) /\ overlaps' = overlaps
    BY <1>2 DEF Erring, StatementFails, AuditFails, AnswerFails, Stored, ErrorAt, client
  <2> QED
    BY <2>1 DEF Caught, Goto, Done, Typed, Requests, Idle
<1> QED
  BY <1>1, <1>2

\* Requests stay one at a time through their statements.
LEMMA SingleStep ==
  ASSUME Typed, Single, NEW tab \in Tabs, Step(tab) \/ Erring(tab)
  PROVE  Single'
<1> SUFFICES ASSUME NEW u \in Tabs, req'[u].pc # "idle" PROVE req'[u].alone
  BY DEF Single
<1>1. req[tab].pc # "idle"
  BY DEF Step, ReadTask, ReadTaskTimer, MoveTask, ReadSlot, PauseOthers, Upsert, Stored, Convert, CreateEntry, DeleteTimer,
         ListCards, Strand, Place, ReadEvidence, Revert, CheckComplete, WriteTask, PauseBlocked, At, Erring, StatementFails, AuditFails, AnswerFails
<1>2. CASE u = tab
  BY <1>1, <1>2, StepAlone DEF Single
<1>3. CASE u # tab
  BY <1>3, StepOfOne DEF Single
<1> QED
  BY <1>2, <1>3

\* The same table has the same timers in place and running.
LEMMA SameTable ==
  ASSUME Placed, OneRuns, timers' = timers
  PROVE  Placed' /\ OneRuns' /\ Existing' = Existing /\ Running' = Running
BY DEF Placed, OneRuns, Existing, Running

\* Pausing the running timers, alone, keeps task timers in place and one running.
LEMMA PausedSolo ==
  ASSUME Typed, Placed, OneRuns, NEW S \in SUBSET Running,
         timers' = [i \in Ids |-> IF i \in S THEN Paused(timers[i]) ELSE timers[i]]
  PROVE  Placed' /\ OneRuns'
BY PausedRows DEF Placed, OneRuns

\* Alone, a row written for a task is in its source slot; a card is written for none.
LEMMA LoneRow ==
  ASSUME Typed, NEW tab \in Tabs, req[tab].pc = "upsert", InStep(req[tab])
  PROVE  /\ Written(req[tab]).src # NoTask => Written(req[tab]).slot = SourceOf(Written(req[tab]).src)
         /\ req[tab].kind \in {"save", "status"} => Written(req[tab]).src = NoTask
<1>1. PICK r : r = req[tab]
  OBVIOUS
<1>2. /\ r.kind \in {"save", "status"} \union TaskStarts \union {"pauseTask"} /\ Fit(r, now, born) /\ r.pc = "upsert"
      /\ r.kind # "status" => Written(r).src = r.task
      /\ r.kind = "status" => Written(r).src = r.row.src
      /\ Written(r).slot = r.slot
  BY <1>1, WrittenRow DEF Typed
<1>3. CASE r.kind = "status"
  <2>1. r.id \in Cards /\ r.row = timers[r.id]
    BY <1>1, <1>2, <1>3 DEF InStep, Named, Holds, Early, ByCard
  <2> QED
    BY <1>1, <1>2, <1>3, <2>1 DEF Cards
<1>4. CASE r.kind = "save"
  BY <1>1, <1>2, <1>4 DEF Fit, Carried, Manuals
<1>5. CASE r.kind \in TaskStarts \union {"pauseTask"}
  BY <1>1, <1>2, <1>5 DEF Fit, Carried, ByTask, TaskStarts
<1> QED
  BY <1>2, <1>3, <1>4, <1>5

\* Writing a row, alone, keeps task timers in place and one running.
LEMMA UpsertSolo ==
  ASSUME Typed, Placed, OneRuns, NEW tab \in Tabs, InStep(req[tab]), Puts(tab)
  PROVE  Placed' /\ OneRuns'
<1>1. PICK r : r = req[tab]
  OBVIOUS
<1>2. PICK i : i = Target(r)
  OBVIOUS
<1>3. PICK row : row = Written(r)
  OBVIOUS
<1>4. r.pc = "upsert" /\ row \in Rows /\ row.slot = r.slot /\ row.status = r.on /\ i \in Ids
  BY <1>1, <1>2, <1>3, WrittenRow DEF Puts, Upsert, AnswerFails, Stored, At, Typed, Counted
<1>5. CASE timers' = timers
  BY <1>5, SameTable
<1>6. CASE timers' # timers
  <2>1. timers' = [timers EXCEPT ![i] = row]
    BY <1>1, <1>2, <1>3, <1>6 DEF Puts, Upsert, AnswerFails, Stored
  <2>2. timers'[i] = row /\ (\A j \in Ids \ {i} : timers'[j] = timers[j])
    BY <1>4, <2>1 DEF Typed, Tabled
  <2>3. row.src # NoTask => row.slot = SourceOf(row.src)
    BY <1>1, <1>3, <1>4, LoneRow
  <2>4. Placed'
    BY <1>4, <2>2, <2>3 DEF Placed, Existing
  <2>5. CASE r.on = "running"
    <3>1. Running' = {} \/ \E j \in Ids : Running' = {j}
      BY <1>1, <2>2, <2>5, OneStarts
    <3> QED
      BY <2>4, <3>1 DEF OneRuns
  <2>6. CASE r.on # "running"
    <3>1. Running' \subseteq Running
      BY <1>4, <2>2, <2>6 DEF Running, Existing
    <3> QED
      BY <2>4, <3>1 DEF OneRuns
  <2> QED
    BY <2>5, <2>6
<1> QED
  BY <1>5, <1>6

\* Alone, linking moves the card to the source slot of its task and changes nothing else of it.
LEMMA LinkedRow ==
  ASSUME Typed, NEW tab \in Tabs, req[tab].pc = "convert", Convert(tab)
  PROVE  \/ Caught(tab) /\ timers' = timers
         \/ \E i \in Cards : /\ InSlot(req[tab].slot) = {i} /\ Goto(tab, "list")
                             /\ timers'[i] = [timers[i] EXCEPT !.slot = SourceOf(req[tab].task), !.src = req[tab].task, !.moved = req[tab].was]
                             /\ timers'[i] \in Rows /\ timers'[i].slot = SourceOf(req[tab].task) /\ timers'[i].src = req[tab].task
                             /\ timers'[i].status = timers[i].status /\ timers'[i].acc = timers[i].acc /\ timers'[i].since = timers[i].since
                             /\ \A j \in Ids \ {i} : timers'[j] = timers[j]
<1>1. PICK r : r = req[tab]
  OBVIOUS
<1>2. Fit(r, now, born) /\ r \in Requests
  BY <1>1 DEF Typed
<1>3. r.task \in Tasks
  BY <1>1, <1>2 DEF Fit, Route, Carried, Requests, AllKinds, TaskStarts, Manuals
<1>4. PICK i : i = One(InSlot(r.slot) \intersect Cards)
  OBVIOUS
<1>5. CASE ~(Caught(tab) /\ timers' = timers)
  <2>1. /\ InSlot(r.slot) \intersect Cards # {} /\ Goto(tab, "list")
        /\ timers' = [timers EXCEPT ![i].slot = SourceOf(r.task), ![i].src = r.task, ![i].moved = r.was]
    BY <1>1, <1>4, <1>5 DEF Convert
  <2>2. InSlot(r.slot) \intersect Cards \subseteq Ids
    BY DEF Cards, Existing
  <2>3. i \in InSlot(r.slot) /\ i \in Cards /\ i \in Ids /\ timers[i] \in Rows
    <3>1. i \in InSlot(r.slot) \intersect Cards
      BY <1>4, <2>1, <2>2, OneIn
    <3>2. i \in Ids /\ timers[i] # NoTimer
      BY <2>2, <3>1 DEF Cards, Existing
    <3> QED
      BY <3>1, <3>2 DEF Typed, Tabled
  <2>4. InSlot(r.slot) = {i}
    BY <2>3, InOneSlot
  <2>5. timers'[i] = [timers[i] EXCEPT !.slot = SourceOf(r.task), !.src = r.task, !.moved = r.was] /\ \A j \in Ids \ {i} : timers'[j] = timers[j]
    BY <2>1, <2>3 DEF Typed, Tabled
  <2>6. PICK s \in Slots : s = SourceOf(r.task)
    BY <1>3 DEF Slots, SourceOf
  <2>7. PICK row : row = [timers[i] EXCEPT !.slot = s, !.src = r.task, !.moved = r.was]
    OBVIOUS
  <2>8. r.was \in TaskStatuses \union {NotMoved}
    BY <1>2 DEF Requests
  <2>9. /\ row \in Rows /\ row.slot = s /\ row.src = r.task /\ row.status = timers[i].status
        /\ row.acc = timers[i].acc /\ row.since = timers[i].since
    BY <1>3, <2>3, <2>7, <2>8 DEF Rows
  <2>10. timers'[i] = row
    BY <2>5, <2>6, <2>7
  <2> QED
    BY <1>1, <2>1, <2>3, <2>4, <2>5, <2>6, <2>9, <2>10, ZenonT(30)
<1> QED
  BY <1>5

\* Convert, alone, keeps task timers in place and one running.
LEMMA ConvertSolo ==
  ASSUME Typed, Placed, OneRuns, NEW tab \in Tabs, Convert(tab)
  PROVE  Placed' /\ OneRuns' /\ Running' = Running
<1>1. req[tab].pc = "convert"
  BY DEF Convert, At
<1>2. CASE timers' = timers
  BY <1>2, SameTable
<1>3. CASE timers' # timers
  <2>1. PICK i \in Cards :
          /\ timers'[i] \in Rows /\ timers'[i].slot = SourceOf(req[tab].task) /\ timers'[i].src = req[tab].task
          /\ timers'[i].status = timers[i].status
          /\ \A j \in Ids \ {i} : timers'[j] = timers[j]
    BY <1>1, <1>3, LinkedRow
  <2>2. i \in Ids /\ timers'[i] # NoTimer /\ timers[i] # NoTimer
    BY <2>1, NoRowAssumption DEF Cards, Existing
  <2>3. Running' = Running
    BY <2>1, <2>2 DEF Running, Existing
  <2>4. Placed'
    BY <2>1, <2>2 DEF Placed, Existing
  <2> QED
    BY <2>3, <2>4 DEF OneRuns
<1> QED
  BY <1>2, <1>3

\* DeleteTimer, alone, keeps task timers in place and one running.
LEMMA DeleteTimerSolo ==
  ASSUME Placed, OneRuns, NEW tab \in Tabs, DeleteTimer(tab)
  PROVE  /\ Placed' /\ OneRuns' /\ Running' \subseteq Running /\ Existing' \subseteq Existing
         /\ \A i \in Existing' : timers'[i] = timers[i]
<1>1. PICK gone : timers' = [i \in Ids |-> IF i \in gone THEN NoTimer ELSE timers[i]]
  BY DEF DeleteTimer
<1>2. Existing' \subseteq Existing /\ \A i \in Existing' : timers'[i] = timers[i]
  BY <1>1 DEF Existing
<1> QED
  BY <1>2 DEF Placed, OneRuns, Running

\* Closing up keeps task timers in place: the row it moves is a card.
LEMMA RenameSolo ==
  ASSUME Typed, Placed, OneRuns, NEW tab \in Tabs, req[tab].pc \in {"strand", "place"}, InStep(req[tab]),
         NEW slot \in Slots, NEW next, Rename(tab, slot, next)
  PROVE  Placed' /\ OneRuns' /\ Existing' = Existing /\ Running' = Running /\ \A i \in Existing : timers'[i].src = timers[i].src
<1>1. PICK r : r = req[tab]
  OBVIOUS
<1>2. r.at \in 1..Len(r.order)
  BY <1>1 DEF Typed, Fit, Known
<1>3. PICK i : i = r.order[r.at]
  OBVIOUS
<1>4. i \in Existing => timers[i].src = NoTask
  BY <1>1, <1>2, <1>3 DEF InStep, Ordered
<1>5. CASE timers' = timers
  BY <1>5, SameTable
<1>6. CASE timers' # timers
  <2>1. i \in Existing /\ timers' = [timers EXCEPT ![i].slot = slot]
    BY <1>1, <1>3, <1>6 DEF Rename
  <2>2. /\ Existing' = Existing /\ Running' = Running
        /\ timers'[i].src = timers[i].src
        /\ \A j \in Ids \ {i} : timers'[j] = timers[j]
    BY <2>1, RenamedRows
  <2>3. Placed'
    BY <1>4, <2>1, <2>2 DEF Placed, Existing
  <2> QED
    BY <2>2, <2>3 DEF OneRuns, Existing
<1> QED
  BY <1>5, <1>6

\* The slot a card waits in is one of its own.
LEMMA StrandSlot ==
  ASSUME Typed, NEW tab \in Tabs, req[tab].pc = "strand"
  PROVE  <<"compact", req[tab].order[req[tab].at]>> \in Slots
<1>1. PICK r : r = req[tab]
  OBVIOUS
<1>2. r.at \in 1..Len(r.order) /\ r.order \in Seq(Ids)
  BY <1>1 DEF Typed, Fit, Known, Requests
<1> QED
  BY <1>1, <1>2 DEF Slots

\* The slot a card takes at last is a manual one.
LEMMA PlaceSlot ==
  ASSUME Typed, NEW tab \in Tabs, req[tab].pc = "place"
  PROVE  <<"manual", req[tab].at>> \in Slots
<1>1. PICK r : r = req[tab]
  OBVIOUS
<1>2. r.at \in 1..Len(r.order) /\ Len(r.order) <= MaxSlot /\ Len(r.order) \in Nat
  BY <1>1 DEF Typed, Fit, Known, Requests
<1> QED
  BY <1>1, <1>2, BoundAssumption DEF Slots

\* Alone, every statement keeps task timers in their source slots and at most one running.
LEMMA TableStep ==
  ASSUME Typed, Placed, OneRuns, NEW tab \in Tabs, InStep(req[tab]), Step(tab) \/ Erring(tab)
  PROVE  Placed' /\ OneRuns'
<1>1. CASE PauseOthers(tab)
  <2>1. PICK S \in SUBSET Running : S = {i \in Running : timers[i].slot # req[tab].slot}
    OBVIOUS
  <2>2. timers' = [i \in Ids |-> IF i \in S THEN Paused(timers[i]) ELSE timers[i]]
    BY <1>1, <2>1 DEF PauseOthers
  <2> QED
    BY <2>2, PausedSolo
<1>2. CASE PauseBlocked(tab)
  <2>1. PICK S \in SUBSET Running : S = Running \intersect OfTask(req[tab].task)
    OBVIOUS
  <2>2. timers' = [i \in Ids |-> IF i \in S THEN Paused(timers[i]) ELSE timers[i]]
    BY <1>2, <2>1 DEF PauseBlocked
  <2> QED
    BY <2>2, PausedSolo
<1>3. CASE Strand(tab)
  BY <1>3, StrandSlot, RenameSolo DEF Strand, At
<1>4. CASE Place(tab)
  BY <1>4, PlaceSlot, RenameSolo DEF Place, At
<1>5. CASE Puts(tab)
  BY <1>5, UpsertSolo
<1>6. CASE Convert(tab)
  BY <1>6, ConvertSolo
<1>7. CASE DeleteTimer(tab)
  BY <1>7, DeleteTimerSolo
<1>8. ASSUME ~(PauseOthers(tab) \/ PauseBlocked(tab) \/ Strand(tab) \/ Place(tab) \/ Puts(tab) \/ Convert(tab) \/ DeleteTimer(tab))
      PROVE  timers' = timers
  BY <1>8 DEF Step, ReadTask, ReadTaskTimer, MoveTask, ReadSlot, CreateEntry,
         ListCards, ReadEvidence, Revert, CheckComplete, WriteTask, Puts, Erring, StatementFails, AuditFails, table
<1> QED
  BY <1>1, <1>2, <1>3, <1>4, <1>5, <1>6, <1>7, <1>8, SameTable

\* Only a request in flight makes a step.
LEMMA BusyStep ==
  ASSUME NEW tab \in Tabs, Step(tab) \/ Erring(tab)
  PROVE  req[tab].pc # "idle"
BY DEF Step, ReadTask, ReadTaskTimer, MoveTask, ReadSlot, PauseOthers, Upsert, Stored, Convert, CreateEntry, DeleteTimer,
         ListCards, Strand, Place, ReadEvidence, Revert, CheckComplete, WriteTask, PauseBlocked, At, Erring, StatementFails, AuditFails, AnswerFails

\* Apart, a request leaves only when no other is in flight.
LEMMA SendApart ==
  ASSUME Typed, NEW tab \in Tabs, Request(tab), Apart'
  PROVE  Apart /\ Quiet /\ UNCHANGED <<table, books, clock, faults>>
<1>1. ASSUME NEW kind, NEW i, NEW slot, NEW t, NEW on, Send(tab, kind, i, slot, t, on)
      PROVE  Apart /\ Quiet /\ UNCHANGED <<table, books, clock, faults>>
  <2>1. overlaps \in Nat /\ overlaps' = 0 /\ overlaps' = IF Quiet THEN overlaps ELSE overlaps + 1
    BY <1>1 DEF Send, Typed, Counted, Apart
  <2> QED
    BY <1>1, <2>1 DEF Send, Apart
<1> QED
  BY <1>1 DEF Request, SendSave, SendBySlot, SendTaskTimer, SendTask

\* What is in flight after that is the request that has left.
LEMMA SendSingle ==
  ASSUME Typed, NEW tab \in Tabs, Request(tab), Quiet
  PROVE  Single' /\ \A u \in Tabs \ {tab} : req'[u].pc = "idle"
<1>0. \A v \in Tabs \ {tab} : req'[v].pc = "idle"
  BY SendOfOne DEF Quiet
<1>1. ASSUME NEW kind, NEW i, NEW slot, NEW t, NEW on, Send(tab, kind, i, slot, t, on)
      PROVE  req'[tab].alone
  <2>1. req'[tab] = Leaving(kind, i, slot, t, on)
    BY <1>1, SendLeaves
  <2>2. PICK sent : sent = IF i \in Existing /\ kind # "dialogTask" THEN Elapsed(timers[i]) ELSE 0
    OBVIOUS
  <2>3. PICK pc : pc = IF kind = "save" /\ on = "paused" THEN "upsert" ELSE Flow(kind)
    OBVIOUS
  <2>4. req'[tab] = [Idle EXCEPT !.kind = kind, !.slot = slot, !.task = t, !.id = i, !.on = on,
                       !.sent = sent, !.since = now, !.alone = Quiet, !.pc = pc]
    BY <2>1, <2>2, <2>3 DEF Leaving
  <2>5. req'[tab].alone = Quiet
    BY <2>4 DEF Idle
  <2> QED
    BY <2>5
<1>2. req'[tab].alone
  BY <1>1 DEF Request, SendSave, SendBySlot, SendTaskTimer, SendTask
<1> QED
  BY <1>0, <1>2 DEF Single

\* Every step keeps Solo.
LEMMA SoloNext ==
  ASSUME Typed, Lone, Solo, [Next]_vars
  PROVE  Solo'
<1> SUFFICES ASSUME Apart' PROVE Single' /\ Placed' /\ OneRuns'
  BY DEF Solo
<1>1. ASSUME NEW tab \in Tabs, Request(tab) PROVE Single' /\ Placed' /\ OneRuns'
  <2>1. Apart /\ Quiet /\ timers' = timers
    BY <1>1, SendApart DEF table
  <2> QED
    BY <1>1, <2>1, SameTable, SendSingle DEF Solo
<1>2. ASSUME NEW tab \in Tabs, Step(tab) \/ Erring(tab) PROVE Single' /\ Placed' /\ OneRuns'
  <2>1. Apart
    BY <1>2, StepAlone DEF Apart
  <2>2. Single /\ Placed /\ OneRuns /\ InStep(req[tab])
    BY <1>2, <2>1, BusyStep, SingleAlone DEF Solo
  <2> QED
    BY <1>2, <2>2, SingleStep, TableStep
<1>3. CASE Crash
  <2>1. Apart /\ timers' = timers /\ req' = [tab \in Tabs |-> Idle]
    BY <1>3 DEF Crash, Apart, client, table
  <2> QED
    BY <2>1, SameTable DEF Solo, Single, Idle
<1>4. CASE Tick \/ UNCHANGED vars
  <2>1. Apart /\ timers' = timers /\ req' = req
    BY <1>4 DEF Tick, vars, Apart, client, table
  <2> QED
    BY <2>1, SameTable DEF Solo, Single
<1> QED
  BY <1>1, <1>2, <1>3, <1>4 DEF Next, Erring

\* The first state has no request, and no timer.
LEMMA InitSolo == Init => Solo
<1> SUFFICES ASSUME Init PROVE Single /\ Placed /\ OneRuns
  BY DEF Solo
<1>1. Single
  BY DEF Init, Single, Idle
<1>2. \A i \in Existing : timers[i].src = NoTask /\ timers[i].status = "paused"
  BY DEF Init, Existing
<1> QED
  BY <1>1, <1>2 DEF Placed, OneRuns, Running

\* Only the deletion takes a row away.
LEMMA RowsStay ==
  ASSUME Typed, NEW tab \in Tabs, Step(tab) \/ Erring(tab), ~DeleteTimer(tab)
  PROVE  Existing \subseteq Existing'
<1>1. CASE PauseOthers(tab)
  <2>1. PICK S \in SUBSET Running : S = {i \in Running : timers[i].slot # req[tab].slot}
    OBVIOUS
  <2>2. timers' = [i \in Ids |-> IF i \in S THEN Paused(timers[i]) ELSE timers[i]]
    BY <1>1, <2>1 DEF PauseOthers
  <2> QED
    BY <2>2, PausedRows
<1>2. CASE PauseBlocked(tab)
  <2>1. PICK S \in SUBSET Running : S = Running \intersect OfTask(req[tab].task)
    OBVIOUS
  <2>2. timers' = [i \in Ids |-> IF i \in S THEN Paused(timers[i]) ELSE timers[i]]
    BY <1>2, <2>1 DEF PauseBlocked
  <2> QED
    BY <2>2, PausedRows
<1>3. ASSUME NEW slot \in Slots, NEW next, Rename(tab, slot, next) PROVE Existing \subseteq Existing'
  <2>1. CASE timers' = timers
    BY <2>1 DEF Existing
  <2>2. CASE timers' # timers
    <3>1. PICK i : i = req[tab].order[req[tab].at]
      OBVIOUS
    <3>2. i \in Existing /\ timers' = [timers EXCEPT ![i].slot = slot]
      BY <1>3, <2>2, <3>1 DEF Rename
    <3> QED
      BY <3>2, RenamedRows
  <2> QED
    BY <2>1, <2>2
<1>4. CASE Strand(tab)
  BY <1>3, <1>4, StrandSlot DEF Strand, At
<1>5. CASE Place(tab)
  BY <1>3, <1>5, PlaceSlot DEF Place, At
<1>6. CASE Puts(tab)
  <2>1. PICK row \in Rows : row = Written(req[tab])
    BY <1>6, WrittenRow DEF Puts, Upsert, AnswerFails, Stored, At
  <2>2. PICK i : i = Target(req[tab])
    OBVIOUS
  <2>3. timers' = timers \/ timers' = [timers EXCEPT ![i] = row]
    BY <1>6, <2>1, <2>2 DEF Puts, Upsert, AnswerFails, Stored
  <2> QED
    BY <2>3, NoRowAssumption DEF Existing, Typed, Tabled
<1>7. CASE Convert(tab)
  <2>1. timers' = timers \/ \E i \in Cards : timers'[i] \in Rows /\ \A j \in Ids \ {i} : timers'[j] = timers[j]
    BY <1>7, LinkedRow DEF Convert, At
  <2> QED
    BY <2>1, NoRowAssumption DEF Existing
<1>8. ASSUME ~(PauseOthers(tab) \/ PauseBlocked(tab) \/ Strand(tab) \/ Place(tab) \/ Puts(tab) \/ Convert(tab) \/ DeleteTimer(tab))
      PROVE  timers' = timers
  BY <1>8 DEF Step, ReadTask, ReadTaskTimer, MoveTask, ReadSlot, CreateEntry,
         ListCards, ReadEvidence, Revert, CheckComplete, WriteTask, Puts, Erring, StatementFails, AuditFails, table
<1> QED
  BY <1>1, <1>2, <1>4, <1>5, <1>6, <1>7, <1>8 DEF Existing

\* What a lone request deletes is the timer it names, and that one was saved or discarded.
LEMMA Gone ==
  ASSUME Typed, NEW tab \in Tabs, InStep(req[tab]), DeleteTimer(tab), NEW i \in Existing, timers'[i] = NoTimer
  PROVE  i = req[tab].id /\ (saved[i] > 0 \/ i \in discarded)
<1>1. PICK r : r = req[tab]
  OBVIOUS
<1>2. Fit(r, now, born) /\ r.pc = "delete" /\ r \in Requests /\ InStep(r)
  BY <1>1 DEF DeleteTimer, At, Typed
<1>3. r.kind \in {"discard", "finalize", "discardTask", "finalizeTask"}
  BY <1>2 DEF Fit, Route, Requests, AllKinds, TaskStarts
<1>4. i \in IF r.kind \in {"discard", "finalize"} THEN InSlot(r.slot) ELSE OfTask(r.task)
  <2>1. i \in Ids /\ timers[i] # NoTimer
    BY DEF Existing
  <2> QED
    BY <1>1, <2>1 DEF DeleteTimer
<1>5. CASE r.kind \in {"discard", "finalize"}
  <2>1. r.id \in InSlot(r.slot)
    BY <1>2, <1>5 DEF InStep, Named, Early, ByCard, Cards, InSlot
  <2>2. i = r.id
    BY <1>4, <1>5, <2>1, InOneSlot
  <2> QED
    BY <1>1, <1>2, <1>5, <2>2 DEF InStep, Ended, Saves
<1>6. CASE r.kind \in {"discardTask", "finalizeTask"}
  <2>1. r.id \in OfTask(r.task) /\ r.task \in Tasks
    BY <1>2, <1>6 DEF InStep, Named, Early, ByTask, Fit, Carried, Manuals
  <2>2. i = r.id
    BY <1>4, <1>6, <2>1, OfOneTask
  <2> QED
    BY <1>1, <1>2, <1>6, <2>2 DEF InStep, Ended, Saves
<1> QED
  BY <1>3, <1>5, <1>6

\* With requests one at a time, no timer leaves the table unless it was saved or discarded.
THEOREM NoTimerLostHolds == Spec => NoTimerLost
<1>1. ASSUME Typed, Lone, Solo, [Next]_vars, Apart, NEW i \in Ids, timers[i] # NoTimer, timers'[i] = NoTimer
      PROVE  saved[i] > 0 \/ i \in discarded
  <2>1. i \in Existing /\ i \notin Existing'
    BY <1>1 DEF Existing
  <2>2. CASE \E tab \in Tabs : Step(tab) \/ Erring(tab)
    <3>1. PICK tab \in Tabs : Step(tab) \/ Erring(tab)
      BY <2>2
    <3>2. DeleteTimer(tab)
      BY <1>1, <2>1, <3>1, RowsStay
    <3>3. InStep(req[tab])
      BY <1>1, <3>1, BusyStep, SingleAlone DEF Solo
    <3> QED
      BY <1>1, <2>1, <3>2, <3>3, Gone
  <2>3. ASSUME NEW tab \in Tabs, Request(tab) PROVE timers' = timers
    BY <2>3, ZenonT(30) DEF Request, SendSave, SendBySlot, SendTaskTimer, SendTask, Send, table
  <2>4. CASE Crash \/ Tick \/ UNCHANGED vars
    <3>1. timers' = timers
      BY <2>4 DEF Crash, Tick, vars, table
    <3> QED
      BY <1>1, <3>1
  <2> QED
    BY <1>1, <2>2, <2>3, <2>4 DEF Next, Erring
<1>2. Init /\ [][Next]_vars => [](Typed /\ Lone /\ Fresh /\ Solo)
  <2>1. Init => Typed /\ Lone /\ Fresh /\ Solo
    BY InitTyped, InitLone, InitSolo
  <2>2. Typed /\ Lone /\ Fresh /\ Solo /\ [Next]_vars => (Typed /\ Lone /\ Fresh /\ Solo)'
    BY NextTyped, LoneNext, FreshNext, SoloNext
  <2> QED
    BY <2>1, <2>2, PTL
<1>3. Typed /\ Lone /\ Fresh /\ Solo /\ [Next]_vars =>
        [Apart => \A i \in Ids : timers[i] # NoTimer /\ timers'[i] = NoTimer => saved[i] > 0 \/ i \in discarded]_vars
  BY <1>1
<1> QED
  BY <1>2, <1>3, PTL DEF Spec, NoTimerLost

\* At rest apart from what the request in flight is about to do
FaultFree == failures + crashes = 0
Proper(r) == r.pc \in {"evidence", "revert"} => r.kind = "discardTask"
\* No blocked task's timer runs, but for the one the request is about to pause.
Unblocked(r) ==
  \A t \in Tasks : task[t] = "blocked" => OfTask(t) \intersect Running = {} \/ (r.pc = "quiet" /\ r.task = t)
\* A card that the request has yet to place.
Waits(r, i) == \E k \in 1..Len(r.order) : r.order[k] = i /\ ((r.pc = "strand" /\ k < r.at) \/ (r.pc = "place" /\ k >= r.at))
Unstranded(r) == \A i \in Existing : timers[i].slot[1] = "compact" => Waits(r, i)
\* At rest but for what the request in flight is about to do.
Easy(r) == Proper(r) /\ Unblocked(r) /\ Unstranded(r)
Calm == Apart /\ FaultFree => /\ \A tab \in Tabs : req[tab].pc # "idle" => Easy(req[tab])
                              /\ Quiet => BlockedTaskStopped /\ NothingStranded

\* Away from the steps of pausing and closing up, easy is at rest.
LEMMA Rested ==
  ASSUME NEW r, Easy(r), r.pc \notin {"quiet", "strand", "place"}
  PROVE  BlockedTaskStopped /\ NothingStranded
BY DEF Easy, Unblocked, Unstranded, Waits, BlockedTaskStopped, NothingStranded

\* A table at rest is easy for any request that met no error.
LEMMA Resting ==
  ASSUME BlockedTaskStopped', NothingStranded', NEW r, Proper(r)
  PROVE  Easy(r)'
BY DEF Easy, Proper, Unblocked, Unstranded, BlockedTaskStopped, NothingStranded

\* The slot a card waits in is free: it has the name of the card.
LEMMA StrandFree ==
  ASSUME Typed, NEW i \in Ids, NEW s, s = <<"compact", i>>
  PROVE  InSlot(s) \ {i} = {}
BY DEF InSlot, Typed, Tabled

\* The place of a card is free: all cards have left or are placed before it.
LEMMA PlaceFree ==
  ASSUME Typed, Placed, NEW tab \in Tabs, req[tab].pc = "place", InStep(req[tab]), NEW s, s = <<"manual", req[tab].at>>
  PROVE  InSlot(s) = {}
<1> SUFFICES ASSUME NEW j \in InSlot(s) PROVE FALSE
  OBVIOUS
<1>1. PICK r : r = req[tab]
  OBVIOUS
<1>2. j \in Existing /\ timers[j].slot = s /\ s[1] = "manual" /\ s[2] = r.at /\ r.at \in Int
  BY <1>1 DEF InSlot, Typed, Fit, Known
<1>3. timers[j].src = NoTask
  BY <1>2 DEF Placed, SourceOf
<1>4. j \in Cards
  BY <1>2, <1>3 DEF Cards
<1>5. PICK k \in 1..(r.at - 1) : timers[j].slot = <<"manual", k>>
  BY <1>1, <1>4 DEF InStep, Ordered
<1>6. k = r.at
  BY <1>2, <1>5
<1> QED
  BY <1>2, <1>5, <1>6

\* Alone and without faults, no request meets an error.
LEMMA NoError ==
  ASSUME Typed, Placed, NEW tab \in Tabs, InStep(req[tab]), Caught(tab), req'[tab].pc \in {"evidence", "revert"},
         ReadSlot(tab) \/ Upsert(tab) \/ Convert(tab) \/ Strand(tab) \/ Place(tab)
  PROVE  FALSE
<1>1. PICK r : r = req[tab]
  OBVIOUS
<1>2. Fit(r, now, born) /\ r \in Requests /\ InStep(r) /\ Idle.pc = "idle"
  BY <1>1 DEF Typed, Idle
<1>3. r.kind \in TaskStarts \union {"pauseTask", "link"} /\ ~Done(tab) /\ req' = [req EXCEPT ![tab].pc = "evidence"]
  BY <1>1, <1>2 DEF Caught, Done, Goto, Typed
<1>4. r.task \in Tasks
  BY <1>2, <1>3 DEF Fit, Carried, Manuals, TaskStarts
<1>5. ~ReadSlot(tab)
  <2> SUFFICES ASSUME ReadSlot(tab) PROVE FALSE
    OBVIOUS
  <2>1. r.pc = "read" /\ r.kind = "link"
    BY <1>1, <1>2, <1>3 DEF ReadSlot, At, Fit, Route
  <2>2. r.id \in Cards /\ r.id \in InSlot(r.slot) /\ r.id \in Running
    BY <1>2, <2>1 DEF InStep, Named, Early, ByCard, Cards, InSlot
  <2>3. PICK i : i = One(InSlot(r.slot))
    OBVIOUS
  <2>4. i = r.id /\ i # NoTimer
    <3>1. i = r.id
      BY <2>2, <2>3, InOneSlot
    <3> QED
      BY <2>2, <3>1, IdAssumption DEF Cards, Existing
  <2>5. PICK seen : seen = [r EXCEPT !.at = i, !.row = timers[i]]
    OBVIOUS
  <2>6. req' = [req EXCEPT ![tab] = [seen EXCEPT !.pc = "convert"]]
    BY <1>1, <2>1, <2>2, <2>3, <2>4, <2>5 DEF ReadSlot
  <2>7. req'[tab] = [seen EXCEPT !.pc = "convert"] /\ "pc" \in DOMAIN seen
    BY <1>1, <1>2, <2>5, <2>6 DEF Typed, Requests
  <2> QED
    BY <2>7
<1>6. ~Upsert(tab)
  <2> SUFFICES ASSUME Upsert(tab) PROVE FALSE
    OBVIOUS
  <2>1. r.pc = "upsert" /\ r.kind \in TaskStarts \union {"pauseTask"}
    BY <1>1, <1>2, <1>3 DEF Upsert, Stored, At, Fit, Route
  <2>2. PICK holder : holder = One(InSlot(r.slot))
    OBVIOUS
  <2>3. holder = NoTimer <=> InSlot(r.slot) = {}
    BY <2>2, OneIn DEF InSlot, Existing
  <2>4. \/ InSlot(r.slot) = {} /\ Target(r) \in Existing
        \/ Written(r).src # NoTask /\ OfTask(Written(r).src) \ {Target(r)} # {}
    BY <1>1, <1>3, <2>2, <2>3 DEF Upsert, Stored
  <2>5. InSlot(r.slot) = {} /\ OfTask(r.task) # {}
    BY <1>1, <2>1, <2>4, Refused
  <2>6. r.slot = SourceOf(r.task)
    BY <1>2, <2>1 DEF Fit, Carried, ByTask
  <2> QED
    BY <1>4, <2>5, <2>6, IdAssumption DEF Placed, OfTask, InSlot
<1>7. ~Convert(tab)
  <2> SUFFICES ASSUME Convert(tab) PROVE FALSE
    OBVIOUS
  <2>1. r.pc = "convert" /\ r.kind = "link"
    BY <1>1, <1>2, <1>3 DEF Convert, At, Fit, Route
  <2>2. OfTask(r.task) = {} /\ r.id \in InSlot(r.slot) \intersect Cards
    BY <1>2, <2>1 DEF InStep, Named, Early, ByCard, Linked, Cards, InSlot
  <2>3. Goto(tab, "list")
    BY <1>1, <2>2 DEF Convert
  <2> QED
    BY <2>3, GotoOn DEF Steps
<1>8. ASSUME NEW slot, NEW next, Rename(tab, slot, next), InSlot(slot) \ {r.order[r.at]} = {}
      PROVE  req' = [req EXCEPT ![tab].at = @ + 1] \/ next
  BY <1>1, <1>8 DEF Rename
<1>9. r.pc \in {"strand", "place"} => req' # [req EXCEPT ![tab].at = @ + 1]
  BY <1>1, <1>2 DEF Typed, Requests
<1>10. ~Strand(tab)
  <2> SUFFICES ASSUME Strand(tab) PROVE FALSE
    OBVIOUS
  <2>1. r.at \in 1..Len(r.order) /\ r.order \in Seq(Ids) /\ r.pc = "strand"
    BY <1>1, <1>2 DEF Strand, At, Fit, Known, Requests
  <2>2. PICK s : s = <<"compact", r.order[r.at]>>
    OBVIOUS
  <2>3. InSlot(s) \ {r.order[r.at]} = {}
    BY <2>1, <2>2, StrandFree
  <2>4. req' = [req EXCEPT ![tab].at = 1, ![tab].pc = "place"]
    BY <1>1, <1>8, <1>9, <2>1, <2>2, <2>3 DEF Strand
  <2>5. req'[tab] = [req[tab] EXCEPT !.at = 1, !.pc = "place"]
    BY <2>4 DEF Typed
  <2> QED
    BY <1>1, <1>2, <2>5 DEF Requests
<1>11. ~Place(tab)
  <2> SUFFICES ASSUME Place(tab) PROVE FALSE
    OBVIOUS
  <2>1. r.pc = "place"
    BY <1>1 DEF Place, At
  <2>2. PICK s : s = <<"manual", r.at>>
    OBVIOUS
  <2>3. InSlot(s) \ {r.order[r.at]} = {}
    BY <1>1, <2>1, <2>2, PlaceFree
  <2>4. Done(tab)
    BY <1>1, <1>8, <1>9, <2>1, <2>2, <2>3 DEF Place
  <2> QED
    BY <1>3, <2>4
<1> QED
  BY <1>5, <1>6, <1>7, <1>10, <1>11

\* So it never comes to read the evidence of one, but for a discarded timer.
LEMMA ProperStep ==
  ASSUME Typed, Placed, NEW tab \in Tabs, InStep(req[tab]), Proper(req[tab]), Step(tab)
  PROVE  Proper(req[tab])'
<1> SUFFICES ASSUME req'[tab].pc \in {"evidence", "revert"} PROVE req'[tab].kind = "discardTask"
  BY DEF Proper
<1>1. /\ Same(req'[tab], req[tab]) /\ Ahead(req[tab].pc, req'[tab].pc)
      /\ req'[tab].pc = "evidence" => Caught(tab) \/ (req[tab].pc = "delete" /\ req[tab].kind = "discardTask")
  BY Onward DEF Goes, Idle
<1>2. CASE req'[tab].pc = "revert"
  BY <1>1, <1>2 DEF Ahead, Proper, Same
<1>3. CASE req'[tab].pc = "evidence" /\ req[tab].pc # "delete"
  <2>1. Caught(tab) /\ req[tab].pc \in {"read", "upsert", "convert", "strand", "place"}
    BY <1>1, <1>3 DEF Ahead
  <2>2. ReadSlot(tab) \/ Upsert(tab) \/ Convert(tab) \/ Strand(tab) \/ Place(tab)
    BY <2>1 DEF Step, ReadTask, ReadTaskTimer, MoveTask, PauseOthers, CreateEntry, DeleteTimer,
         ListCards, ReadEvidence, Revert, CheckComplete, WriteTask, PauseBlocked, At
  <2> QED
    BY <1>3, <2>1, <2>2, NoError
<1>4. CASE req'[tab].pc = "evidence" /\ req[tab].pc = "delete"
  <2>1. ~Caught(tab) \/ req[tab].kind # "discardTask"
    BY <1>4 DEF Caught, Done, Typed, Idle, TaskStarts
  <2>2. DeleteTimer(tab)
    BY <1>4 DEF Step, ReadTask, ReadTaskTimer, MoveTask, ReadSlot, PauseOthers, Upsert, Stored, Convert, CreateEntry,
         ListCards, Strand, Place, ReadEvidence, Revert, CheckComplete, WriteTask, PauseBlocked, At
  <2>3. req[tab].kind = "discardTask"
    <3>1. Goto(tab, "evidence") \/ req[tab].kind = "discardTask" \/ Done(tab) \/ Goto(tab, "list")
      BY <2>2 DEF DeleteTimer
    <3>2. ~Done(tab)
      BY <1>4 DEF Done, Typed, Idle
    <3>3. ~Goto(tab, "list")
      BY <1>4, GotoOn DEF Steps
    <3> QED
      BY <2>2, <3>2, <3>3 DEF DeleteTimer
  <2> QED
    BY <1>1, <2>3 DEF Same
<1> QED
  BY <1>2, <1>3, <1>4

\* A table in which no timer starts keeps the timers of blocked tasks stopped.
LEMMA BlockedKept ==
  ASSUME BlockedTaskStopped, task' = task, \A t \in Tasks : (OfTask(t) \intersect Running)' \subseteq OfTask(t) \intersect Running
  PROVE  BlockedTaskStopped'
BY DEF BlockedTaskStopped

\* A table in which no card moves strands none.
LEMMA StrandedKept ==
  ASSUME NothingStranded, \A i \in Existing' : i \in Existing /\ timers'[i].slot = timers[i].slot
  PROVE  NothingStranded'
BY DEF NothingStranded

\* Statements that leave the table as it was leave it at rest.
LEMMA SameRest ==
  ASSUME BlockedTaskStopped, NothingStranded, UNCHANGED table
  PROVE  BlockedTaskStopped' /\ NothingStranded'
BY DEF BlockedTaskStopped, NothingStranded, table, Existing, Running, OfTask

\* MoveTask leaves blocked timers stopped and strands no card.
LEMMA MoveTaskRest ==
  ASSUME Typed, BlockedTaskStopped, NothingStranded, NEW tab \in Tabs, MoveTask(tab)
  PROVE  BlockedTaskStopped' /\ NothingStranded'
<1>1. timers' = timers /\ \A t \in Tasks : task'[t] = "blocked" => task[t] = "blocked"
  BY DEF MoveTask, Typed, Counted
<1> QED
  BY <1>1 DEF BlockedTaskStopped, NothingStranded, Existing, Running, OfTask

\* Pausing the running timers leaves blocked timers stopped and strands no card.
LEMMA PausedRest ==
  ASSUME Typed, BlockedTaskStopped, NothingStranded, task' = task, NEW S \in SUBSET Running,
         timers' = [i \in Ids |-> IF i \in S THEN Paused(timers[i]) ELSE timers[i]]
  PROVE  BlockedTaskStopped' /\ NothingStranded'
<1>1. /\ Existing' = Existing /\ Running' = Running \ S
      /\ \A t : OfTask(t)' = OfTask(t)
      /\ \A i \in Existing : timers'[i].slot = timers[i].slot
  BY PausedRows
<1>2. BlockedTaskStopped'
  BY <1>1 DEF BlockedTaskStopped
<1>3. NothingStranded'
  BY <1>1 DEF NothingStranded
<1> QED
  BY <1>2, <1>3

\* Upsert leaves blocked timers stopped and strands no card.
LEMMA UpsertRest ==
  ASSUME Typed, BlockedTaskStopped, NothingStranded, NEW tab \in Tabs, InStep(req[tab]), Upsert(tab)
  PROVE  BlockedTaskStopped' /\ NothingStranded'
<1>1. PICK r : r = req[tab]
  OBVIOUS
<1>2. PICK i : i = Target(r)
  OBVIOUS
<1>3. PICK row : row = Written(r)
  OBVIOUS
<1>4. /\ r.pc = "upsert" /\ row \in Rows /\ row.slot = r.slot /\ row.status = r.on /\ i \in Ids
      /\ r.slot[1] # "compact" /\ task' = task
      /\ r.kind \in {"save", "status"} \union TaskStarts \union {"pauseTask"}
      /\ r.kind # "status" => row.src = r.task
  BY <1>1, <1>2, <1>3, WrittenRow DEF Upsert, Stored, At, Typed, Counted
<1>5. CASE timers' = timers
  BY <1>4, <1>5, SameRest DEF table
<1>6. CASE timers' # timers
  <2>1. timers' = [timers EXCEPT ![i] = row]
    BY <1>1, <1>2, <1>3, <1>6 DEF Upsert, Stored
  <2>2. timers'[i] = row /\ (\A j \in Ids \ {i} : timers'[j] = timers[j])
    BY <1>4, <2>1 DEF Typed, Tabled
  <2>3. NothingStranded'
    BY <1>4, <2>2 DEF NothingStranded, Existing
  <2>4. ASSUME NEW t \in Tasks, row.src = t, row.status = "running" PROVE task[t] # "blocked"
    <3>1. r.kind \in TaskStarts
      <4>1. r.kind \in {"save", "status"} => row.src = NoTask
        BY <1>1, <1>3, <1>4, LoneRow
      <4>2. r.kind # "pauseTask"
        BY <1>1, <1>4, <2>4 DEF Typed, Fit, Carried, ByTask
      <4> QED
        BY <1>4, <2>4, <4>1, <4>2, IdAssumption
    <3>2. task[r.task] = "in_progress"
      BY <1>1, <1>4, <3>1 DEF InStep, Begun, Starts
    <3> QED
      BY <1>4, <2>4, <3>1, <3>2 DEF TaskStarts
  <2>5. BlockedTaskStopped'
    BY <1>4, <2>2, <2>4 DEF BlockedTaskStopped, OfTask, Running, Existing
  <2> QED
    BY <2>3, <2>5
<1> QED
  BY <1>5, <1>6

\* Convert leaves blocked timers stopped and strands no card.
LEMMA ConvertRest ==
  ASSUME Typed, BlockedTaskStopped, NothingStranded, NEW tab \in Tabs, InStep(req[tab]), Convert(tab)
  PROVE  BlockedTaskStopped' /\ NothingStranded'
<1>1. PICK r : r = req[tab]
  OBVIOUS
<1>2. r.pc = "convert" /\ r.kind = "link" /\ task' = task
  BY <1>1 DEF Convert, At, Typed, Fit, Route, Requests, AllKinds, TaskStarts
<1>3. CASE timers' = timers
  BY <1>2, <1>3, SameRest DEF table
<1>4. CASE timers' # timers
  <2>1. PICK i \in Cards :
          /\ timers'[i].slot = SourceOf(r.task) /\ timers'[i].src = r.task
          /\ timers'[i].status = timers[i].status
          /\ \A j \in Ids \ {i} : timers'[j] = timers[j]
    BY <1>1, <1>2, <1>4, LinkedRow
  <2>2. task[r.task] = "in_progress"
    BY <1>1, <1>2 DEF InStep, Begun, Starts
  <2>3. NothingStranded'
    BY <2>1 DEF NothingStranded, Existing, SourceOf
  <2>4. BlockedTaskStopped'
    BY <1>2, <2>1, <2>2 DEF BlockedTaskStopped, OfTask, Running, Existing
  <2> QED
    BY <2>3, <2>4
<1> QED
  BY <1>3, <1>4

\* DeleteTimer leaves blocked timers stopped and strands no card.
LEMMA DeleteTimerRest ==
  ASSUME Typed, Placed, OneRuns, BlockedTaskStopped, NothingStranded, NEW tab \in Tabs, DeleteTimer(tab)
  PROVE  BlockedTaskStopped' /\ NothingStranded'
<1>1. Running' \subseteq Running /\ Existing' \subseteq Existing /\ \A i \in Existing' : timers'[i] = timers[i]
  BY DeleteTimerSolo
<1>2. task' = task
  BY DEF DeleteTimer
<1> QED
  BY <1>1, <1>2 DEF BlockedTaskStopped, NothingStranded, OfTask

\* Revert leaves blocked timers stopped and strands no card.
LEMMA RevertRest ==
  ASSUME Typed, BlockedTaskStopped, NothingStranded, NEW tab \in Tabs, InStep(req[tab]), Proper(req[tab]), Revert(tab)
  PROVE  BlockedTaskStopped' /\ NothingStranded'
<1>1. OfTask(req[tab].task) = {} /\ timers' = timers /\ \A t \in Tasks \ {req[tab].task} : task'[t] = task[t]
  BY DEF Revert, At, Proper, InStep, Ended, Typed, Counted
<1> QED
  BY <1>1 DEF BlockedTaskStopped, NothingStranded, OfTask, Running, Existing

\* A task that is blocked is remembered until its timer is paused.
LEMMA WriteTaskEasy ==
  ASSUME Typed, BlockedTaskStopped, NothingStranded, NEW tab \in Tabs, WriteTask(tab), Proper(req[tab])'
  PROVE  Easy(req[tab])'
<1>1. PICK r : r = req[tab]
  OBVIOUS
<1>2. r \in Requests /\ timers' = timers
  BY <1>1 DEF Typed, WriteTask
<1>3. NothingStranded'
  BY <1>2 DEF NothingStranded, Existing
<1>4. \A t \in Tasks \ {r.task} : task'[t] = task[t]
  BY <1>1 DEF WriteTask, Typed, Counted
<1>5. CASE r.slot[1] = "blocked"
  <2>1. req'[tab].pc = "quiet" /\ req'[tab].task = r.task
    BY <1>1, <1>2, <1>5 DEF WriteTask, Goto, Requests, Typed
  <2>2. Unblocked(req[tab])'
    BY <1>2, <1>4, <2>1 DEF Unblocked, BlockedTaskStopped, OfTask, Running, Existing
  <2> QED
    BY <1>3, <2>2 DEF Easy, Unstranded, NothingStranded
<1>6. CASE r.slot[1] # "blocked"
  <2>1. r.task \in Tasks => task'[r.task] # "blocked"
    BY <1>1, <1>6 DEF WriteTask, Typed, Counted
  <2>2. BlockedTaskStopped'
    BY <1>2, <1>4, <2>1 DEF BlockedTaskStopped, OfTask, Running, Existing
  <2> QED
    BY <1>3, <2>2, Resting DEF Easy, Unblocked, Unstranded, BlockedTaskStopped, NothingStranded
<1> QED
  BY <1>5, <1>6

\* PauseBlocked leaves blocked timers stopped and strands no card.
LEMMA PauseBlockedRest ==
  ASSUME Typed, NEW tab \in Tabs, Easy(req[tab]), PauseBlocked(tab)
  PROVE  BlockedTaskStopped' /\ NothingStranded'
<1>1. PICK S \in SUBSET Running : S = Running \intersect OfTask(req[tab].task)
  OBVIOUS
<1>2. timers' = [i \in Ids |-> IF i \in S THEN Paused(timers[i]) ELSE timers[i]] /\ task' = task /\ req[tab].pc = "quiet"
  BY <1>1 DEF PauseBlocked, At
<1>3. /\ Existing' = Existing /\ Running' = Running \ S
      /\ \A t : OfTask(t)' = OfTask(t)
      /\ \A i \in Existing : timers'[i].slot = timers[i].slot
  BY <1>2, PausedRows
<1>4. NothingStranded'
  BY <1>2, <1>3 DEF NothingStranded, Easy, Unstranded, Waits
<1>5. BlockedTaskStopped'
  BY <1>1, <1>2, <1>3 DEF BlockedTaskStopped, Easy, Unblocked
<1> QED
  BY <1>4, <1>5

\* Closing up: first every card leaves its slot,
LEMMA StrandEasy ==
  ASSUME Typed, Placed, OneRuns, NEW tab \in Tabs, InStep(req[tab]), Easy(req[tab]), Strand(tab), Proper(req[tab])'
  PROVE  Easy(req[tab])'
<1>1. PICK r : r = req[tab]
  OBVIOUS
<1>2. r \in Requests /\ r.pc = "strand" /\ r.at \in 1..Len(r.order) /\ r.order \in Seq(Ids) /\ Len(r.order) \in Nat
  BY <1>1 DEF Strand, At, Typed, Fit, Known, Requests
<1>3. PICK i \in Ids : i = r.order[r.at]
  BY <1>2
<1>4. PICK slot \in Slots : slot = <<"compact", i>>
  BY <1>2, <1>3 DEF Slots
<1>5. InSlot(slot) \ {i} = {}
  BY <1>4, StrandFree
<1>6. Rename(tab, slot, req' = [req EXCEPT ![tab].at = 1, ![tab].pc = "place"]) /\ task' = task
  BY <1>1, <1>3, <1>4 DEF Strand
<1>7. /\ timers' = IF i \in Existing THEN [timers EXCEPT ![i].slot = slot] ELSE timers
      /\ \/ r.at < Len(r.order) /\ req' = [req EXCEPT ![tab].at = @ + 1]
         \/ r.at = Len(r.order) /\ req' = [req EXCEPT ![tab].at = 1, ![tab].pc = "place"]
  BY <1>1, <1>3, <1>5, <1>6 DEF Rename
<1>8. PICK new : new = req'[tab]
  OBVIOUS
<1>9. /\ new.order = r.order
      /\ \/ r.at < Len(r.order) /\ new.at = r.at + 1 /\ new.pc = "strand"
         \/ r.at = Len(r.order) /\ new.at = 1 /\ new.pc = "place"
  <2>1. CASE r.at < Len(r.order)
    BY <1>1, <1>2, <1>7, <1>8, <2>1 DEF Typed, Requests
  <2>2. CASE r.at = Len(r.order)
    <3>1. req' = [req EXCEPT ![tab].at = 1, ![tab].pc = "place"]
      BY <1>2, <1>7, <2>2
    <3>2. new = [r EXCEPT !.at = 1, !.pc = "place"]
      BY <1>1, <1>8, <3>1 DEF Typed
    <3> QED
      BY <1>2, <2>2, <3>2 DEF Requests
  <2> QED
    BY <1>2, <2>1, <2>2
<1>10. Existing' = Existing /\ Running' = Running /\ \A j \in Existing : timers'[j].src = timers[j].src
  BY <1>1, <1>2, <1>6, RenameSolo
<1>11. \A j \in Ids \ {i} : timers'[j] = timers[j]
  BY <1>7 DEF Typed, Tabled
<1>12. Unblocked(new)'
  BY <1>1, <1>2, <1>6, <1>10 DEF Easy, Unblocked, OfTask
<1>13. Unstranded(new)'
  <2> SUFFICES ASSUME NEW j \in Existing, timers'[j].slot[1] = "compact" PROVE Waits(new, j)
    BY <1>10 DEF Unstranded, Waits
  <2>1. PICK k \in 1..Len(r.order) : r.order[k] = j /\ k <= r.at
    <3>1. CASE j = i
      BY <1>2, <1>3, <3>1
    <3>2. CASE j # i
      <4>1. Waits(r, j)
        BY <1>1, <1>11, <3>2 DEF Easy, Unstranded, Existing
      <4>2. PICK k \in 1..Len(r.order) : r.order[k] = j /\ ((r.pc = "strand" /\ k < r.at) \/ (r.pc = "place" /\ k >= r.at))
        BY <4>1 DEF Waits
      <4> QED
        BY <1>2, <4>2
    <3> QED
      BY <3>1, <3>2
  <2>2. k \in 1..Len(new.order) /\ new.order[k] = j
    BY <1>9, <2>1
  <2>3. (new.pc = "strand" /\ k < new.at) \/ (new.pc = "place" /\ k >= new.at)
    BY <1>2, <1>9, <2>1
  <2> QED
    BY <2>2, <2>3 DEF Waits
<1> QED
  BY <1>8, <1>12, <1>13 DEF Easy, Unblocked, Unstranded

\* then each takes its own, and none is left waiting.
LEMMA PlaceEasy ==
  ASSUME Typed, Placed, OneRuns, NEW tab \in Tabs, InStep(req[tab]), Easy(req[tab]), Place(tab), Proper(req[tab])'
  PROVE  Easy(req[tab])'
<1>1. PICK r : r = req[tab]
  OBVIOUS
<1>2. r \in Requests /\ r.pc = "place" /\ r.at \in 1..Len(r.order) /\ r.order \in Seq(Ids) /\ Len(r.order) \in Nat /\ Idle.pc = "idle"
  BY <1>1 DEF Place, At, Typed, Fit, Known, Requests, Idle
<1>3. PICK i \in Ids : i = r.order[r.at]
  BY <1>2
<1>4. PICK slot \in Slots : slot = <<"manual", r.at>>
  BY <1>1, <1>2, PlaceSlot
<1>5. InSlot(slot) = {}
  BY <1>1, <1>2, <1>4, PlaceFree
<1>6. Rename(tab, slot, Done(tab)) /\ task' = task
  BY <1>1, <1>3, <1>4 DEF Place
<1>7. /\ timers' = IF i \in Existing THEN [timers EXCEPT ![i].slot = slot] ELSE timers
      /\ \/ r.at < Len(r.order) /\ req' = [req EXCEPT ![tab].at = @ + 1]
         \/ r.at = Len(r.order) /\ Done(tab)
  BY <1>1, <1>3, <1>5, <1>6 DEF Rename
<1>8. PICK new : new = req'[tab]
  OBVIOUS
<1>9. \/ r.at < Len(r.order) /\ new.at = r.at + 1 /\ new.pc = "place" /\ new.order = r.order
      \/ r.at = Len(r.order) /\ new.pc = "idle"
  BY <1>1, <1>2, <1>7, <1>8 DEF Typed, Requests, Done
<1>10. Existing' = Existing /\ Running' = Running /\ \A j \in Existing : timers'[j].src = timers[j].src
  BY <1>1, <1>2, <1>6, RenameSolo
<1>11. \A j \in Ids \ {i} : timers'[j] = timers[j]
  BY <1>7 DEF Typed, Tabled
<1>12. Unblocked(new)'
  BY <1>1, <1>2, <1>6, <1>10 DEF Easy, Unblocked, OfTask
<1>13. i \in Existing => timers'[i].slot = slot
  BY <1>7, RenamedRows
<1>14. Unstranded(new)'
  <2> SUFFICES ASSUME NEW j \in Existing, timers'[j].slot[1] = "compact" PROVE Waits(new, j)
    BY <1>10 DEF Unstranded, Waits
  <2>1. j # i
    BY <1>4, <1>13
  <2>2. Waits(r, j)
    BY <1>1, <1>11, <2>1 DEF Easy, Unstranded, Existing
  <2>3. PICK k \in 1..Len(r.order) : r.order[k] = j /\ ((r.pc = "strand" /\ k < r.at) \/ (r.pc = "place" /\ k >= r.at))
    BY <2>2 DEF Waits
  <2>4. k # r.at /\ k >= r.at
    BY <1>2, <1>3, <2>1, <2>3
  <2>5. k > r.at /\ r.at < Len(r.order)
    BY <1>2, <2>4
  <2>6. new.at = r.at + 1 /\ new.pc = "place" /\ new.order = r.order
    BY <1>2, <1>9, <2>5
  <2>7. k \in 1..Len(new.order) /\ new.order[k] = j /\ k >= new.at
    BY <1>2, <2>3, <2>5, <2>6
  <2> QED
    BY <2>6, <2>7 DEF Waits
<1> QED
  BY <1>8, <1>12, <1>14 DEF Easy, Unblocked, Unstranded

\* Alone and without faults, every statement keeps the table easy.
LEMMA EasyStep ==
  ASSUME Typed, Placed, OneRuns, NEW tab \in Tabs, InStep(req[tab]), Easy(req[tab]), Step(tab)
  PROVE  Easy(req[tab])'
<1>1. Proper(req[tab]) /\ Proper(req[tab])'
  BY ProperStep DEF Easy
<1>2. ASSUME BlockedTaskStopped', NothingStranded' PROVE Easy(req[tab])'
  BY <1>1, <1>2 DEF Easy, Unblocked, Unstranded, BlockedTaskStopped, NothingStranded
<1>3. CASE Strand(tab) \/ Place(tab)
  BY <1>1, <1>3, StrandEasy, PlaceEasy
<1>4. CASE PauseBlocked(tab)
  BY <1>2, <1>4, PauseBlockedRest
<1>5. CASE ~(Strand(tab) \/ Place(tab) \/ PauseBlocked(tab))
  <2>1. req[tab].pc \notin {"quiet", "strand", "place"}
    BY <1>5 DEF Step, ReadTask, ReadTaskTimer, MoveTask, ReadSlot, PauseOthers, Upsert, Stored, Convert, CreateEntry, DeleteTimer,
         ListCards, ReadEvidence, Revert, CheckComplete, WriteTask, At
  <2>2. BlockedTaskStopped /\ NothingStranded
    BY <2>1, Rested
  <2>3. CASE WriteTask(tab)
    BY <1>1, <2>2, <2>3, WriteTaskEasy
  <2>4. CASE MoveTask(tab)
    BY <1>2, <2>2, <2>4, MoveTaskRest
  <2>5. CASE PauseOthers(tab)
    <3>1. PICK S \in SUBSET Running : S = {i \in Running : timers[i].slot # req[tab].slot}
      OBVIOUS
    <3>2. timers' = [i \in Ids |-> IF i \in S THEN Paused(timers[i]) ELSE timers[i]] /\ task' = task
      BY <2>5, <3>1 DEF PauseOthers
    <3> QED
      BY <1>2, <2>2, <3>2, PausedRest
  <2>6. CASE Upsert(tab)
    BY <1>2, <2>2, <2>6, UpsertRest
  <2>7. CASE Convert(tab)
    BY <1>2, <2>2, <2>7, ConvertRest
  <2>8. CASE DeleteTimer(tab)
    BY <1>2, <2>2, <2>8, DeleteTimerRest
  <2>9. CASE Revert(tab)
    BY <1>1, <1>2, <2>2, <2>9, RevertRest
  <2>10. ASSUME ReadTask(tab) \/ ReadTaskTimer(tab) \/ ReadSlot(tab) \/ CreateEntry(tab) \/ ListCards(tab) \/ ReadEvidence(tab) \/ CheckComplete(tab)
         PROVE  UNCHANGED table
    BY <2>10 DEF ReadTask, ReadTaskTimer, ReadSlot, CreateEntry, ListCards, ReadEvidence, CheckComplete
  <2> QED
    BY <1>2, <1>5, <2>2, <2>3, <2>4, <2>5, <2>6, <2>7, <2>8, <2>9, <2>10, SameRest DEF Step
<1> QED
  BY <1>3, <1>4, <1>5

\* An easy table is at rest once its request is answered.
LEMMA EasyRests ==
  ASSUME NEW r, Easy(r), r.pc = "idle"
  PROVE  BlockedTaskStopped /\ NothingStranded
BY Rested

\* A table at rest is easy for a request that leaves.
LEMMA EasyIdle ==
  ASSUME BlockedTaskStopped, NothingStranded, NEW r, r.pc \notin {"evidence", "revert"}
  PROVE  Easy(r)
BY DEF Easy, Proper, Unblocked, Unstranded, BlockedTaskStopped, NothingStranded

\* A request that leaves has met no error.
LEMMA SendProper ==
  ASSUME Typed, NEW tab \in Tabs, Request(tab)
  PROVE  req'[tab].pc \notin {"evidence", "revert"}
<1>1. ASSUME NEW kind, NEW i, NEW slot, NEW t, NEW on, Send(tab, kind, i, slot, t, on)
      PROVE  req'[tab].pc \notin {"evidence", "revert"}
  <2>1. req'[tab] = Leaving(kind, i, slot, t, on)
    BY <1>1, SendLeaves
  <2>2. PICK sent : sent = IF i \in Existing /\ kind # "dialogTask" THEN Elapsed(timers[i]) ELSE 0
    OBVIOUS
  <2>3. PICK pc : pc = IF kind = "save" /\ on = "paused" THEN "upsert" ELSE Flow(kind)
    OBVIOUS
  <2>4. req'[tab] = [Idle EXCEPT !.kind = kind, !.slot = slot, !.task = t, !.id = i, !.on = on,
                       !.sent = sent, !.since = now, !.alone = Quiet, !.pc = pc]
    BY <2>1, <2>2, <2>3 DEF Leaving
  <2>5. req'[tab].pc = pc
    BY <2>4 DEF Idle
  <2> QED
    BY <2>3, <2>5 DEF Flow
<1> QED
  BY <1>1 DEF Request, SendSave, SendBySlot, SendTaskTimer, SendTask

\* Every step keeps Calm.
LEMMA CalmNext ==
  ASSUME Typed, Typed', Lone, Solo, Calm, [Next]_vars
  PROVE  Calm'
<1> SUFFICES ASSUME Apart', FaultFree'
             PROVE  /\ \A tab \in Tabs : req'[tab].pc # "idle" => Easy(req[tab])'
                    /\ Quiet' => BlockedTaskStopped' /\ NothingStranded'
  BY DEF Calm
<1>0. failures \in Nat /\ crashes \in Nat
  BY DEF Typed, Counted
<1>1. CASE \E tab \in Tabs : Request(tab)
  <2>1. PICK tab \in Tabs : Request(tab)
    BY <1>1
  <2>2. Apart /\ Quiet /\ UNCHANGED <<table, faults>>
    BY <2>1, SendApart
  <2>3. FaultFree
    BY <2>2 DEF FaultFree, faults
  <2>4. BlockedTaskStopped /\ NothingStranded
    BY <2>2, <2>3 DEF Calm
  <2>5. BlockedTaskStopped' /\ NothingStranded'
    BY <2>2, <2>4, SameRest
  <2>6. \A u \in Tabs \ {tab} : req'[u].pc = "idle"
    BY <2>1, <2>2, SendSingle
  <2>7. Easy(req[tab])'
    BY <2>1, <2>5, SendProper DEF Easy, Proper, Unblocked, Unstranded, BlockedTaskStopped, NothingStranded
  <2> QED
    BY <2>5, <2>6, <2>7
<1>2. CASE \E tab \in Tabs : Step(tab)
  <2>1. PICK tab \in Tabs : Step(tab)
    BY <1>2
  <2>2. Apart /\ faults' = faults
    <3>1. faults' = faults
      BY <2>1 DEF Step, ReadTask, ReadTaskTimer, MoveTask, ReadSlot, PauseOthers, Upsert, Stored, Convert, CreateEntry, DeleteTimer,
         ListCards, Strand, Place, ReadEvidence, Revert, CheckComplete, WriteTask, PauseBlocked
    <3> QED
      BY <2>1, <3>1, StepAlone DEF Apart
  <2>3. FaultFree
    BY <2>2 DEF FaultFree, faults
  <2>4. req[tab].pc # "idle" /\ Single /\ Placed /\ OneRuns
    BY <2>1, <2>2, BusyStep DEF Solo
  <2>5. InStep(req[tab]) /\ (\A u \in Tabs \ {tab} : req[u].pc = "idle") /\ Easy(req[tab])
    BY <2>2, <2>3, <2>4, SingleAlone DEF Calm
  <2>6. Easy(req[tab])'
    BY <2>1, <2>4, <2>5, EasyStep
  <2>7. \A u \in Tabs \ {tab} : req'[u].pc = "idle"
    BY <2>1, <2>5, StepOfOne
  <2>8. Quiet' => BlockedTaskStopped' /\ NothingStranded'
    BY <2>6 DEF Quiet, Easy, Unblocked, Unstranded, Waits, BlockedTaskStopped, NothingStranded
  <2> QED
    BY <2>6, <2>7, <2>8
<1>3. ~Crash /\ \A tab \in Tabs : ~Erring(tab)
  BY <1>0 DEF Crash, Erring, StatementFails, AuditFails, AnswerFails, Fails, FaultFree
<1>4. CASE Tick \/ UNCHANGED vars
  <2>1. UNCHANGED <<table, timers, task, req, faults>> /\ Apart
    BY <1>4 DEF Tick, vars, table, Apart, client
  <2>2. FaultFree /\ (\A tab \in Tabs : req[tab].pc # "idle" => Easy(req[tab])) /\ (Quiet => BlockedTaskStopped /\ NothingStranded)
    BY <2>1 DEF FaultFree, faults, Calm
  <2>3. Existing' = Existing /\ Running' = Running /\ \A t : OfTask(t)' = OfTask(t)
    BY <2>1 DEF Existing, Running, OfTask
  <2>4. ASSUME NEW tab \in Tabs, req'[tab].pc # "idle" PROVE Easy(req[tab])'
    <3>1. Easy(req[tab])
      BY <2>1, <2>2, <2>4
    <3> QED
      BY <2>1, <2>3, <3>1 DEF Easy, Proper, Unblocked, Unstranded, Waits
  <2>5. Quiet' => Quiet
    BY <2>1 DEF Quiet
  <2> QED
    BY <2>1, <2>2, <2>4, <2>5, SameRest
<1> QED
  BY <1>1, <1>2, <1>3, <1>4 DEF Next, Erring

\* The first state is at rest.
LEMMA InitCalm == Init => Calm
<1> SUFFICES ASSUME Init PROVE Calm
  OBVIOUS
<1>1. Quiet /\ \A tab \in Tabs : req[tab].pc = "idle"
  BY DEF Init, Quiet, Idle
<1>2. \A i \in Existing : timers[i].slot[1] = "manual" /\ timers[i].status = "paused"
  BY DEF Init, Existing
<1> QED
  BY <1>1, <1>2 DEF Calm, BlockedTaskStopped, NothingStranded, Running

\* At most one timer runs.
LEMMA OneAtMost ==
  ASSUME OneRuns
  PROVE  OneRunning
<1>1. CASE Running = {}
  BY <1>1, FS_EmptySet DEF OneRunning
<1>2. CASE Running # {}
  <2>1. PICK i \in Running : Running = {i}
    BY <1>2 DEF OneRuns
  <2>2. Cardinality({i}) = 1
    BY FS_Singleton
  <2> QED
    BY <2>1, <2>2 DEF OneRunning
<1> QED
  BY <1>1, <1>2

\* With requests one at a time and no fault, what is answered is settled: one timer runs, a
\* blocked task's timer is stopped, no card is stranded.
THEOREM SettledHolds == Spec => []Settled
<1>1. Init => Typed /\ Lone /\ Fresh /\ Solo /\ Calm
  BY InitTyped, InitLone, InitSolo, InitCalm
<1>2. Typed /\ Lone /\ Fresh /\ Solo /\ Calm /\ [Next]_vars => (Typed /\ Lone /\ Fresh /\ Solo /\ Calm)'
  BY NextTyped, LoneNext, FreshNext, SoloNext, CalmNext
<1>3. Typed /\ Lone /\ Fresh /\ Solo /\ Calm => Settled
  BY OneAtMost DEF Solo, Calm, Settled, Undisturbed, FaultFree
<1> QED
  BY <1>1, <1>2, <1>3, PTL DEF Spec

\* No finalization in flight has saved timer i already.
Clear(i) == \A tab \in Tabs : req[tab].pc = "delete" /\ req[tab].kind \in Saves => req[tab].id # i
\* A timer still there was saved more than once only by a fault.
Once == Apart => SavedOnce /\ \A i \in Existing : Clear(i) => saved[i] <= failures + crashes

\* A request alone that is not about to delete hides no entry.
LEMMA AllClear ==
  ASSUME NEW tab \in Tabs, \A u \in Tabs \ {tab} : req[u].pc = "idle", req[tab].pc # "delete"
  PROVE  \A i : Clear(i)
BY DEF Clear

\* Only an upsert adds a row.
LEMMA RowsOld ==
  ASSUME Typed, Placed, OneRuns, NEW tab \in Tabs, InStep(req[tab]), Step(tab), ~Upsert(tab)
  PROVE  Existing' \subseteq Existing
<1>1. CASE PauseOthers(tab)
  <2>1. PICK S \in SUBSET Running : S = {i \in Running : timers[i].slot # req[tab].slot}
    OBVIOUS
  <2>2. timers' = [i \in Ids |-> IF i \in S THEN Paused(timers[i]) ELSE timers[i]]
    BY <1>1, <2>1 DEF PauseOthers
  <2> QED
    BY <2>2, PausedRows
<1>2. CASE PauseBlocked(tab)
  <2>1. PICK S \in SUBSET Running : S = Running \intersect OfTask(req[tab].task)
    OBVIOUS
  <2>2. timers' = [i \in Ids |-> IF i \in S THEN Paused(timers[i]) ELSE timers[i]]
    BY <1>2, <2>1 DEF PauseBlocked
  <2> QED
    BY <2>2, PausedRows
<1>3. CASE Strand(tab)
  BY <1>3, StrandSlot, RenameSolo DEF Strand, At
<1>4. CASE Place(tab)
  BY <1>4, PlaceSlot, RenameSolo DEF Place, At
<1>5. CASE Convert(tab)
  <2>1. timers' = timers \/ \E i \in Cards : \A j \in Ids \ {i} : timers'[j] = timers[j]
    BY <1>5, LinkedRow DEF Convert, At
  <2> QED
    BY <2>1 DEF Existing, Cards
<1>6. CASE DeleteTimer(tab)
  BY <1>6, DeleteTimerSolo
<1>7. ASSUME ~(PauseOthers(tab) \/ PauseBlocked(tab) \/ Strand(tab) \/ Place(tab) \/ Convert(tab) \/ DeleteTimer(tab))
      PROVE  timers' = timers
  BY <1>7 DEF Step, ReadTask, ReadTaskTimer, MoveTask, ReadSlot, CreateEntry,
         ListCards, ReadEvidence, Revert, CheckComplete, WriteTask, table
<1> QED
  BY <1>1, <1>2, <1>3, <1>4, <1>5, <1>6, <1>7 DEF Existing

\* A lone request writes the row that it names.
LEMMA LoneTarget ==
  ASSUME Typed, Placed, NEW tab \in Tabs, req[tab].pc = "upsert", InStep(req[tab]),
         req[tab].kind = "save" /\ req[tab].id \notin Existing => InSlot(req[tab].slot) = {}
  PROVE  Target(req[tab]) = req[tab].id /\ InSlot(req[tab].slot) = {req[tab].id} \intersect Existing
<1>1. PICK r : r = req[tab]
  OBVIOUS
<1>2. r.kind \in {"save", "status"} \union TaskStarts \union {"pauseTask"} /\ Fit(r, now, born) /\ r.pc = "upsert"
  BY <1>1, WrittenRow DEF Typed
<1>3. r.id \in Existing => r.id \in InSlot(r.slot)
  <2>1. CASE r.kind \in {"save", "status"}
    BY <1>1, <1>2, <2>1 DEF InStep, Named, Early, ByCard, InSlot, Cards
  <2>2. CASE r.kind \in TaskStarts \union {"pauseTask"}
    <3>1. r.id \in Existing => r.id \in OfTask(r.task)
      BY <1>1, <1>2, <2>2 DEF InStep, Named, Early, ByTask
    <3>2. r.slot = SourceOf(r.task) /\ r.task \in Tasks
      BY <1>2, <2>2 DEF Fit, Carried, ByTask, Manuals, TaskStarts
    <3> QED
      BY <3>1, <3>2, IdAssumption DEF Placed, OfTask, InSlot
  <2> QED
    BY <1>2, <2>1, <2>2
<1>4. r.id \notin Existing => InSlot(r.slot) = {}
  <2>1. CASE r.kind = "save"
    BY <1>1, <2>1
  <2>2. CASE r.kind = "status"
    BY <1>1, <1>2, <2>2 DEF InStep, Named, Early, ByCard, Cards
  <2>3. CASE r.kind \in TaskStarts \union {"pauseTask"}
    <3>1. r.id \notin Existing => OfTask(r.task) = {}
      BY <1>1, <1>2, <2>3 DEF InStep, Named, Early, ByTask, OfTask
    <3>2. r.slot = SourceOf(r.task) /\ r.task \in Tasks
      BY <1>2, <2>3 DEF Fit, Carried, ByTask, Manuals, TaskStarts
    <3> QED
      BY <3>1, <3>2, SourceRow
  <2> QED
    BY <1>2, <2>1, <2>2, <2>3
<1>5. InSlot(r.slot) = {r.id} \intersect Existing
  BY <1>3, <1>4, InOneSlot DEF InSlot
<1>6. r.kind = "status" => r.at = r.id
  BY <1>1, <1>2 DEF InStep, Holds
<1>7. Target(r) = r.id
  BY <1>3, <1>4, <1>6, InOneSlot DEF Target
<1> QED
  BY <1>1, <1>5, <1>7

\* What a lone request adds was never saved.
LEMMA RowsNew ==
  ASSUME Typed, Placed, NEW tab \in Tabs, InStep(req[tab]), Upsert(tab), NEW i \in Existing', i \notin Existing
  PROVE  saved[i] = 0
<1>1. PICK r : r = req[tab]
  OBVIOUS
<1>2. /\ r.kind \in {"save", "status"} \union TaskStarts \union {"pauseTask"} /\ Fit(r, now, born) /\ r.pc = "upsert"
      /\ InStep(r)
  BY <1>1, WrittenRow DEF Typed, Upsert, Stored, At
<1>3. i = Target(r)
  BY <1>1 DEF Upsert, Stored, Existing, Typed, Tabled
<1>4. InSlot(r.slot) = {}
  BY <1>3, InOneSlot DEF Target, InSlot
<1>5. i = r.id
  <2>1. r.kind = "status" => r.at = r.id
    BY <1>2 DEF InStep, Holds
  <2> QED
    BY <1>3, <1>4, <2>1 DEF Target
<1>6. r.kind \in TaskStarts \union {"save"}
  BY <1>2, <1>5 DEF InStep, Named, Early, ByCard, ByTask, Cards, OfTask
<1> QED
  BY <1>2, <1>5, <1>6 DEF InStep, Named, Early

\* Alone, no statement saves a timer a second time unless a fault came between.
LEMMA OnceStep ==
  ASSUME Typed, Placed, OneRuns, NEW tab \in Tabs, InStep(req[tab]), \A u \in Tabs \ {tab} : req[u].pc = "idle",
         SavedOnce, \A i \in Existing : Clear(i) => saved[i] <= failures + crashes, Step(tab)
  PROVE  SavedOnce' /\ \A i \in Existing' : Clear(i)' => saved'[i] <= failures' + crashes'
<1>0. failures \in Nat /\ crashes \in Nat /\ saved \in [Ids -> Nat] /\ faults' = faults
  BY DEF Typed, Counted, Step, ReadTask, ReadTaskTimer, MoveTask, ReadSlot, PauseOthers, Upsert, Stored, Convert, CreateEntry, DeleteTimer,
         ListCards, Strand, Place, ReadEvidence, Revert, CheckComplete, WriteTask, PauseBlocked
<1>1. failures' = failures /\ crashes' = crashes
  BY <1>0 DEF faults
<1>2. CASE CreateEntry(tab)
  <2>1. PICK r : r = req[tab]
    OBVIOUS
  <2>2. Fit(r, now, born) /\ r.pc = "entry" /\ r \in Requests /\ timers' = timers
    BY <1>2, <2>1 DEF CreateEntry, At, Typed, table
  <2>3. r.kind \in Saves
    BY <2>2 DEF Fit, Route, Requests, AllKinds, TaskStarts, Saves
  <2>4. r.id \in Existing /\ r.at = r.id
    BY <2>1, <2>2, <2>3 DEF InStep, Named, Holds, Early, Saves, ByCard, ByTask, Cards, OfTask
  <2>5. saved[r.id] <= failures + crashes /\ \A i \in Existing : saved[i] <= failures + crashes
    BY <2>1, <2>2, <2>4, AllClear
  <2>6. saved' = [saved EXCEPT ![r.id] = @ + 1]
    BY <1>2, <2>1, <2>4, IdAssumption DEF CreateEntry, Existing
  <2>7. SavedOnce'
    BY <1>0, <1>1, <2>4, <2>5, <2>6 DEF SavedOnce, Existing
  <2>8. req'[tab].pc = "delete" /\ req'[tab].kind = r.kind /\ req'[tab].id = r.id
    <3>1. req' = [req EXCEPT ![tab] = [r EXCEPT !.pc = "delete"]]
      BY <1>2, <2>1 DEF CreateEntry, Goto, Typed
    <3> QED
      BY <2>2, <3>1 DEF Typed, Requests
  <2>9. ASSUME NEW i \in Existing', Clear(i)' PROVE saved'[i] <= failures + crashes
    <3>1. i # r.id
      BY <2>3, <2>8, <2>9 DEF Clear
    <3>2. i \in Existing
      BY <2>2 DEF Existing
    <3> QED
      BY <1>0, <2>5, <2>6, <3>1, <3>2 DEF Existing
  <2> QED
    BY <1>1, <2>7, <2>9
<1>3. CASE ~CreateEntry(tab)
  <2>1. saved' = saved
    BY <1>3 DEF Step, ReadTask, ReadTaskTimer, MoveTask, ReadSlot, PauseOthers, Upsert, Stored, Convert, DeleteTimer,
         ListCards, Strand, Place, ReadEvidence, Revert, CheckComplete, WriteTask, PauseBlocked, books
  <2>2. SavedOnce'
    BY <1>1, <2>1 DEF SavedOnce
  <2>3. ASSUME NEW i \in Existing', i \in Existing, Clear(i) PROVE saved'[i] <= failures + crashes
    BY <2>1, <2>3
  <2>4. ASSUME NEW i \in Existing', i \notin Existing PROVE saved'[i] <= failures + crashes
    <3>1. Upsert(tab)
      BY <2>4, RowsOld
    <3>2. saved[i] = 0
      BY <2>4, <3>1, RowsNew
    <3> QED
      BY <1>0, <2>1, <3>2
  <2>5. ASSUME NEW i \in Existing', i \in Existing, ~Clear(i) PROVE FALSE
    <3>1. req[tab].pc = "delete" /\ req[tab].kind \in Saves /\ req[tab].id = i
      BY <2>5 DEF Clear
    <3>2. DeleteTimer(tab)
      BY <3>1 DEF Step, ReadTask, ReadTaskTimer, MoveTask, ReadSlot, PauseOthers, Upsert, Stored, Convert, CreateEntry,
         ListCards, Strand, Place, ReadEvidence, Revert, CheckComplete, WriteTask, PauseBlocked, At
    <3>3. i \in IF req[tab].kind \in {"discard", "finalize"} THEN InSlot(req[tab].slot) ELSE OfTask(req[tab].task)
      BY <3>1 DEF InStep, Named, Early, Saves, ByCard, ByTask, Cards, InSlot, OfTask
    <3>4. timers'[i] = NoTimer
      BY <3>2, <3>3 DEF DeleteTimer, InSlot, OfTask, Existing
    <3> QED
      BY <2>5, <3>4 DEF Existing
  <2> QED
    BY <1>1, <2>2, <2>3, <2>4, <2>5
<1> QED
  BY <1>2, <1>3

\* Every step keeps Once.
LEMMA OnceNext ==
  ASSUME Typed, Typed', Lone, Solo, Once, [Next]_vars
  PROVE  Once'
<1> SUFFICES ASSUME Apart' PROVE SavedOnce' /\ \A i \in Existing' : Clear(i)' => saved'[i] <= failures' + crashes'
  BY DEF Once
<1>0. failures \in Nat /\ crashes \in Nat /\ saved \in [Ids -> Nat] /\ failures' \in Nat /\ crashes' \in Nat
  BY DEF Typed, Counted
<1>1. CASE \E tab \in Tabs : Request(tab)
  <2>1. PICK tab \in Tabs : Request(tab)
    BY <1>1
  <2>2. Apart /\ Quiet /\ UNCHANGED <<table, books, faults>>
    BY <2>1, SendApart
  <2>3. SavedOnce /\ \A i \in Existing : saved[i] <= failures + crashes
    BY <2>1, <2>2 DEF Once, Clear, Quiet
  <2> QED
    BY <2>2, <2>3 DEF SavedOnce, table, books, faults, Existing
<1>2. CASE \E tab \in Tabs : Step(tab)
  <2>1. PICK tab \in Tabs : Step(tab)
    BY <1>2
  <2>2. Apart
    BY <2>1, StepAlone DEF Apart
  <2>3. req[tab].pc # "idle" /\ Single /\ Placed /\ OneRuns
    BY <2>1, <2>2, BusyStep DEF Solo
  <2>4. InStep(req[tab]) /\ \A u \in Tabs \ {tab} : req[u].pc = "idle"
    BY <2>3, SingleAlone
  <2> QED
    BY <2>1, <2>2, <2>3, <2>4, OnceStep DEF Once
<1>f. PICK f \in Nat, c \in Nat : f = failures /\ c = crashes
  BY <1>0
<1>3. ASSUME Apart, saved' = saved,
             (failures' = f + 1 /\ crashes' = c) \/ (failures' = f /\ crashes' = c + 1)
      PROVE  SavedOnce' /\ \A i \in Existing' : Clear(i)' => saved'[i] <= failures' + crashes'
  <2>1. \A i \in Ids : saved[i] <= 1 + f + c
    BY <1>3, <1>f DEF Once, SavedOnce
  <2>2. ASSUME NEW i \in Ids PROVE saved'[i] <= failures' + crashes' /\ saved'[i] <= 1 + failures' + crashes'
    <3>1. PICK n \in Nat : n = saved[i]
      BY <1>0
    <3>2. n <= 1 + f + c /\ saved'[i] = n
      BY <1>3, <2>1, <3>1
    <3>3. n <= (f + 1) + c /\ n <= 1 + (f + 1) + c /\ n <= f + (c + 1) /\ n <= 1 + f + (c + 1)
      BY <3>2
    <3>4. CASE failures' = f + 1 /\ crashes' = c
      BY <3>2, <3>3, <3>4
    <3>5. CASE failures' = f /\ crashes' = c + 1
      BY <3>2, <3>3, <3>5
    <3> QED
      BY <1>3, <3>4, <3>5
  <2> QED
    BY <2>2 DEF SavedOnce, Existing
<1>4. CASE Crash \/ \E tab \in Tabs : Erring(tab)
  <2>1. Apart /\ saved' = saved
    BY <1>4 DEF Crash, Erring, StatementFails, AuditFails, AnswerFails, Stored, Apart, client, books
  <2>2. (failures' = failures /\ crashes' = crashes + 1) \/ (failures' = failures + 1 /\ crashes' = crashes)
    BY <1>4 DEF Crash, Erring, StatementFails, AuditFails, AnswerFails, Fails
  <2>4. (failures' = f + 1 /\ crashes' = c) \/ (failures' = f /\ crashes' = c + 1)
    BY <1>f, <2>2
  <2> QED
    BY <1>3, <2>1, <2>4
<1>5. CASE Tick \/ UNCHANGED vars
  <2>1. Apart /\ UNCHANGED <<timers, saved, req, failures, crashes>>
    BY <1>5 DEF Tick, vars, Apart, client, table, books, faults
  <2> QED
    BY <2>1 DEF Once, SavedOnce, Existing, Clear
<1> QED
  BY <1>1, <1>2, <1>4, <1>5 DEF Next, Erring

\* At first nothing is saved.
LEMMA InitOnce == Init => Once
<1> SUFFICES ASSUME Init PROVE SavedOnce /\ \A i \in Existing : saved[i] <= failures + crashes
  BY DEF Once
<1>1. failures = 0 /\ crashes = 0 /\ \A i \in Ids : saved[i] = 0
  BY DEF Init
<1> QED
  BY <1>1 DEF SavedOnce, Existing

\* Sums, one element after another: the element picked next and the sum it adds to.
Pick(s) == CHOOSE x \in s : TRUE
Adds(f, it, s) == IF s = {} THEN 0 ELSE f[Pick(s)] + it[s \ {Pick(s)}]
SumsUp(S, f, it) == it \in [SUBSET S -> Int] /\ \A s \in SUBSET S : it[s] = Adds(f, it, s)
Small(S, n) == {s \in SUBSET S : Cardinality(s) <= n}

\* A set of natural numbers has a least one: the induction the sums below are built on.
LEMMA LeastNat ==
  ASSUME NEW S \in SUBSET Nat, S # {}
  PROVE  \E x \in S : \A y \in S : x <= y
<1>1. PICK x \in S : \A y \in S : ~ (<<y, x>> \in OpToRel(<, Nat))
  BY NatLessThanWellFounded, WFMin
<1>2. \A y \in S : ~ (y < x)
  BY <1>1 DEF OpToRel
<1> QED
  BY <1>2

\* A finite set of integers can be added up one after another.
LEMMA PartialSums ==
  ASSUME NEW S, IsFiniteSet(S), NEW f \in [S -> Int]
  PROVE  \E it : SumsUp(S, f, it)
<1> DEFINE Good(n) == \E it \in [Small(S, n) -> Int] : \A s \in Small(S, n) : it[s] = Adds(f, it, s)
           Bad == {n \in Nat : ~Good(n)}
<1>1. SUFFICES ASSUME Bad # {} PROVE FALSE
  <2>1. Cardinality(S) \in Nat /\ Small(S, Cardinality(S)) = SUBSET S
    BY FS_Subset, FS_CardinalityType DEF Small
  <2>2. Good(Cardinality(S))
    BY <1>1, <2>1
  <2> QED
    BY <2>1, <2>2 DEF SumsUp
<1>2. PICK n \in Bad : \A m \in Bad : n <= m
  BY <1>1, LeastNat
<1>3. \A s \in SUBSET S : IsFiniteSet(s) /\ Cardinality(s) \in Nat /\ (s # {} => Pick(s) \in s /\ Pick(s) \in S)
  BY FS_Subset, FS_CardinalityType DEF Pick
<1>4. \A s \in SUBSET S : s # {} => Cardinality(s \ {Pick(s)}) = Cardinality(s) - 1
  BY <1>3, FS_RemoveElement
<1>5. CASE n = 0
  <2>1. \A s \in Small(S, 0) : s = {}
    BY <1>3, FS_EmptySet DEF Small
  <2>2. [s \in Small(S, 0) |-> 0] \in [Small(S, 0) -> Int]
    OBVIOUS
  <2>3. Good(0)
    BY <2>1, <2>2 DEF Adds
  <2> QED
    BY <1>2, <1>5, <2>3
<1>6. CASE n # 0
  <2>1. n - 1 \in Nat /\ Good(n - 1)
    BY <1>2, <1>6
  <2>2. PICK it \in [Small(S, n - 1) -> Int] : \A s \in Small(S, n - 1) : it[s] = Adds(f, it, s)
    BY <2>1
  <2> DEFINE up == [s \in Small(S, n) |-> IF s \in Small(S, n - 1) THEN it[s] ELSE Adds(f, it, s)]
  <2>3. \A s \in Small(S, n) : s # {} => s \ {Pick(s)} \in Small(S, n - 1) /\ f[Pick(s)] \in Int
    BY <1>2, <1>3, <1>4 DEF Small
  <2>4. up \in [Small(S, n) -> Int]
    BY <2>3 DEF Adds
  <2>5. \A s \in Small(S, n - 1) : s \in Small(S, n) /\ up[s] = it[s]
    BY <1>2, <1>3 DEF Small
  <2>6. \A s \in Small(S, n) : up[s] = Adds(f, it, s)
    BY <2>2
  <2>7. \A s \in Small(S, n) : Adds(f, up, s) = Adds(f, it, s)
    BY <2>3, <2>5 DEF Adds
  <2>8. \A s \in Small(S, n) : up[s] = Adds(f, up, s)
    BY <2>6, <2>7
  <2>9. Good(n)
    BY <2>4, <2>8
  <2> QED
    BY <1>2, <2>9
<1> QED
  BY <1>5, <1>6

\* SumFunction is the last value of a function that adds one element after another.
LEMMA SumUnfolds ==
  ASSUME NEW S, IsFiniteSet(S), NEW f \in [S -> Int]
  PROVE  \E it : SumsUp(S, f, it) /\ SumFunction(f) = it[S]
<1>1. PICK it : SumsUp(S, f, it)
  BY PartialSums
<1> DEFINE Rec(g) == g = [s \in SUBSET S |-> IF s = {} THEN 0 ELSE f[CHOOSE x \in s : TRUE] + g[s \ {CHOOSE x \in s : TRUE}]]
           sum == CHOOSE g : Rec(g)
<1>2. SumFunction(f) = sum[S]
  BY DEF SumFunction, SumFunctionOnSet, FoldFunctionOnSet, MapThenFoldSet
<1>3. Rec(it)
  BY <1>1 DEF SumsUp, Adds, Pick
<1>4. Rec(sum)
  BY <1>3
<1> HIDE DEF sum
<1>5. \A s \in SUBSET S : sum[s] = Adds(f, sum, s)
  BY <1>4 DEF Adds, Pick
<1>6. \A s \in SUBSET S : sum[s] \in Int
  <2> DEFINE Bad == {n \in Nat : \E s \in SUBSET S : Cardinality(s) = n /\ sum[s] \notin Int}
  <2>1. SUFFICES ASSUME Bad # {} PROVE FALSE
    BY FS_Subset, FS_CardinalityType
  <2>2. PICK n \in Bad : \A m \in Bad : n <= m
    BY <2>1, LeastNat
  <2>3. PICK s \in SUBSET S : Cardinality(s) = n /\ sum[s] \notin Int
    BY <2>2
  <2>4. s # {}
    <3>1. s = {} => sum[s] = 0
      BY <1>4
    <3> QED
      BY <3>1, <2>3
  <2>5. Pick(s) \in s /\ IsFiniteSet(s) /\ Cardinality(s \ {Pick(s)}) = n - 1 /\ Cardinality(s \ {Pick(s)}) \in Nat
    BY <2>3, <2>4, FS_Subset, FS_RemoveElement, FS_CardinalityType DEF Pick
  <2>6. sum[s \ {Pick(s)}] \in Int
    BY <2>2, <2>5
  <2>7. sum[s] = f[Pick(s)] + sum[s \ {Pick(s)}]
    BY <1>5, <2>4 DEF Adds
  <2> QED
    BY <2>3, <2>5, <2>6, <2>7
<1>7. sum \in [SUBSET S -> Int]
  BY <1>4, <1>6
<1>8. SumsUp(S, f, sum)
  BY <1>5, <1>7 DEF SumsUp
<1> QED
  BY <1>2, <1>8

\* It adds the picked element to the sum of the others.
LEMMA SumStep ==
  ASSUME NEW S, IsFiniteSet(S), NEW f \in [S -> Int], NEW it, SumsUp(S, f, it), NEW s \in SUBSET S, s # {}
  PROVE  /\ Pick(s) \in s /\ s \ {Pick(s)} \in SUBSET S
         /\ Cardinality(s \ {Pick(s)}) \in Nat /\ Cardinality(s \ {Pick(s)}) < Cardinality(s)
         /\ it[s] = f[Pick(s)] + it[s \ {Pick(s)}]
<1>1. IsFiniteSet(s) /\ Pick(s) \in s
  BY FS_Subset DEF Pick
<1>2. Cardinality(s \ {Pick(s)}) = Cardinality(s) - 1 /\ IsFiniteSet(s \ {Pick(s)})
  BY <1>1, FS_RemoveElement
<1>3. Cardinality(s) \in Nat /\ Cardinality(s \ {Pick(s)}) \in Nat
  BY <1>1, <1>2, FS_CardinalityType
<1>4. it[s] = f[Pick(s)] + it[s \ {Pick(s)}]
  BY DEF SumsUp, Adds
<1> QED
  BY <1>1, <1>2, <1>3, <1>4

\* It starts from zero, through integers.
LEMMA SumTypes ==
  ASSUME NEW S, NEW f, NEW it, SumsUp(S, f, it)
  PROVE  it \in [SUBSET S -> Int] /\ it[{}] = 0
BY DEF SumsUp, Adds

\* Changing one value changes the sum by the difference.
LEMMA SumChange ==
  ASSUME NEW S, IsFiniteSet(S), NEW f \in [S -> Int], NEW g \in [S -> Int], NEW i \in S,
         \A j \in S \ {i} : g[j] = f[j]
  PROVE  SumFunction(g) = SumFunction(f) + (g[i] - f[i])
<1>1. PICK F : SumsUp(S, f, F) /\ SumFunction(f) = F[S]
  BY SumUnfolds
<1>2. PICK G : SumsUp(S, g, G) /\ SumFunction(g) = G[S]
  BY SumUnfolds
<1>a. F \in [SUBSET S -> Int] /\ G \in [SUBSET S -> Int] /\ F[{}] = 0 /\ G[{}] = 0
  <2>1. F \in [SUBSET S -> Int] /\ F[{}] = 0
    BY <1>1, SumTypes, Zenon
  <2>2. G \in [SUBSET S -> Int] /\ G[{}] = 0
    BY <1>2, SumTypes, Zenon
  <2> QED
    BY <2>1, <2>2
<1> DEFINE Right(s) == G[s] = F[s] + (IF i \in s THEN g[i] - f[i] ELSE 0)
           Bad == {n \in Nat : \E s \in SUBSET S : Cardinality(s) = n /\ ~Right(s)}
<1>3. SUFFICES ASSUME Bad # {} PROVE FALSE
  <2>1. Cardinality(S) \in Nat /\ S \in SUBSET S
    BY FS_CardinalityType
  <2>2. Right(S)
    BY <1>3, <2>1
  <2> QED
    BY <1>1, <1>2, <2>2
<1>4. PICK n \in Bad : \A m \in Bad : n <= m
  BY <1>3, LeastNat
<1>5. PICK s \in SUBSET S : Cardinality(s) = n /\ ~Right(s)
  BY <1>4
<1>6. s # {}
  <2>1. s = {} => F[s] = 0 /\ G[s] = 0 /\ i \notin s
    BY <1>a
  <2> QED
    BY <2>1, <1>5
<1>7. /\ Pick(s) \in s /\ s \ {Pick(s)} \in SUBSET S
      /\ Cardinality(s \ {Pick(s)}) \in Nat /\ Cardinality(s \ {Pick(s)}) < Cardinality(s)
      /\ F[s] = f[Pick(s)] + F[s \ {Pick(s)}]
  <2> HIDE DEF Bad
  <2> QED
    BY <1>1, <1>6, SumStep, ZenonT(30)
<1>8. G[s] = g[Pick(s)] + G[s \ {Pick(s)}]
  <2> HIDE DEF Bad
  <2>1. /\ Pick(s) \in s /\ s \ {Pick(s)} \in SUBSET S
        /\ Cardinality(s \ {Pick(s)}) \in Nat /\ Cardinality(s \ {Pick(s)}) < Cardinality(s)
        /\ G[s] = g[Pick(s)] + G[s \ {Pick(s)}]
    BY <1>2, <1>6, SumStep, ZenonT(30)
  <2> QED
    BY <2>1
<1> DEFINE c == Pick(s)
<1>9. Right(s \ {c})
  BY <1>4, <1>5, <1>7
<1>10. F[s \ {c}] \in Int /\ G[s \ {c}] \in Int /\ f[c] \in Int /\ g[c] \in Int /\ f[i] \in Int /\ g[i] \in Int
  BY <1>a, <1>7
<1>11. CASE c = i
  BY <1>5, <1>7, <1>8, <1>9, <1>10, <1>11
<1>12. CASE c # i
  <2>1. g[c] = f[c] /\ (i \in s <=> i \in s \ {c})
    BY <1>7, <1>12
  <2> QED
    BY <1>5, <1>7, <1>8, <1>9, <1>10, <2>1
<1> QED
  BY <1>11, <1>12

\* A sum of zeros is zero.
LEMMA SumZero ==
  ASSUME NEW S, IsFiniteSet(S), NEW f \in [S -> Int], \A j \in S : f[j] = 0
  PROVE  SumFunction(f) = 0
<1>1. PICK F : SumsUp(S, f, F) /\ SumFunction(f) = F[S]
  BY SumUnfolds
<1> DEFINE Bad == {n \in Nat : \E s \in SUBSET S : Cardinality(s) = n /\ F[s] # 0}
<1>2. SUFFICES ASSUME Bad # {} PROVE FALSE
  BY <1>1, FS_CardinalityType
<1>3. PICK n \in Bad : \A m \in Bad : n <= m
  BY <1>2, LeastNat
<1>4. PICK s \in SUBSET S : Cardinality(s) = n /\ F[s] # 0
  BY <1>3
<1>5. s # {}
  <2>1. F[{}] = 0
    BY <1>1, SumTypes
  <2> QED
    BY <2>1, <1>4
<1>6. /\ Pick(s) \in s /\ s \ {Pick(s)} \in SUBSET S
      /\ Cardinality(s \ {Pick(s)}) \in Nat /\ Cardinality(s \ {Pick(s)}) < Cardinality(s)
      /\ F[s] = f[Pick(s)] + F[s \ {Pick(s)}]
  BY <1>1, <1>5, SumStep
<1>7. F[s \ {Pick(s)}] = 0
  BY <1>3, <1>4, <1>6
<1> QED
  BY <1>4, <1>6, <1>7

\* A sum of integers is an integer.
LEMMA SumInteger ==
  ASSUME NEW S, IsFiniteSet(S), NEW f \in [S -> Int]
  PROVE  SumFunction(f) \in Int
<1>1. PICK F : SumsUp(S, f, F) /\ SumFunction(f) = F[S]
  BY SumUnfolds
<1> QED
  BY <1>1 DEF SumsUp

\* The time a row shows; the time since a request left whose statements still rely on it; and
\* the time that is booked already while its row is still there.
Worth(i) == IF i \in Existing THEN Elapsed(timers[i]) ELSE 0
Slack(r) == IF r.pc \in Early \ {"delete"} THEN now - r.since ELSE 0
Hidden(r) == IF r.kind \in Saves /\ r.pc = "delete" THEN Worth(r.id) ELSE 0

\* TimeKept and TimeEarned with what the request in flight is about to do
Kept(r) == booked + Shown + dropped + latency >= ran + Slack(r) + Hidden(r)
Earned(r) == booked + Shown + Slack(r) <= ran + latency + Entries + Hidden(r)

\* What a request writes is at most as old as the request.
Carrying(r) == r.kind \in {"save", "status", "startTask", "pauseTask"} /\ r.pc \in Early
Timely(r) ==
  /\ Carrying(r) => r.sent <= Worth(r.id) /\ Worth(r.id) <= r.sent + (now - r.since)
  /\ r.kind = "dialogTask" => r.sent = 0
  /\ r.kind \in Saves /\ r.pc = "entry" => r.sent <= Worth(r.id) + 1 /\ Worth(r.id) <= r.sent + (now - r.since)
  /\ r.kind = "save" /\ r.id \notin Existing => InSlot(r.slot) = {}
Even(r) == Kept(r) /\ Earned(r) /\ Timely(r)
\* All accounted for, or the balance of the one request in flight.
Balanced ==
  Apart /\ FaultFree /\ discarded = {} =>
    /\ \A tab \in Tabs : req[tab].pc # "idle" => Even(req[tab])
    /\ Quiet => TimeKept /\ TimeEarned

\* What a row shows is a natural number,
LEMMA WorthNat ==
  ASSUME Typed, NEW i \in Ids
  PROVE  Worth(i) \in Nat
<1>1. i \in Existing => timers[i] \in Rows /\ (timers[i].status = "running" => timers[i].since <= now) /\ now \in Nat
  BY DEF Typed, Tabled, Counted, Existing, Running
<1> QED
  BY <1>1, PausedRow DEF Worth

\* also after a step.
LEMMA WorthNatNext ==
  ASSUME Typed', NEW i \in Ids
  PROVE  Worth(i)' \in Nat
<1>1. i \in Existing' => timers'[i] \in Rows /\ (timers'[i].status = "running" => timers'[i].since <= now') /\ now' \in Nat
  BY DEF Typed, Tabled, Counted, Existing, Running
<1>2. PICK row : row = timers'[i]
  OBVIOUS
<1>3. PICK t : t = now'
  OBVIOUS
<1>4. i \in Existing' => row.acc \in Nat /\ (row.status = "running" => row.since \in Nat /\ row.since <= t) /\ t \in Nat
  BY <1>1, <1>2, <1>3 DEF Rows
<1>5. i \in Existing' => row.acc + (IF row.status = "running" THEN t - row.since ELSE 0) \in Nat
  BY <1>4
<1>6. Worth(i)' = IF i \in Existing' THEN row.acc + (IF row.status = "running" THEN t - row.since ELSE 0) ELSE 0
  BY <1>2, <1>3 DEF Worth, Elapsed
<1> QED
  BY <1>5, <1>6

\* The time that is shown and the entries that are saved are integers.
LEMMA SumsInteger ==
  ASSUME Typed
  PROVE  Shown \in Int /\ Entries \in Int
<1>1. PICK f : f = [i \in Ids |-> Worth(i)]
  OBVIOUS
<1>2. f \in [Ids -> Int] /\ Shown = SumFunction(f)
  BY <1>1, WorthNat DEF Shown, Worth
<1>3. PICK g : g = saved
  OBVIOUS
<1>4. g \in [Ids -> Int] /\ Entries = SumFunction(g)
  BY <1>3 DEF Typed, Counted, Entries
<1> QED
  BY <1>2, <1>4, SumInteger, IdAssumption

\* If one row shows more, the timers together show as much more.
LEMMA ShownChange ==
  ASSUME Typed, Typed', NEW i \in Ids, \A j \in Ids \ {i} : Worth(j)' = Worth(j)
  PROVE  Shown' = Shown + (Worth(i)' - Worth(i))
<1>1. PICK f : f = [j \in Ids |-> Worth(j)]
  OBVIOUS
<1>2. PICK g : g = [j \in Ids |-> Worth(j)']
  OBVIOUS
<1>3. f \in [Ids -> Int] /\ Shown = SumFunction(f) /\ f[i] = Worth(i)
  BY <1>1, WorthNat DEF Shown, Worth
<1>4. g \in [Ids -> Int] /\ g[i] = Worth(i)'
  BY <1>2, WorthNatNext
<1>5. Shown' = SumFunction(g)
  BY <1>2 DEF Shown, Worth
<1>6. \A j \in Ids \ {i} : g[j] = f[j]
  BY <1>1, <1>2
<1>7. SumFunction(g) = SumFunction(f) + (g[i] - f[i])
  BY <1>3, <1>4, <1>6, SumChange, IdAssumption
<1> QED
  BY <1>3, <1>4, <1>5, <1>7

\* Rows that show the same together show the same.
LEMMA ShownSame ==
  ASSUME \A j \in Ids : Worth(j)' = Worth(j)
  PROVE  Shown' = Shown
<1>1. [j \in Ids |-> Worth(j)]' = [j \in Ids |-> Worth(j)]
  OBVIOUS
<1> QED
  BY <1>1 DEF Shown, Worth

\* A saved timer is one more entry.
LEMMA EntriesChange ==
  ASSUME Typed, NEW i \in Ids, saved' = [saved EXCEPT ![i] = @ + 1]
  PROVE  Entries' = Entries + 1
<1>1. PICK f : f = saved
  OBVIOUS
<1>2. PICK g : g = [f EXCEPT ![i] = @ + 1]
  OBVIOUS
<1>3. f \in [Ids -> Nat] /\ g \in [Ids -> Nat] /\ g[i] = f[i] + 1 /\ \A j \in Ids \ {i} : g[j] = f[j]
  BY <1>1, <1>2 DEF Typed, Counted
<1>4. f \in [Ids -> Int] /\ g \in [Ids -> Int]
  BY <1>3
<1>5. SumFunction(g) = SumFunction(f) + (g[i] - f[i])
  BY <1>3, <1>4, SumChange, IdAssumption
<1>6. SumFunction(f) \in Int
  BY <1>4, SumInteger, IdAssumption
<1>7. Entries = SumFunction(f) /\ Entries' = SumFunction(g)
  BY <1>1, <1>2 DEF Entries
<1> QED
  BY <1>3, <1>5, <1>6, <1>7

\* The first state has no time to account for.
LEMMA InitBalanced == Init => Balanced
<1> SUFFICES ASSUME Init PROVE Quiet /\ TimeKept /\ TimeEarned
  BY DEF Balanced, Quiet
<1>1. Typed
  BY InitTyped
<1>2. Quiet /\ booked = 0 /\ dropped = 0 /\ ran = 0 /\ latency = 0 /\ \A i \in Ids : saved[i] = 0
  BY DEF Init, Quiet, Idle
<1>3. \A i \in Existing : timers[i].status = "paused" /\ timers[i].acc = 0
  BY DEF Init, Existing
<1>4. \A i \in Ids : Worth(i) = 0
  BY <1>3 DEF Worth, Elapsed
<1>5. Shown = 0
  <2>1. PICK f : f = [i \in Ids |-> Worth(i)]
    OBVIOUS
  <2>2. f \in [Ids -> Int] /\ (\A i \in Ids : f[i] = 0) /\ Shown = SumFunction(f)
    BY <1>4, <2>1 DEF Shown, Worth
  <2> QED
    BY <2>2, SumZero, IdAssumption
<1>6. Entries = 0
  <2>1. PICK f : f = saved
    OBVIOUS
  <2>2. f \in [Ids -> Int] /\ (\A i \in Ids : f[i] = 0) /\ Entries = SumFunction(f)
    BY <1>1, <1>2, <2>1 DEF Typed, Counted, Entries
  <2> QED
    BY <2>2, SumZero, IdAssumption
<1> QED
  BY <1>2, <1>5, <1>6 DEF TimeKept, TimeEarned

\* After a statement the request is answered and all time accounted for, or it goes on.
Ends(new) == IF new.pc = "idle" THEN TimeKept /\ TimeEarned ELSE Even(new)

\* A request about a timer carries its id.
LEMMA NamedId ==
  ASSUME Typed, NEW r, Fit(r, now, born), r.kind \notin {"none", "setTask", "complete"}
  PROVE  r.id \in Ids
BY DEF Typed, Counted, Fit, Carried

\* The time since a request left is a natural number.
LEMMA SlackNat ==
  ASSUME Typed, NEW r, Fit(r, now, born)
  PROVE  Slack(r) \in Nat /\ now - r.since \in Nat /\ r.since \in Nat /\ r.sent \in Nat
<1>1. r.since \in Nat /\ r.since <= now /\ now \in Nat /\ r.sent \in Nat
  BY DEF Typed, Counted, Fit, Requests
<1> QED
  BY <1>1 DEF Slack

\* A finalization books what the row shows, and a second for one that shows none.
LEMMA DueWorth ==
  ASSUME Typed, NEW tab \in Tabs, NEW r, r = req[tab], InStep(r), r.kind \in Saves, r.pc \in Early
  PROVE  Due(r) = Larger(1, Worth(r.id))
<1>1. Fit(r, now, born)
  BY DEF Typed
<1>2. CASE r.kind = "finalizeTask"
  <2>1. r.task \in Tasks /\ r.id \in OfTask(r.task)
    BY <1>1, <1>2 DEF Fit, Carried, Manuals, InStep, Named, ByTask
  <2>2. One(OfTask(r.task)) = r.id
    BY <2>1, OfOneTask
  <2> QED
    BY <1>2, <2>1, <2>2, IdAssumption DEF Due, Worth, OfTask, Existing
<1>3. CASE r.kind = "finalize"
  <2>1. r.id \in InSlot(r.slot)
    BY <1>3 DEF InStep, Named, ByCard, Cards, InSlot
  <2>2. One(InSlot(r.slot)) = r.id
    BY <2>1, InOneSlot
  <2> QED
    BY <1>3, <2>1, <2>2, IdAssumption DEF Due, Worth, InSlot, Existing
<1> QED
  BY <1>2, <1>3 DEF Saves

\* A statement that neither books nor writes times keeps the balance.
LEMMA EvenGoes ==
  ASSUME Typed, Typed', NEW tab \in Tabs, NEW r, r = req[tab], NEW new, new = req'[tab],
         InStep(r), Even(r), Goes(new, r), r.pc \notin {"idle", "entry", "delete"},
         UNCHANGED <<booked, saved, dropped, clock>>, \A i \in Ids : Worth(i)' = Worth(i),
         r.kind = "save" => Existing' = Existing /\ InSlot(r.slot)' = InSlot(r.slot)
  PROVE  Even(new)'
<1>1. Fit(r, now, born) /\ Fit(new, now', born') /\ now' = now /\ Same(new, r) /\ Ahead(r.pc, new.pc)
  BY DEF Typed, clock, Goes
<1>2. new.pc \in Early => r.pc \in Early \ {"delete"}
  BY <1>1 DEF Ahead, Early
<1>3. Slack(r) \in Nat /\ now - r.since \in Nat /\ r.sent \in Nat
  BY <1>1, SlackNat
<1>4. Slack(new)' \in Nat /\ Slack(new)' <= Slack(r)
  BY <1>1, <1>2, <1>3 DEF Slack, Same
<1>5. Hidden(r) = 0 /\ Hidden(new)' = 0
  <2>1. ~(new.kind \in Saves /\ new.pc = "delete")
    BY <1>1 DEF Goes, Same, Ahead, Saves
  <2> QED
    BY <2>1 DEF Hidden
<1>6. Shown' = Shown /\ Entries' = Entries /\ Shown \in Int /\ Entries \in Int
  BY ShownSame, SumsInteger DEF Entries
<1>7. booked \in Nat /\ dropped \in Nat /\ ran \in Nat /\ latency \in Nat
  BY DEF Typed, Counted
<1>8. Kept(new)' /\ Earned(new)'
  <2>1. booked' = booked /\ dropped' = dropped /\ ran' = ran /\ latency' = latency
    BY DEF clock
  <2>2. booked + Shown + dropped + latency >= ran + Slack(r) /\ booked + Shown + Slack(r) <= ran + latency + Entries
    BY <1>3, <1>5, <1>6, <1>7 DEF Even, Kept, Earned
  <2>3. booked + Shown + dropped + latency >= ran + Slack(new)' /\ booked + Shown + Slack(new)' <= ran + latency + Entries
    BY <1>3, <1>4, <1>6, <1>7, <2>2
  <2> QED
    BY <1>4, <1>5, <1>6, <1>7, <2>1, <2>3 DEF Kept, Earned
<1>9. Timely(new)'
  <2>1. Carrying(new) => r.sent <= Worth(r.id) /\ Worth(r.id) <= r.sent + (now - r.since) /\ new.sent = r.sent /\ r.id \in Ids
    <3>1. Carrying(new) => new.pc # "entry" /\ Carrying(r)
      BY <1>1, <1>2 DEF Carrying, Fit, Route, Same, TaskStarts
    <3> QED
      BY <1>1, <3>1, NamedId DEF Carrying, Even, Timely, Goes
  <2>2. Carrying(new)' => new.sent <= Worth(new.id)' /\ Worth(new.id)' <= new.sent + (now' - new.since)
    BY <1>1, <2>1 DEF Same, Carrying
  <2>3. new.kind = "dialogTask" => new.sent = 0
    BY <1>1 DEF Even, Timely, Goes, Same, Fit, Route, TaskStarts
  <2>4. ASSUME new.kind \in Saves, new.pc = "entry"
        PROVE  new.sent <= Worth(new.id)' + 1 /\ Worth(new.id)' <= new.sent + (now' - new.since)
    <3>1. new.sent = Larger(1, Worth(r.id)) /\ r.id \in Ids
      BY <1>1, <1>2, <2>4, DueWorth, NamedId DEF Goes, Same, Saves, Early
    <3>2. PICK w \in Nat : w = Worth(r.id)
      BY <3>1, WorthNat
    <3>3. PICK d \in Nat : d = now - r.since
      BY <1>3
    <3>4. new.sent <= w + 1 /\ w <= new.sent + d
      BY <3>1, <3>2 DEF Larger
    <3>5. Worth(new.id)' = w /\ now' - new.since = d
      BY <1>1, <3>1, <3>2, <3>3 DEF Same
    <3> QED
      BY <3>4, <3>5
  <2>5. new.kind = "save" /\ new.id \notin Existing' => InSlot(new.slot)' = {}
    BY <1>1 DEF Even, Timely, Same
  <2> QED
    BY <2>2, <2>3, <2>4, <2>5 DEF Timely
<1> QED
  BY <1>8, <1>9 DEF Even

\* So does one that ends its request:
LEMMA EvenEnds ==
  ASSUME Typed, NEW tab \in Tabs, NEW r, r = req[tab],
         Even(r), r.pc \notin {"entry", "delete"},
         UNCHANGED <<booked, saved, dropped, clock>>, \A i \in Ids : Worth(i)' = Worth(i)
  PROVE  TimeKept' /\ TimeEarned'
<1>1. Slack(r) \in Nat
  BY SlackNat DEF Typed
<1>5. Hidden(r) = 0
  BY DEF Hidden
<1>6. Shown' = Shown /\ Entries' = Entries /\ Shown \in Int /\ Entries \in Int
  BY ShownSame, SumsInteger DEF Entries
<1>7. booked \in Nat /\ dropped \in Nat /\ ran \in Nat /\ latency \in Nat
  BY DEF Typed, Counted
<1>8. booked' = booked /\ dropped' = dropped /\ ran' = ran /\ latency' = latency
  BY DEF clock
<1>9. booked + Shown + dropped >= ran - latency /\ booked + Shown <= ran + latency + Entries
  BY <1>1, <1>5, <1>6, <1>7 DEF Even, Kept, Earned
<1> QED
  BY <1>6, <1>8, <1>9 DEF TimeKept, TimeEarned

\* every such statement, whether the request goes on or is answered.
LEMMA EvenStays ==
  ASSUME Typed, Typed', NEW tab \in Tabs, NEW r, r = req[tab], NEW new, new = req'[tab],
         InStep(r), Even(r), Step(tab), r.pc \notin {"idle", "entry", "delete"},
         UNCHANGED <<booked, saved, dropped, clock>>, \A i \in Ids : Worth(i)' = Worth(i),
         r.kind = "save" => Existing' = Existing /\ InSlot(r.slot)' = InSlot(r.slot)
  PROVE  Ends(new)'
<1>1. CASE new = Idle
  <2>1. TimeKept' /\ TimeEarned'
    BY EvenEnds
  <2> QED
    BY <1>1, <2>1 DEF Ends, Idle
<1>2. CASE new # Idle
  <2>1. Goes(new, r)
    BY <1>2, Onward
  <2>2. Even(new)'
    BY <2>1, EvenGoes
  <2>3. new.pc # "idle"
    BY <1>2 DEF Typed, Fit
  <2> QED
    BY <2>2, <2>3 DEF Ends
<1> QED
  BY <1>1, <1>2

\* A row that keeps what it has counted shows the same time.
LEMMA SameWorth ==
  ASSUME now' = now, NEW i \in Ids, i \in Existing' <=> i \in Existing,
         i \in Existing => /\ timers'[i].acc = timers[i].acc /\ timers'[i].status = timers[i].status
                           /\ timers'[i].since = timers[i].since
  PROVE  Worth(i)' = Worth(i)
BY DEF Worth, Elapsed

\* A pause stops the clock of a row and keeps what it shows.
LEMMA PausedWorth ==
  ASSUME Typed, now' = now, NEW S \in SUBSET Running, timers' = [i \in Ids |-> IF i \in S THEN Paused(timers[i]) ELSE timers[i]]
  PROVE  \A i \in Ids : Worth(i)' = Worth(i)
<1> SUFFICES ASSUME NEW i \in Ids PROVE Worth(i)' = Worth(i)
  OBVIOUS
<1>1. Existing' = Existing
  BY PausedRows
<1>2. CASE i \in S
  <2>1. i \in Existing /\ timers[i] \in Rows /\ timers[i].since <= now /\ now \in Nat
    BY <1>2 DEF Running, Existing, Typed, Tabled, Counted
  <2>2. PICK row : row = timers[i]
    OBVIOUS
  <2>3. Paused(row).status = "paused" /\ Paused(row).acc = Elapsed(row) /\ Elapsed(row) \in Nat
    BY <2>1, <2>2, PausedRow
  <2>4. PICK new : new = Paused(row)
    OBVIOUS
  <2>5. timers'[i] = new
    BY <1>2, <2>2, <2>4
  <2>6. Worth(i)' = new.acc + 0
    BY <1>1, <2>1, <2>3, <2>4, <2>5 DEF Worth, Elapsed
  <2> QED
    BY <2>1, <2>2, <2>3, <2>4, <2>6 DEF Worth
<1>3. CASE i \notin S
  <2>1. timers'[i] = timers[i]
    BY <1>3
  <2> QED
    BY <1>1, <2>1, SameWorth
<1> QED
  BY <1>2, <1>3

\* No statement but the three that write times changes what the rows show.
LEMMA WorthStays ==
  ASSUME Typed, Placed, NEW tab \in Tabs, NEW r, r = req[tab], InStep(r), Step(tab), ~Upsert(tab), ~CreateEntry(tab), ~DeleteTimer(tab)
  PROVE  /\ UNCHANGED <<booked, saved, dropped, clock>> /\ \A i \in Ids : Worth(i)' = Worth(i)
         /\ r.kind = "save" => Existing' = Existing /\ InSlot(r.slot)' = InSlot(r.slot)
<1>0. UNCHANGED <<booked, saved, dropped, clock>> /\ now' = now
  BY DEF Step, ReadTask, ReadTaskTimer, MoveTask, ReadSlot, PauseOthers, Convert,
         ListCards, Strand, Place, ReadEvidence, Revert, CheckComplete, WriteTask, PauseBlocked, books, clock
<1>1. CASE PauseOthers(tab)
  <2>1. PICK S \in SUBSET Running : S = {i \in Running : timers[i].slot # req[tab].slot}
    OBVIOUS
  <2>2. timers' = [i \in Ids |-> IF i \in S THEN Paused(timers[i]) ELSE timers[i]]
    BY <1>1, <2>1 DEF PauseOthers
  <2> QED
    BY <1>0, <2>2, PausedRows, PausedWorth
<1>2. CASE PauseBlocked(tab)
  <2>1. PICK S \in SUBSET Running : S = Running \intersect OfTask(req[tab].task)
    OBVIOUS
  <2>2. timers' = [i \in Ids |-> IF i \in S THEN Paused(timers[i]) ELSE timers[i]]
    BY <1>2, <2>1 DEF PauseBlocked
  <2> QED
    BY <1>0, <2>2, PausedRows, PausedWorth
<1>k. r.kind = "save" => r.pc \in {"others", "upsert"}
  BY DEF Typed, Fit, Route
<1>3. ASSUME NEW slot \in Slots, NEW next, Rename(tab, slot, next) PROVE \A i \in Ids : Worth(i)' = Worth(i)
  <2>1. CASE timers' = timers
    BY <1>0, <2>1, SameWorth DEF Existing
  <2>2. CASE timers' # timers
    <3>1. PICK i : i = req[tab].order[req[tab].at]
      OBVIOUS
    <3>2. i \in Existing /\ timers' = [timers EXCEPT ![i].slot = slot]
      BY <1>3, <2>2, <3>1 DEF Rename
    <3>3. Existing' = Existing /\ timers'[i] = [timers[i] EXCEPT !.slot = slot] /\ \A j \in Ids \ {i} : timers'[j] = timers[j]
      BY <3>2, RenamedRows
    <3>4. timers[i] \in Rows
      BY <3>2 DEF Existing, Typed, Tabled
    <3>5. timers'[i].acc = timers[i].acc /\ timers'[i].status = timers[i].status /\ timers'[i].since = timers[i].since
      BY <3>3, <3>4 DEF Rows
    <3> QED
      BY <1>0, <3>3, <3>5, SameWorth
  <2> QED
    BY <2>1, <2>2
<1>4. CASE Strand(tab)
  BY <1>0, <1>3, <1>4, <1>k, StrandSlot DEF Strand, At
<1>5. CASE Place(tab)
  BY <1>0, <1>3, <1>5, <1>k, PlaceSlot DEF Place, At
<1>7. CASE Convert(tab)
  <2>1. \/ timers' = timers
        \/ \E i \in Cards : /\ timers'[i] \in Rows
                            /\ timers'[i].status = timers[i].status /\ timers'[i].acc = timers[i].acc /\ timers'[i].since = timers[i].since
                            /\ \A j \in Ids \ {i} : timers'[j] = timers[j]
    BY <1>7, LinkedRow DEF Convert, At
  <2>2. CASE timers' = timers
    BY <1>0, <1>7, <1>k, <2>2, SameWorth DEF Existing, Convert, At
  <2>3. CASE \E i \in Cards : /\ timers'[i] \in Rows
                              /\ timers'[i].status = timers[i].status /\ timers'[i].acc = timers[i].acc /\ timers'[i].since = timers[i].since
                              /\ \A j \in Ids \ {i} : timers'[j] = timers[j]
    <3>1. PICK i \in Cards : /\ timers'[i] \in Rows
                             /\ timers'[i].status = timers[i].status /\ timers'[i].acc = timers[i].acc /\ timers'[i].since = timers[i].since
                             /\ \A j \in Ids \ {i} : timers'[j] = timers[j]
      BY <2>3
    <3>2. i \in Existing /\ i \in Existing'
      BY <3>1, NoRowAssumption DEF Cards, Existing
    <3>3. \A j \in Ids : j \in Existing' <=> j \in Existing
      BY <3>1, <3>2 DEF Existing
    <3>4. \A j \in Ids : Worth(j)' = Worth(j)
      BY <1>0, <3>1, <3>3, SameWorth
    <3> QED
      BY <1>0, <1>7, <1>k, <3>4 DEF Convert, At
  <2> QED
    BY <2>1, <2>2, <2>3
<1>8. CASE ~(PauseOthers(tab) \/ PauseBlocked(tab) \/ Strand(tab) \/ Place(tab) \/ Convert(tab))
  <2>1. timers' = timers
    BY <1>8 DEF Step, ReadTask, ReadTaskTimer, MoveTask, ReadSlot,
         ListCards, ReadEvidence, Revert, CheckComplete, WriteTask, table
  <2>2. \A i \in Ids : Worth(i)' = Worth(i)
    BY <1>0, <2>1, SameWorth DEF Existing
  <2> QED
    BY <1>0, <2>1, <2>2 DEF Existing, InSlot
<1> QED
  BY <1>1, <1>2, <1>4, <1>5, <1>7, <1>8

\* A finalization books once what the row shows; the row hides it until it is deleted.
LEMMA CreateEntryEven ==
  ASSUME Typed, Typed', NEW tab \in Tabs, NEW r, r = req[tab], NEW new, new = req'[tab], InStep(r), Even(r), CreateEntry(tab)
  PROVE  Even(new)' /\ new.pc # "idle"
<1>0. r.pc = "entry" /\ Goto(tab, "delete") /\ UNCHANGED <<timers, dropped, clock>> /\ booked' = booked + r.sent
  BY DEF CreateEntry, At, table
<1>1. Fit(r, now, born) /\ r.kind \in Saves /\ r.id \in Ids
  BY <1>0, NamedId DEF Typed, Fit, Route, Saves, Requests, AllKinds, TaskStarts
<1>2. r.at = r.id /\ r.id # NoTimer
  BY <1>0, <1>1, IdAssumption DEF InStep, Holds
<1>3. saved' = [saved EXCEPT ![r.id] = @ + 1]
  BY <1>2 DEF CreateEntry
<1>4. Entries' = Entries + 1
  BY <1>1, <1>3, EntriesChange
<1>5. \A i \in Ids : Worth(i)' = Worth(i)
  BY <1>0, SameWorth DEF clock, Existing
<1>6. Shown' = Shown /\ Shown \in Int /\ Entries \in Int
  BY <1>5, ShownSame, SumsInteger
<1>7. new.pc = "delete" /\ new.kind = r.kind /\ new.id = r.id
  BY <1>0 DEF Goto, Typed, Requests
<1>8. Slack(new)' = 0 /\ Hidden(new)' = Worth(r.id)
  BY <1>1, <1>5, <1>7 DEF Slack, Hidden
<1>9. PICK w \in Nat : w = Worth(r.id)
  BY <1>1, WorthNat
<1>10. PICK d \in Nat : d = now - r.since
  BY <1>1, SlackNat
<1>11. Slack(r) = d /\ Hidden(r) = 0 /\ r.sent \in Nat
  BY <1>0, <1>1, <1>10 DEF Slack, Hidden, Early, Fit, Requests
<1>12. r.sent <= w + 1 /\ w <= r.sent + d
  BY <1>0, <1>1, <1>9, <1>10 DEF Even, Timely
<1>13. booked \in Nat /\ dropped \in Nat /\ ran \in Nat /\ latency \in Nat
  BY DEF Typed, Counted
<1>14. booked + Shown + dropped + latency >= ran + d /\ booked + Shown + d <= ran + latency + Entries
  BY <1>6, <1>11, <1>13 DEF Even, Kept, Earned
<1>15. (booked + r.sent) + Shown + dropped + latency >= ran + w /\ (booked + r.sent) + Shown <= ran + latency + (Entries + 1) + w
  BY <1>6, <1>11, <1>12, <1>13, <1>14
<1>16. Kept(new)' /\ Earned(new)'
  <2>1. booked' = booked + r.sent /\ dropped' = dropped /\ ran' = ran /\ latency' = latency
    BY <1>0 DEF clock
  <2> QED
    BY <1>4, <1>6, <1>8, <1>9, <1>11, <1>13, <1>15, <2>1 DEF Kept, Earned
<1>17. Timely(new)'
  BY <1>1, <1>7 DEF Timely, Carrying, Saves
<1> QED
  BY <1>7, <1>16, <1>17 DEF Even

\* The deletion after a finalization takes the booked time off the table.
LEMMA DeleteTimerEven ==
  ASSUME Typed, Typed', NEW tab \in Tabs, NEW r, r = req[tab], NEW new, new = req'[tab], InStep(r), Even(r),
         discarded = {}, DeleteTimer(tab), Step(tab)
  PROVE  Ends(new)'
<1>0. r.pc = "delete" /\ UNCHANGED <<booked, saved, dropped, clock>>
  BY DEF DeleteTimer, At, books
<1>1. Fit(r, now, born) /\ r.kind \in Saves
  BY <1>0 DEF Typed, Fit, Route, Saves, Requests, AllKinds, TaskStarts, InStep, Ended
<1>2. r.id \in Ids /\ r.id \in Existing
  BY <1>0, <1>1, NamedId DEF InStep, Named, Early, ByCard, ByTask, Saves, Cards, OfTask
<1>3. r.id \in IF r.kind \in {"discard", "finalize"} THEN InSlot(r.slot) ELSE OfTask(r.task)
  BY <1>0, <1>1, <1>2 DEF InStep, Named, Early, Saves, ByCard, ByTask, Cards, InSlot, OfTask
<1>4. timers'[r.id] = NoTimer /\ \A i \in Ids \ {r.id} : timers'[i] = timers[i]
  <2>1. timers'[r.id] = NoTimer
    BY <1>2, <1>3 DEF DeleteTimer
  <2>2. ASSUME NEW i \in Ids \ {r.id}, timers'[i] # timers[i] PROVE FALSE
    <3>1. timers'[i] = NoTimer /\ i \in Existing
      BY <2>2 DEF DeleteTimer, Existing
    <3> QED
      BY <2>2, <3>1, Gone
  <2> QED
    BY <2>1, <2>2
<1>5. now' = now
  BY <1>0 DEF clock
<1>6. Worth(r.id)' = 0 /\ \A i \in Ids \ {r.id} : Worth(i)' = Worth(i)
  BY <1>4, <1>5, SameWorth DEF Worth, Existing
<1>7. PICK w \in Nat : w = Worth(r.id)
  BY <1>2, WorthNat
<1>8. Shown' = Shown - w /\ Shown \in Int /\ Entries' = Entries /\ Entries \in Int
  <2>1. Shown' = Shown + (Worth(r.id)' - Worth(r.id))
    BY <1>2, <1>6, ShownChange
  <2>2. Shown \in Int /\ Entries \in Int
    BY SumsInteger
  <2> QED
    BY <1>0, <1>6, <1>7, <2>1, <2>2 DEF Entries
<1>9. booked \in Nat /\ dropped \in Nat /\ ran \in Nat /\ latency \in Nat
  BY DEF Typed, Counted
<1>10. Slack(r) = 0 /\ Hidden(r) = w
  BY <1>0, <1>1, <1>7 DEF Slack, Hidden
<1>11. booked + (Shown - w) + dropped + latency >= ran /\ booked + (Shown - w) <= ran + latency + Entries
  BY <1>8, <1>9, <1>10 DEF Even, Kept, Earned
<1>12. booked' = booked /\ dropped' = dropped /\ ran' = ran /\ latency' = latency
  BY <1>0 DEF clock
<1>13. CASE new = Idle
  <2>1. TimeKept' /\ TimeEarned'
    BY <1>8, <1>9, <1>11, <1>12 DEF TimeKept, TimeEarned
  <2> QED
    BY <1>13, <2>1 DEF Ends, Idle
<1>14. CASE new # Idle
  <2>1. Goes(new, r)
    BY <1>14, Onward
  <2>2. new.pc \in {"list", "evidence"} /\ new.kind = r.kind
    BY <1>0, <2>1 DEF Goes, Ahead, Same
  <2>3. Slack(new)' = 0 /\ Hidden(new)' = 0 /\ Timely(new)'
    BY <1>1, <2>2 DEF Slack, Hidden, Timely, Carrying, Early, Saves
  <2>4. Kept(new)' /\ Earned(new)'
    BY <1>8, <1>9, <1>11, <1>12, <2>3 DEF Kept, Earned
  <2> QED
    BY <2>2, <2>3, <2>4 DEF Ends, Even
<1> QED
  BY <1>13, <1>14

\* The write gives the row what the request carries and the time since it left.
LEMMA WrittenWorth ==
  ASSUME Typed, NEW tab \in Tabs, NEW r, r = req[tab], Upsert(tab), now' = now, r.id \in Ids,
         timers' = [timers EXCEPT ![r.id] = Written(r)]
  PROVE  /\ Worth(r.id)' = r.sent + (IF r.on = "running" THEN now - r.since ELSE 0)
         /\ \A i \in Ids \ {r.id} : Worth(i)' = Worth(i)
<1>1. PICK row : row = Written(r)
  OBVIOUS
<1>2. row \in Rows /\ row.status = r.on /\ row.acc = r.sent /\ row.since = IF r.on = "running" THEN r.since ELSE 0
  BY <1>1, WrittenRow DEF Upsert, Stored, At
<1>3. timers'[r.id] = row /\ \A i \in Ids \ {r.id} : timers'[i] = timers[i]
  BY <1>1 DEF Typed, Tabled
<1>4. r.id \in Existing'
  BY <1>2, <1>3, NoRowAssumption DEF Existing
<1>5. Worth(r.id)' = r.sent + (IF r.on = "running" THEN now - r.since ELSE 0)
  BY <1>2, <1>3, <1>4 DEF Worth, Elapsed
<1>6. \A i \in Ids \ {r.id} : Worth(i)' = Worth(i)
  BY <1>3, SameWorth DEF Existing
<1> QED
  BY <1>5, <1>6

\* That time was shown already: what the row shows grows by no more than the latency.
LEMMA UpsertEven ==
  ASSUME Typed, Typed', Placed, NEW tab \in Tabs, NEW r, r = req[tab], NEW new, new = req'[tab], InStep(r), Even(r),
         Upsert(tab), Step(tab)
  PROVE  Ends(new)'
<1>0. r.pc = "upsert" /\ UNCHANGED <<booked, saved, clock>> /\ now' = now
  BY DEF Upsert, Stored, At, clock
<1>1. Fit(r, now, born) /\ r.kind \in {"save", "status"} \union TaskStarts \union {"pauseTask"} /\ r.id \in Ids
  BY <1>0, WrittenRow, NamedId DEF Typed, TaskStarts
<1>2. Target(r) = r.id /\ InSlot(r.slot) = {r.id} \intersect Existing
  BY <1>0, LoneTarget DEF Even, Timely
<1>3. CASE timers' = timers
  <2>1. dropped' = dropped
    BY <1>3 DEF Upsert, Stored
  <2>2. \A i \in Ids : Worth(i)' = Worth(i)
    BY <1>0, <1>3, SameWorth DEF Existing
  <2>3. r.kind = "save" => Existing' = Existing /\ InSlot(r.slot)' = InSlot(r.slot)
    BY <1>3 DEF Existing, InSlot
  <2> QED
    BY <1>0, <2>1, <2>2, <2>3, EvenStays
<1>4. CASE timers' # timers
  <2>1. timers' = [timers EXCEPT ![r.id] = Written(r)] /\ Done(tab)
    BY <1>2, <1>4 DEF Upsert, Stored
  <2>2. new.pc = "idle"
    BY <2>1 DEF Done, Idle, Typed
  <2>3. PICK w \in Nat : w = Worth(r.id)
    BY <1>1, WorthNat
  <2>4. PICK d \in Nat : d = now - r.since
    BY <1>1, SlackNat
  <2>5. PICK s \in Nat : s = r.sent
    BY <1>1 DEF Fit, Requests
  <2>6. PICK v \in Nat : v = s + (IF r.on = "running" THEN d ELSE 0)
    OBVIOUS
  <2>7. Worth(r.id)' = v /\ \A i \in Ids \ {r.id} : Worth(i)' = Worth(i)
    BY <1>0, <1>1, <2>1, <2>4, <2>5, <2>6, WrittenWorth
  <2>8. Shown' = Shown + (v - w) /\ Shown \in Int /\ Entries' = Entries /\ Entries \in Int
    <3>1. Shown' = Shown + (Worth(r.id)' - Worth(r.id))
      BY <1>1, <2>7, ShownChange
    <3>2. Shown \in Int /\ Entries \in Int
      BY SumsInteger
    <3> QED
      BY <1>0, <2>3, <2>7, <3>1, <3>2 DEF Entries
  <2>9. Slack(r) = d /\ Hidden(r) = 0
    BY <1>0, <2>4 DEF Slack, Hidden, Early
  <2>10. booked \in Nat /\ dropped \in Nat /\ ran \in Nat /\ latency \in Nat
    BY DEF Typed, Counted
  <2>11. booked + Shown + dropped + latency >= ran + d /\ booked + Shown + d <= ran + latency + Entries
    BY <2>8, <2>9, <2>10 DEF Even, Kept, Earned
  <2>12. s <= w /\ v <= s + d /\ v >= s
    BY <1>0, <1>1, <2>3, <2>4, <2>5, <2>6 DEF Even, Timely, Carrying, Early, TaskStarts
  <2>13. booked' = booked /\ ran' = ran /\ latency' = latency
    BY <1>0 DEF clock
  <2>14. TimeEarned'
    <3>1. booked + (Shown + (v - w)) <= ran + latency + Entries
      BY <2>8, <2>10, <2>11, <2>12
    <3> QED
      BY <2>8, <2>13, <3>1 DEF TimeEarned
  <2>15. \E x \in Int : dropped' = dropped + x /\ (v - w) + x >= 0 - d
    <3>1. CASE r.kind = "dialogTask"
      <4>1. One(InSlot(r.slot)) = IF r.id \in Existing THEN r.id ELSE NoTimer
        <5>1. InSlot(r.slot) \in SUBSET Ids
          BY <1>1, <1>2
        <5> QED
          BY <1>2, <5>1, OneIn
      <4>2. dropped' = dropped + w
        <5>1. CASE r.id \in Existing
          <6>1. One(InSlot(r.slot)) # NoTimer /\ One(InSlot(r.slot)) = r.id
            BY <1>1, <4>1, <5>1, IdAssumption
          <6>2. dropped' = dropped + Elapsed(timers[r.id])
            BY <1>4, <3>1, <6>1 DEF Upsert, Stored
          <6> QED
            BY <2>3, <5>1, <6>2 DEF Worth
        <5>2. CASE r.id \notin Existing
          <6>1. dropped' = dropped
            BY <4>1, <5>2 DEF Upsert, Stored
          <6>2. w = 0
            BY <2>3, <5>2 DEF Worth
          <6> QED
            BY <2>10, <6>1, <6>2
        <5> QED
          BY <5>1, <5>2
      <4> QED
        BY <2>12, <4>2
    <3>2. CASE r.kind # "dialogTask"
      <4>1. dropped' = dropped + 0
        BY <2>10, <3>2 DEF Upsert, Stored
      <4>2. w <= s + d
        BY <1>0, <1>1, <2>3, <2>4, <2>5, <3>2 DEF Even, Timely, Carrying, Early, TaskStarts
      <4> QED
        BY <2>12, <4>1, <4>2
    <3> QED
      BY <3>1, <3>2
  <2>16. TimeKept'
    <3>1. PICK x \in Int : dropped' = dropped + x /\ (v - w) + x >= 0 - d
      BY <2>15
    <3>2. booked + (Shown + (v - w)) + (dropped + x) >= ran - latency
      BY <2>8, <2>10, <2>11, <3>1
    <3> QED
      BY <2>8, <2>13, <3>1, <3>2 DEF TimeKept
  <2> QED
    BY <2>2, <2>14, <2>16 DEF Ends
<1> QED
  BY <1>3, <1>4

\* Every statement of a request alone keeps the balance.
LEMMA StepEven ==
  ASSUME Typed, Typed', Placed, NEW tab \in Tabs, NEW r, r = req[tab], NEW new, new = req'[tab], InStep(r), Even(r),
         discarded = {}, Step(tab)
  PROVE  Ends(new)'
<1>1. CASE Upsert(tab)
  BY <1>1, UpsertEven
<1>2. CASE CreateEntry(tab)
  BY <1>2, CreateEntryEven DEF Ends
<1>3. CASE DeleteTimer(tab)
  BY <1>3, DeleteTimerEven
<1>4. CASE ~Upsert(tab) /\ ~CreateEntry(tab) /\ ~DeleteTimer(tab)
  <2>1. r.pc \notin {"idle", "entry", "delete"}
    BY <1>4, BusyStep DEF Step, ReadTask, ReadTaskTimer, MoveTask, ReadSlot, PauseOthers, Convert,
         ListCards, Strand, Place, ReadEvidence, Revert, CheckComplete, WriteTask, PauseBlocked, At
  <2> QED
    BY <1>4, <2>1, WorthStays, EvenStays
<1> QED
  BY <1>1, <1>2, <1>3, <1>4

\* A request leaves with the time its row shows; a new card goes to a slot without one.
LEMMA SendTimes ==
  ASSUME Typed, NEW tab \in Tabs, Request(tab), NEW new, new = req'[tab]
  PROVE  /\ new.since = now /\ new.pc # "entry" /\ (new.pc = "delete" => new.kind = "discard")
         /\ new.sent = IF new.kind = "dialogTask" \/ new.id \notin Existing THEN 0 ELSE Elapsed(timers[new.id])
         /\ new.kind = "save" /\ new.id \notin Existing => InSlot(new.slot) \intersect Cards = {}
<1> DEFINE Leaves == /\ new.since = now /\ new.pc # "entry" /\ (new.pc = "delete" => new.kind = "discard")
                     /\ new.sent = IF new.kind = "dialogTask" \/ new.id \notin Existing THEN 0 ELSE Elapsed(timers[new.id])
                     /\ new.kind = "save" /\ new.id \notin Existing => InSlot(new.slot) \intersect Cards = {}
<1>1. ASSUME NEW kind, NEW i, NEW slot, NEW t, NEW on, Send(tab, kind, i, slot, t, on),
             kind = "save" /\ i \notin Existing => InSlot(slot) \intersect Cards = {}
      PROVE  Leaves
  <2>1. req'[tab] = Leaving(kind, i, slot, t, on)
    BY <1>1, SendLeaves
  <2>2. PICK sent : sent = IF i \in Existing /\ kind # "dialogTask" THEN Elapsed(timers[i]) ELSE 0
    OBVIOUS
  <2>3. PICK pc : pc = IF kind = "save" /\ on = "paused" THEN "upsert" ELSE Flow(kind)
    OBVIOUS
  <2>4. new = [Idle EXCEPT !.kind = kind, !.slot = slot, !.task = t, !.id = i, !.on = on,
                           !.sent = sent, !.since = now, !.alone = Quiet, !.pc = pc]
    BY <2>1, <2>2, <2>3 DEF Leaving
  <2>5. new.pc = pc /\ new.kind = kind /\ new.id = i /\ new.since = now /\ new.sent = sent /\ new.slot = slot
    BY <2>4 DEF Idle
  <2>6. pc # "entry" /\ (pc = "delete" => kind = "discard")
    BY <2>3 DEF Flow
  <2> QED
    BY <1>1, <2>2, <2>5, <2>6
<1> SUFFICES Leaves
  OBVIOUS
<1> HIDE DEF Leaves
<1>2. \A i \in Cards : i \in Existing
  BY DEF Cards
<1>3. CASE SendSave(tab)
  BY <1>1, <1>2, <1>3 DEF SendSave
<1>4. CASE SendBySlot(tab) \/ SendTaskTimer(tab) \/ SendTask(tab)
  BY <1>1, <1>4 DEF SendBySlot, SendTaskTimer, SendTask, TaskStarts
<1> QED
  BY <1>3, <1>4 DEF Request

\* A request that leaves while all is accounted for leaves the balance as it was.
LEMMA SendEven ==
  ASSUME Typed, Typed', Placed, TimeKept, TimeEarned, NEW tab \in Tabs, NEW new, new = req'[tab],
         Request(tab), UNCHANGED <<table, books, clock>>
  PROVE  Even(new)' /\ TimeKept' /\ TimeEarned'
<1>0. now' = now /\ timers' = timers /\ UNCHANGED <<booked, saved, dropped, ran, latency>>
  BY DEF table, books, clock
<1>1. \A i \in Ids : Worth(i)' = Worth(i)
  BY <1>0, SameWorth DEF Existing
<1>2. Shown' = Shown /\ Entries' = Entries /\ Shown \in Int /\ Entries \in Int
  BY <1>0, <1>1, ShownSame, SumsInteger DEF Entries
<1>3. booked \in Nat /\ dropped \in Nat /\ ran \in Nat /\ latency \in Nat /\ now \in Nat
  BY DEF Typed, Counted
<1>4. /\ new.since = now /\ new.pc # "entry" /\ (new.pc = "delete" => new.kind = "discard")
      /\ new.sent = (IF new.kind = "dialogTask" \/ new.id \notin Existing THEN 0 ELSE Elapsed(timers[new.id]))
      /\ new.kind = "save" /\ new.id \notin Existing => InSlot(new.slot) \intersect Cards = {}
  BY SendTimes
<1>5. Slack(new)' = 0 /\ Hidden(new)' = 0
  BY <1>0, <1>3, <1>4 DEF Slack, Hidden, Saves
<1>6. booked + Shown + dropped >= ran - latency /\ booked + Shown <= ran + latency + Entries
  BY DEF TimeKept, TimeEarned
<1>7. Kept(new)' /\ Earned(new)'
  <2>1. booked + Shown + dropped + latency >= ran + 0 + 0 /\ booked + Shown + 0 <= ran + latency + Entries + 0
    BY <1>2, <1>3, <1>6
  <2> QED
    BY <1>0, <1>2, <1>5, <2>1 DEF Kept, Earned
<1>8. TimeKept' /\ TimeEarned'
  BY <1>0, <1>2, <1>6 DEF TimeKept, TimeEarned
<1>9. Timely(new)'
  <2>1. ASSUME Carrying(new)
        PROVE  new.sent <= Worth(new.id)' /\ Worth(new.id)' <= new.sent + (now' - new.since)
    <3>1. new.id \in Ids
      BY <2>1, NamedId DEF Carrying, Typed, Fit, Carried, Counted
    <3>2. new.sent = Worth(new.id) /\ Worth(new.id) \in Nat
      BY <1>4, <2>1, <3>1, WorthNat DEF Worth, Carrying
    <3> QED
      BY <1>0, <1>1, <1>3, <1>4, <3>1, <3>2
  <2>2. Carrying(new)' => Carrying(new)
    BY DEF Carrying
  <2>3. ASSUME new.kind = "save", new.id \notin Existing' PROVE InSlot(new.slot)' = {}
    <3>1. new.id \notin Existing /\ InSlot(new.slot)' = InSlot(new.slot)
      BY <1>0, <2>3 DEF Existing, InSlot
    <3>2. new.slot[1] = "manual"
      <4>1. PICK n \in 1..MaxSlot : new.slot = <<"manual", n>>
        BY <2>3 DEF Typed, Fit, Carried, Manuals
      <4> QED
        BY <4>1
    <3>3. \A j \in InSlot(new.slot) : j \in Cards
      BY <3>2 DEF InSlot, Placed, Cards, SourceOf
    <3> QED
      BY <1>4, <2>3, <3>1, <3>3
  <2> QED
    BY <1>4, <2>1, <2>2, <2>3 DEF Timely
<1> QED
  BY <1>7, <1>8, <1>9 DEF Even

\* A tick: the one running timer shows a second more.
LEMMA TickShows ==
  ASSUME Typed, Typed', OneRuns, Tick
  PROVE  /\ Shown' - Shown = ran' - ran
         /\ \A i \in Ids : Worth(i)' = Worth(i) \/ Worth(i)' = Worth(i) + 1
         /\ Existing' = Existing /\ \A s : InSlot(s)' = InSlot(s)
<1>1. timers' = timers /\ now' = now + 1 /\ now \in Nat /\ ran \in Nat /\ Existing' = Existing
  BY DEF Tick, table, Typed, Counted, Existing
<1>2. ASSUME NEW i \in Ids PROVE Worth(i)' = IF i \in Running THEN Worth(i) + 1 ELSE Worth(i)
  <2>1. CASE i \in Running
    <3>1. PICK row : row = timers[i]
      OBVIOUS
    <3>2. row \in Rows /\ row.status = "running" /\ row.since <= now /\ i \in Existing
      BY <2>1, <3>1 DEF Running, Existing, Typed, Tabled
    <3>3. row.acc \in Nat /\ row.since \in Nat
      BY <3>2 DEF Rows
    <3>4. Worth(i) = row.acc + (now - row.since) /\ Worth(i)' = row.acc + ((now + 1) - row.since)
      BY <1>1, <3>1, <3>2 DEF Worth, Elapsed
    <3> QED
      BY <1>1, <2>1, <3>3, <3>4
  <2>2. CASE i \notin Running
    BY <1>1, <2>2 DEF Worth, Elapsed, Running
  <2> QED
    BY <2>1, <2>2
<1>3. Shown \in Int
  BY SumsInteger
<1>4. CASE Running = {}
  <2>1. Shown' = Shown
    BY <1>2, <1>4, ShownSame
  <2>2. ran' = ran
    BY <1>4 DEF Tick
  <2> QED
    BY <1>1, <1>2, <1>3, <2>1, <2>2 DEF InSlot
<1>5. CASE Running # {}
  <2>1. PICK i \in Running : Running = {i}
    BY <1>5 DEF OneRuns
  <2>2. i \in Ids
    BY DEF Running, Existing
  <2>3. PICK w \in Nat : w = Worth(i)
    BY <2>2, WorthNat
  <2>4. Worth(i)' = w + 1 /\ \A j \in Ids \ {i} : Worth(j)' = Worth(j)
    BY <1>2, <2>1, <2>2, <2>3
  <2>5. Shown' = Shown + (Worth(i)' - Worth(i))
    BY <2>2, <2>4, ShownChange
  <2>6. Shown' = Shown + 1
    BY <2>3, <2>4, <2>5
  <2>7. ran' = ran + 1
    BY <1>5 DEF Tick
  <2> QED
    BY <1>1, <1>2, <1>3, <2>6, <2>7 DEF InSlot
<1> QED
  BY <1>4, <1>5

\* The balance of a request in flight outlives a tick.
LEMMA TickEven ==
  ASSUME Typed, Typed', OneRuns, NEW tab \in Tabs, NEW r, r = req[tab], r.pc # "idle", Even(r), Tick
  PROVE  Even(r)'
<1>1. /\ now' = now + 1 /\ latency' = latency + 1 /\ booked' = booked /\ dropped' = dropped /\ saved' = saved
      /\ (ran' = ran \/ ran' = ran + 1)
  BY DEF Tick, books
<1>2. booked \in Nat /\ dropped \in Nat /\ ran \in Nat /\ latency \in Nat /\ now \in Nat /\ Fit(r, now, born)
  BY DEF Typed, Counted
<1>3. Shown \in Int /\ Entries \in Int /\ Entries' = Entries /\ Shown' \in Int
  <2>1. Shown \in Int /\ Entries \in Int
    BY SumsInteger
  <2>2. Entries' = Entries
    BY <1>1 DEF Entries
  <2>3. PICK f : f = [j \in Ids |-> Worth(j)']
    OBVIOUS
  <2>4. f \in [Ids -> Int] /\ Shown' = SumFunction(f)
    BY <2>3, WorthNatNext DEF Shown, Worth
  <2> QED
    BY <2>1, <2>2, <2>4, SumInteger, IdAssumption
<1>4. PICK e \in {0, 1} : ran' = ran + e /\ Shown' = Shown + e
  <2>1. PICK u \in Int : u = Shown'
    BY <1>3
  <2>2. PICK e \in {0, 1} : ran' = ran + e
    BY <1>1, <1>2
  <2>3. u - Shown = (ran + e) - ran
    BY <2>1, <2>2, TickShows
  <2>4. u = Shown + e
    BY <1>2, <1>3, <2>2, <2>3
  <2> QED
    BY <2>1, <2>2, <2>4
<1>5. PICK d \in Nat : d = now - r.since
  BY <1>2, SlackNat
<1>6. r.since \in Nat /\ r.sent \in Nat /\ now' - r.since = d + 1
  BY <1>1, <1>2, <1>5, SlackNat
<1>8. /\ Slack(r) \in Nat /\ Slack(r)' \in Nat /\ Hidden(r) \in Nat /\ Hidden(r)' \in Nat
      /\ Slack(r)' <= Slack(r) + 1 /\ Hidden(r)' >= Hidden(r) /\ Slack(r)' + Hidden(r)' <= Slack(r) + Hidden(r) + 1
  <2>1. CASE r.kind \in Saves /\ r.pc = "delete"
    <3>1. r.id \in Ids
      BY <1>2, <2>1, NamedId DEF Saves
    <3>2. PICK w \in Nat : w = Worth(r.id)
      BY <3>1, WorthNat
    <3>3. PICK v \in Nat : v = Worth(r.id)' /\ (v = w \/ v = w + 1)
      BY <3>1, <3>2, TickShows
    <3>4. Slack(r) = 0 /\ Slack(r)' = 0 /\ Hidden(r) = w /\ Hidden(r)' = v
      BY <2>1, <3>2, <3>3 DEF Slack, Hidden
    <3> QED
      BY <3>3, <3>4
  <2>2. CASE ~(r.kind \in Saves /\ r.pc = "delete")
    <3>1. Hidden(r) = 0 /\ Hidden(r)' = 0
      BY <2>2 DEF Hidden
    <3>2. \/ Slack(r) = 0 /\ Slack(r)' = 0
          \/ Slack(r) = d /\ Slack(r)' = d + 1
      BY <1>5, <1>6 DEF Slack
    <3> QED
      BY <3>1, <3>2
  <2> QED
    BY <2>1, <2>2
<1>9. Kept(r)' /\ Earned(r)'
  <2>1. PICK a \in Nat, b \in Nat, h \in Nat, k \in Nat : a = Slack(r) /\ b = Slack(r)' /\ h = Hidden(r) /\ k = Hidden(r)'
    BY <1>8
  <2>2. b <= a + 1 /\ k >= h /\ b + k <= a + h + 1
    BY <1>8, <2>1
  <2>3. booked + Shown + dropped + latency >= ran + a + h /\ booked + Shown + a <= ran + latency + Entries + h
    BY <2>1 DEF Even, Kept, Earned
  <2>4. /\ booked + (Shown + e) + dropped + (latency + 1) >= (ran + e) + b + k
        /\ booked + (Shown + e) + b <= (ran + e) + (latency + 1) + Entries + k
    BY <1>2, <1>3, <2>2, <2>3
  <2> QED
    BY <1>1, <1>3, <1>4, <2>1, <2>4 DEF Kept, Earned
<1>10. Timely(r)'
  <2>1. ASSUME NEW i \in Ids, NEW s \in Nat, Worth(i) <= s + d
        PROVE  Worth(i)' >= Worth(i) /\ Worth(i)' <= s + (d + 1)
    <3>1. PICK w \in Nat : w = Worth(i)
      BY WorthNat
    <3>2. Worth(i)' = w \/ Worth(i)' = w + 1
      BY <3>1, TickShows
    <3> QED
      BY <2>1, <3>1, <3>2
  <2>2. ASSUME NEW i \in Ids PROVE Worth(i) \in Nat /\ Worth(i)' \in Nat
    BY WorthNat, WorthNatNext
  <2>3. ASSUME Carrying(r)' PROVE r.sent <= Worth(r.id)' /\ Worth(r.id)' <= r.sent + (now' - r.since)
    <3>1. r.id \in Ids /\ Carrying(r)
      BY <1>2, <2>3, NamedId DEF Carrying
    <3>2. r.sent <= Worth(r.id) /\ Worth(r.id) <= r.sent + d
      BY <1>5, <3>1 DEF Even, Timely
    <3>3. Worth(r.id)' >= Worth(r.id) /\ Worth(r.id)' <= r.sent + (d + 1)
      BY <1>6, <2>1, <3>1, <3>2
    <3> QED
      BY <1>6, <2>2, <3>1, <3>2, <3>3
  <2>4. ASSUME r.kind \in Saves, r.pc = "entry" PROVE r.sent <= Worth(r.id)' + 1 /\ Worth(r.id)' <= r.sent + (now' - r.since)
    <3>1. r.id \in Ids
      BY <1>2, <2>4, NamedId DEF Saves
    <3>2. r.sent <= Worth(r.id) + 1 /\ Worth(r.id) <= r.sent + d
      BY <1>5, <2>4 DEF Even, Timely
    <3>3. Worth(r.id)' >= Worth(r.id) /\ Worth(r.id)' <= r.sent + (d + 1)
      BY <1>6, <2>1, <3>1, <3>2
    <3> QED
      BY <1>6, <2>2, <3>1, <3>2, <3>3
  <2>5. r.kind = "save" /\ r.id \notin Existing' => InSlot(r.slot)' = {}
    BY TickShows DEF Even, Timely
  <2>6. r.kind = "dialogTask" => r.sent = 0
    BY DEF Even, Timely
  <2> QED
    BY <2>3, <2>4, <2>5, <2>6 DEF Timely
<1> QED
  BY <1>9, <1>10 DEF Even

\* Every step keeps Balanced.
LEMMA BalancedNext ==
  ASSUME Typed, Typed', Lone, Solo, Balanced, [Next]_vars
  PROVE  Balanced'
<1> SUFFICES ASSUME Apart', FaultFree', discarded' = {}
             PROVE  /\ \A tab \in Tabs : req'[tab].pc # "idle" => Even(req[tab])'
                    /\ Quiet' => TimeKept' /\ TimeEarned'
  BY DEF Balanced
<1>0. failures \in Nat /\ crashes \in Nat
  BY DEF Typed, Counted
<1>1. CASE \E tab \in Tabs : Request(tab)
  <2>1. PICK tab \in Tabs : Request(tab)
    BY <1>1
  <2>2. Apart /\ Quiet /\ UNCHANGED <<table, books, clock, faults>>
    BY <2>1, SendApart
  <2>3. discarded = {}
    BY <2>1, ZenonT(30) DEF Request, SendSave, SendBySlot, SendTaskTimer, SendTask, Send
  <2>4. TimeKept /\ TimeEarned /\ Placed
    BY <2>2, <2>3 DEF FaultFree, faults, Balanced, Solo
  <2>5. PICK new : new = req'[tab]
    OBVIOUS
  <2>6. Even(new)' /\ TimeKept' /\ TimeEarned'
    BY <2>1, <2>2, <2>4, <2>5, SendEven
  <2>7. \A u \in Tabs \ {tab} : req'[u].pc = "idle"
    BY <2>1, <2>2, SendSingle
  <2>8. Even(req[tab])'
    BY <2>5, <2>6 DEF Even, Kept, Earned, Timely, Carrying, Slack, Hidden, Worth
  <2> QED
    BY <2>6, <2>7, <2>8
<1>2. CASE \E tab \in Tabs : Step(tab)
  <2>1. PICK tab \in Tabs : Step(tab)
    BY <1>2
  <2>2. Apart /\ faults' = faults /\ discarded' = discarded
    <3>1. faults' = faults /\ discarded' = discarded
      BY <2>1 DEF Step, ReadTask, ReadTaskTimer, MoveTask, ReadSlot, PauseOthers, Upsert, Stored, Convert, CreateEntry, DeleteTimer,
         ListCards, Strand, Place, ReadEvidence, Revert, CheckComplete, WriteTask, PauseBlocked, client
    <3> QED
      BY <2>1, <3>1, StepAlone DEF Apart
  <2>3. FaultFree
    BY <2>2 DEF FaultFree, faults
  <2>4. req[tab].pc # "idle" /\ Single /\ Placed
    BY <2>1, <2>2, BusyStep DEF Solo
  <2>5. InStep(req[tab]) /\ (\A u \in Tabs \ {tab} : req[u].pc = "idle") /\ Even(req[tab])
    BY <2>2, <2>3, <2>4, SingleAlone DEF Balanced
  <2>6. PICK r : r = req[tab]
    OBVIOUS
  <2>7. PICK new : new = req'[tab]
    OBVIOUS
  <2>8. Ends(new)'
    BY <2>1, <2>2, <2>4, <2>5, <2>6, <2>7, StepEven
  <2>9. \A u \in Tabs \ {tab} : req'[u].pc = "idle"
    BY <2>1, <2>5, StepOfOne
  <2>10. CASE new.pc = "idle"
    BY <2>7, <2>8, <2>9, <2>10 DEF Ends
  <2>11. CASE new.pc # "idle"
    <3>1. Even(new)'
      BY <2>8, <2>11 DEF Ends
    <3>2. Even(req[tab])'
      BY <2>7, <3>1 DEF Even, Kept, Earned, Timely, Carrying, Slack, Hidden, Worth
    <3> QED
      BY <2>7, <2>9, <2>11, <3>2 DEF Quiet
  <2> QED
    BY <2>10, <2>11
<1>3. ~Crash /\ \A tab \in Tabs : ~Erring(tab)
  BY <1>0 DEF Crash, Erring, StatementFails, AuditFails, AnswerFails, Fails, FaultFree
<1>4. CASE Tick
  <2>1. UNCHANGED <<req, booked, saved, dropped, discarded, faults>> /\ Apart
    BY <1>4 DEF Tick, books, Apart, client
  <2>2. FaultFree /\ discarded = {} /\ OneRuns
    BY <2>1 DEF FaultFree, faults, Solo
  <2>3. ASSUME NEW tab \in Tabs, req'[tab].pc # "idle" PROVE Even(req[tab])'
    <3>1. PICK r : r = req[tab]
      OBVIOUS
    <3>2. r = req'[tab]
      BY <2>1, <3>1
    <3>3. Even(r)
      BY <2>1, <2>2, <2>3, <3>1 DEF Balanced
    <3>4. Even(r)'
      BY <1>4, <2>2, <2>3, <3>1, <3>2, <3>3, TickEven
    <3> QED
      BY <3>2, <3>4 DEF Even, Kept, Earned, Timely, Carrying, Slack, Hidden, Worth
  <2>4. ASSUME Quiet' PROVE TimeKept' /\ TimeEarned'
    <3>1. Quiet
      BY <2>1, <2>4 DEF Quiet
    <3>2. TimeKept /\ TimeEarned
      BY <2>1, <2>2, <3>1 DEF Balanced
    <3>3. latency' = latency
      BY <1>4, <3>1 DEF Tick, Quiet
    <3>4. booked \in Nat /\ dropped \in Nat /\ ran \in Nat /\ latency \in Nat /\ Shown \in Int /\ Entries \in Int
      BY SumsInteger DEF Typed, Counted
    <3>5. Shown' - Shown = ran' - ran
      BY <1>4, <2>2, TickShows
    <3>6. Entries' = Entries
      BY <2>1 DEF Entries
    <3>7. PICK u \in Int : u = Shown'
      <4>1. PICK f : f = [j \in Ids |-> Worth(j)']
        OBVIOUS
      <4>2. f \in [Ids -> Int] /\ Shown' = SumFunction(f)
        BY <4>1, WorthNatNext DEF Shown, Worth
      <4> QED
        BY <4>2, SumInteger, IdAssumption
    <3>8. PICK n \in Nat : n = ran'
      BY DEF Typed, Counted
    <3>9. u - Shown = n - ran /\ booked + Shown + dropped >= ran - latency /\ booked + Shown <= ran + latency + Entries
      BY <3>2, <3>5, <3>7, <3>8 DEF TimeKept, TimeEarned
    <3>10. booked + u + dropped >= n - latency /\ booked + u <= n + latency + Entries
      BY <3>4, <3>9
    <3> QED
      BY <2>1, <3>3, <3>6, <3>7, <3>8, <3>10 DEF TimeKept, TimeEarned
  <2> QED
    BY <2>3, <2>4
<1>5. CASE UNCHANGED vars
  <2>1. UNCHANGED <<timers, req, booked, saved, dropped, discarded, faults, now, ran, latency>> /\ Apart
    BY <1>5 DEF vars, table, books, client, clock, Apart
  <2>2. FaultFree /\ discarded = {}
    BY <2>1 DEF FaultFree, faults
  <2>3. (\A tab \in Tabs : req[tab].pc # "idle" => Even(req[tab])) /\ (Quiet => TimeKept /\ TimeEarned)
    BY <2>1, <2>2 DEF Balanced
  <2>4. Shown' = Shown /\ Entries' = Entries
    BY <2>1 DEF Shown, Entries, Existing, Elapsed
  <2>5. Existing' = Existing /\ \A s : InSlot(s)' = InSlot(s)
    BY <2>1 DEF Existing, InSlot
  <2>6. \A tab \in Tabs : req'[tab].pc # "idle" => Even(req[tab])'
    BY <2>1, <2>3, <2>4, <2>5 DEF Even, Kept, Earned, Timely, Carrying, Slack, Hidden, Worth, Elapsed
  <2> QED
    BY <2>1, <2>3, <2>4, <2>6 DEF Quiet, TimeKept, TimeEarned
<1> QED
  BY <1>1, <1>2, <1>3, <1>4, <1>5 DEF Next, Erring

\* With requests one at a time, no fault and nothing discarded, all worked time is accounted for:
\* what is booked, shown and dropped covers what ran, and nothing is booked twice.
THEOREM AccountedHolds == Spec => []Accounted
<1>1. Init => Typed /\ Lone /\ Fresh /\ Solo /\ Once /\ Balanced
  BY InitTyped, InitLone, InitSolo, InitOnce, InitBalanced
<1>2. Typed /\ Lone /\ Fresh /\ Solo /\ Once /\ Balanced /\ [Next]_vars => (Typed /\ Lone /\ Fresh /\ Solo /\ Once /\ Balanced)'
  BY NextTyped, LoneNext, FreshNext, SoloNext, OnceNext, BalancedNext
<1>3. Typed /\ Lone /\ Fresh /\ Solo /\ Once /\ Balanced => Accounted
  BY DEF Once, Balanced, Accounted, Undisturbed, FaultFree
<1> QED
  BY <1>1, <1>2, <1>3, PTL DEF Spec

=============================================================================
