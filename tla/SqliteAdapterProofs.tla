------------------------ MODULE SqliteAdapterProofs ------------------------
(***************************************************************************)
(* Theorems about SqliteAdapter for every set of processes and calls: the  *)
(* chain of promises keeps statements and transactions of one process      *)
(* apart and in order, and the database holds exactly what was answered.   *)
(***************************************************************************)
EXTENDS SqliteAdapter, FiniteSetTheorems, TLAPS

(***************************************************************************)
(* Types                                                                   *)
(***************************************************************************)

USE DEF Unread

LEMMA InitTypes == Init => TypeOK
  BY CallAssumption DEF Init, TypeOK, Phases

\* What the connection of p shows is a number.
LEMMA ViewType == ASSUME TypeOK, NEW p \in Processes PROVE View(p) \in Nat
  BY DEF TypeOK, View

LEMMA ReleaseTypes ==
  ASSUME TypeOK, NEW p \in Processes, Release(p)
  PROVE  /\ writer' \in Processes \union {NoProcess}
         /\ inTx' \in [Processes -> BOOLEAN]
         /\ snapshot' \in [Processes -> Nat \union {Unread}]
         /\ local' \in [Processes -> Nat]
  BY DEF TypeOK, Release

LEMMA KeepTypes ==
  ASSUME TypeOK, NEW p \in Processes, NEW value \in Nat, Keep(p, value)
  PROVE  /\ writer' \in Processes \union {NoProcess}
         /\ inTx' \in [Processes -> BOOLEAN]
         /\ snapshot' \in [Processes -> Nat \union {Unread}]
         /\ local' \in [Processes -> Nat]
  BY DEF TypeOK, Keep

\* Death leaves a call with a phase.
LEMMA DeathPhases ==
  ASSUME NEW c \in Calls, phase[c] \in Phases
  PROVE  /\ AfterDeath(c) \in Phases
         /\ phase[c] \in {"waiting"} \union Started => AfterDeath(c) = "lost"
         /\ phase[c] = "committed" => AfterDeath(c) = "silent"
         /\ phase[c] \notin {"waiting", "committed"} \union Started => AfterDeath(c) = phase[c]
  BY DEF AfterDeath, Phases, Started, InCallback, Effective

LEMMA NextTypes == TypeOK /\ [Next]_vars => TypeOK'
<1> SUFFICES ASSUME TypeOK, [Next]_vars
             PROVE  TypeOK'
  OBVIOUS
<1> USE CallAssumption
<1>1. ASSUME NEW c \in Calls, Issue(c)
      PROVE  TypeOK'
  BY <1>1 DEF Issue, Enter, connection, TypeOK, Phases
<1>2. ASSUME NEW c \in Calls, Execute(c)
      PROVE  TypeOK'
  <2>1. CASE inTx[ProcessOf[c]]
    <3>1. View(ProcessOf[c]) + 1 \in Nat
      BY ViewType
    <3>2. Keep(ProcessOf[c], View(ProcessOf[c]) + 1) /\ store' = store
      BY <1>2, <2>1 DEF Execute
    <3> QED
      BY <1>2, <3>1, <3>2, KeepTypes DEF Execute, Enter, chain, TypeOK, Phases, Effective
  <2>2. CASE ~inTx[ProcessOf[c]]
    BY <1>2, <2>2 DEF Execute, Enter, connection, chain, TypeOK, Phases, Effective
  <2> QED
    BY <2>1, <2>2
<1>3. ASSUME NEW c \in Calls, \/ ExecuteFails(c) \/ BeginFails(c) \/ Begin(c) \/ WriteStale(c)
                              \/ Resolve(c)
      PROVE  TypeOK'
  BY <1>3 DEF ExecuteFails, BeginFails, Begin, WriteStale, Resolve, Enter, connection, chain,
     TypeOK, Phases, Effective, Started, InCallback
<1>4. ASSUME NEW c \in Calls, Read(c)
      PROVE  TypeOK'
  BY <1>4, ViewType DEF Read, Enter, chain, TypeOK, Phases, Started, InCallback
<1>5. ASSUME NEW c \in Calls, Write(c)
      PROVE  TypeOK'
  <2>1. (IF phase[c] = "read" THEN seen[c] ELSE View(ProcessOf[c])) + 1 \in Nat
    BY ViewType DEF TypeOK
  <2> QED
    BY <1>5, <2>1, KeepTypes DEF Write, Enter, chain, TypeOK, Phases, Started, InCallback
<1>6. ASSUME NEW c \in Calls, Throw(c)
      PROVE  TypeOK'
  BY <1>6, ReleaseTypes DEF Throw, Enter, connection, chain, TypeOK, Phases, Started, InCallback
<1>7. ASSUME NEW c \in Calls, Commit(c) \/ Rollback(c)
      PROVE  TypeOK'
  BY <1>7, ReleaseTypes DEF Commit, Rollback, Enter, chain, TypeOK, Phases, Effective
<1>8. ASSUME NEW p \in Processes, Crash(p)
      PROVE  TypeOK'
  <2>1. phase' \in [Calls -> Phases]
    BY <1>8, DeathPhases DEF Crash, TypeOK
  <2> QED
    BY <1>8, <2>1, ReleaseTypes DEF Crash, TypeOK
<1>9. CASE UNCHANGED vars
  BY <1>9 DEF vars, connection, chain, TypeOK
<1> QED
  BY <1>1, <1>2, <1>3, <1>4, <1>5, <1>6, <1>7, <1>8, <1>9 DEF Next, Progress, Failure

\* Calls, connections and the chain always have their types.
THEOREM AdapterTypes == Spec => []TypeOK
<1> QED
  BY InitTypes, NextTypes, PTL DEF Spec

(***************************************************************************)
(* The chain: while a transaction is unsettled, every later call of its    *)
(* process waits behind a transaction that is unsettled too.               *)
(***************************************************************************)

Live(c) == phase[c] \in {"waiting", "committed"} \union Started

Same(c, d) == ProcessOf[c] = ProcessOf[d]

Numbered ==
  /\ \A c \in Calls : phase[c] = "idle" <=> order[c] = 0
  /\ \A c \in Calls : order[c] <= issued[ProcessOf[c]]
  /\ \A c, d \in Calls : Same(c, d) /\ order[c] = order[d] /\ order[c] # 0 => c = d

TailIsLast ==
  /\ \A p \in Processes, t \in Transactions : tail[p] = t =>
       ProcessOf[t] = p /\ (Live(t) \/ Settled(t))
  /\ \A t \in Transactions : Live(t) =>
       \E u \in Transactions : tail[ProcessOf[t]] = u /\ order[t] <= order[u]

Chained ==
  /\ \A d \in Calls, t \in Transactions : phase[d] = "waiting" /\ behind[d] = t =>
       Same(t, d) /\ order[t] < order[d] /\ (Live(t) \/ Settled(t))
  /\ \A t \in Transactions, d \in Calls : Live(t) /\ Same(t, d) /\ order[t] < order[d] =>
       /\ phase[d] = "waiting"
       /\ \E u \in Transactions : behind[d] = u /\ Live(u) /\ order[t] <= order[u]

Queueing == Numbered /\ TailIsLast /\ Chained /\ InIssueOrder

\* A waiting call whose turn has come.
TurnTo(c) ==
  /\ Turn(c)
  /\ \E next \in {"open", "committed", "rejected"} : Enter(c, next)
  /\ UNCHANGED chain

\* A call that is past waiting.
MoveOn(c) ==
  /\ phase[c] \in {"committed"} \union Started
  /\ \E next \in {"committed", "resolved", "rejected"} \union Started : Enter(c, next)
  /\ UNCHANGED chain

\* All steps, as far as the chain sees them.
LEMMA ChainSteps ==
  ASSUME [Next]_vars
  PROVE  \/ \E c \in Calls : Issue(c) \/ TurnTo(c) \/ MoveOn(c)
         \/ \E p \in Processes : Crash(p)
         \/ UNCHANGED <<phase, chain>>
<1>1. ASSUME NEW c \in Calls, Execute(c) \/ ExecuteFails(c) \/ Begin(c) \/ BeginFails(c)
      PROVE  TurnTo(c)
  BY <1>1 DEF Execute, ExecuteFails, Begin, BeginFails, TurnTo
<1>2. ASSUME NEW c \in Calls, \/ Read(c) \/ Write(c) \/ WriteStale(c) \/ Throw(c) \/ Commit(c)
                              \/ Rollback(c) \/ Resolve(c)
      PROVE  MoveOn(c)
  BY <1>2 DEF Read, Write, WriteStale, Throw, Commit, Rollback, Resolve, MoveOn, Started, InCallback
<1>3. CASE UNCHANGED vars
  BY <1>3 DEF vars
<1> QED
  BY <1>1, <1>2, <1>3 DEF Next, Progress, Failure

\* When the turn of a call has come, nothing issued before it is unsettled: no
\* transaction, and no call that still waits.
LEMMA TurnIsFree ==
  ASSUME TypeOK, Queueing, NEW c \in Calls, Turn(c)
  PROVE  /\ phase[c] = "waiting"
         /\ \A t \in Transactions : Live(t) /\ Same(t, c) => order[c] <= order[t]
         /\ \A d \in Calls : Same(c, d) /\ phase[d] = "waiting" => order[c] <= order[d]
<1> USE CallAssumption
<1>1. phase[c] = "waiting" /\ Settled(behind[c])
  BY DEF Turn, Runnable
<1>2. \A u \in Transactions : behind[c] = u => ~Live(u)
  BY <1>1 DEF Settled, Live, Started, InCallback
<1>3. \A e \in Calls : order[e] \in Nat
  BY DEF TypeOK
<1>4. \A t \in Transactions : Live(t) /\ Same(t, c) => order[c] <= order[t]
  BY <1>2, <1>3 DEF Queueing, Chained, Same
<1>5. ASSUME NEW d \in Calls, Same(c, d), phase[d] = "waiting", order[d] < order[c]
      PROVE  FALSE
  <2>1. ~Settled(behind[d])
    BY <1>3, <1>5 DEF Turn, Runnable, Of, Same
  <2>2. behind[d] \in Transactions /\ Live(behind[d]) /\ Same(behind[d], d)
        /\ order[behind[d]] < order[d]
    BY <1>5, <2>1 DEF Queueing, Chained, Settled, TypeOK
  <2> QED
    BY <1>3, <1>4, <1>5, <2>2 DEF Same
<1> QED
  BY <1>1, <1>3, <1>4, <1>5

LEMMA InitQueueing == Init => Queueing
  BY CallAssumption DEF Init, Queueing, Numbered, TailIsLast, Chained, InIssueOrder, Live, Started,
     InCallback, Same

\* A new call is chained on the last transaction of its process.
LEMMA IssueQueueing ==
  ASSUME TypeOK, Queueing, NEW c \in Calls, Issue(c)
  PROVE  Queueing'
<1> USE CallAssumption
<1> DEFINE p == ProcessOf[c]
<1>0. /\ \A e \in Calls : order[e] \in Nat /\ ProcessOf[e] \in Processes
      /\ \A q \in Processes : issued[q] \in Nat
      /\ \A q \in Processes : tail[q] \in Transactions \union {NoCall}
      /\ \A e \in Calls : behind[e] \in Transactions \union {NoCall}
  BY DEF TypeOK
<1>1. /\ phase' = [phase EXCEPT ![c] = "waiting"]
      /\ issued' = [issued EXCEPT ![p] = issued[p] + 1]
      /\ order' = [order EXCEPT ![c] = issued[p] + 1]
      /\ behind' = [behind EXCEPT ![c] = tail[p]]
      /\ tail' = IF c \in Transactions THEN [tail EXCEPT ![p] = c] ELSE tail
      /\ phase[c] = "idle"
  BY DEF Issue, Enter
<1>2. \A d \in Calls : d # c => phase'[d] = phase[d] /\ order'[d] = order[d] /\ behind'[d] = behind[d]
  BY <1>1 DEF TypeOK
<1>3. phase'[c] = "waiting" /\ order'[c] = issued[p] + 1 /\ behind'[c] = tail[p] /\ order[c] = 0
  BY <1>1 DEF TypeOK, Queueing, Numbered
<1>4. \A d \in Calls : Same(c, d) => order[d] < order'[c]
  BY <1>0, <1>3 DEF Queueing, Numbered, Same
<1>5. \A d \in Calls : d # c => (Live(d)' <=> Live(d)) /\ (Settled(d)' <=> Settled(d))
  BY <1>2 DEF Live, Settled
<1>6. ~Live(c) /\ ~Settled(c) /\ Live(c)'
  BY <1>1, <1>3 DEF Live, Settled, Started, InCallback
<1>7. Numbered'
  BY <1>0, <1>1, <1>2, <1>3, <1>4 DEF Queueing, Numbered, Same, TypeOK
<1>8. \A q \in Processes : tail'[q] = IF q = p /\ c \in Transactions THEN c ELSE tail[q]
  BY <1>1 DEF TypeOK
<1>9. TailIsLast'
  <2>1. ASSUME NEW q \in Processes, NEW t \in Transactions, tail'[q] = t
        PROVE  ProcessOf[t] = q /\ (Live(t)' \/ Settled(t)')
    <3>1. CASE t = c
      <4>1. q = p
        BY <1>6, <1>8, <2>1, <3>1 DEF Queueing, TailIsLast
      <4> QED
        BY <1>6, <3>1, <4>1
    <3>2. CASE t # c
      <4>1. tail[q] = t
        BY <1>8, <2>1, <3>2
      <4> QED
        BY <1>5, <3>2, <4>1 DEF Queueing, TailIsLast
    <3> QED
      BY <3>1, <3>2
  <2>2. ASSUME NEW t \in Transactions, Live(t)'
        PROVE  \E u \in Transactions : tail'[ProcessOf[t]] = u /\ order'[t] <= order'[u]
    <3>1. CASE c \in Transactions /\ Same(t, c)
      <4>1. tail'[ProcessOf[t]] = c
        BY <1>0, <1>8, <3>1 DEF Same
      <4>2. order'[t] <= order'[c] 
        BY <1>0, <1>2, <1>3, <1>4, <3>1 DEF Same
      <4> QED
        BY <3>1, <4>1, <4>2
    <3>2. CASE ~(c \in Transactions /\ Same(t, c))
      <4>1. t # c /\ Live(t) /\ tail'[ProcessOf[t]] = tail[ProcessOf[t]]
        BY <1>0, <1>5, <1>8, <2>2, <3>2 DEF Same
      <4>2. PICK u \in Transactions : tail[ProcessOf[t]] = u /\ order[t] <= order[u]
        BY <4>1 DEF Queueing, TailIsLast
      <4>3. u # c
        BY <1>0, <1>6, <4>2 DEF Queueing, TailIsLast
      <4> QED
        BY <1>2, <4>1, <4>2, <4>3
    <3> QED
      BY <3>1, <3>2
  <2> QED
    BY <2>1, <2>2 DEF TailIsLast
<1>10. ASSUME NEW t \in Transactions, Live(t), Same(t, c)
       PROVE  \E u \in Transactions : tail[p] = u /\ Live(u) /\ order[t] <= order[u]
  <2>1. PICK u \in Transactions : tail[p] = u /\ order[t] <= order[u]
    BY <1>10 DEF Queueing, TailIsLast, Same
  <2>2. order[t] # 0
    BY <1>10 DEF Queueing, Numbered, Live, Started, InCallback
  <2>3. Same(t, u)
    BY <1>0, <1>10, <2>1 DEF Queueing, TailIsLast, Same
  <2>4. CASE order[t] = order[u]
    BY <1>10, <2>1, <2>2, <2>3, <2>4 DEF Queueing, Numbered
  <2>5. CASE order[t] < order[u]
    <3>1. phase[u] = "waiting"
      BY <1>10, <2>3, <2>5 DEF Queueing, Chained
    <3> QED
      BY <2>1, <3>1 DEF Live
  <2> QED
    BY <1>0, <2>1, <2>4, <2>5
<1>11. Chained'
  <2>1. ASSUME NEW d \in Calls, NEW t \in Transactions, phase'[d] = "waiting", behind'[d] = t
        PROVE  Same(t, d) /\ order'[t] < order'[d] /\ (Live(t)' \/ Settled(t)')
    <3>1. CASE d # c
      <4>1. phase[d] = "waiting" /\ behind[d] = t
        BY <1>2, <2>1, <3>1
      <4>2. Same(t, d) /\ order[t] < order[d] /\ (Live(t) \/ Settled(t))
        BY <4>1 DEF Queueing, Chained
      <4>3. t # c
        BY <1>6, <4>2
      <4> QED
        BY <1>2, <1>5, <3>1, <4>2, <4>3
    <3>2. CASE d = c
      <4>1. tail[p] = t
        BY <1>3, <2>1, <3>2
      <4>2. ProcessOf[t] = p /\ (Live(t) \/ Settled(t))
        BY <1>0, <4>1 DEF Queueing, TailIsLast
      <4>3. t # c
        BY <1>6, <4>2
      <4> QED
        BY <1>2, <1>4, <1>5, <3>2, <4>2, <4>3 DEF Same
    <3> QED
      BY <3>1, <3>2
  <2>2. ASSUME NEW t \in Transactions, NEW d \in Calls, Live(t)', Same(t, d), order'[t] < order'[d]
        PROVE  /\ phase'[d] = "waiting"
               /\ \E u \in Transactions : behind'[d] = u /\ Live(u)' /\ order'[t] <= order'[u]
    <3>1. t # c
      <4> SUFFICES ASSUME t = c PROVE FALSE
        OBVIOUS
      <4>1. CASE d = c
        BY <1>0, <1>3, <2>2, <4>1
      <4>2. CASE d # c
        BY <1>0, <1>2, <1>3, <1>4, <2>2, <4>2 DEF Same
      <4> QED
        BY <4>1, <4>2
    <3>2. Live(t) /\ order'[t] = order[t]
      BY <1>2, <1>5, <2>2, <3>1
    <3>3. CASE d # c
      <4>1. phase[d] = "waiting" /\ order[t] < order[d]
        BY <1>2, <2>2, <3>2, <3>3 DEF Queueing, Chained
      <4>2. PICK u \in Transactions : behind[d] = u /\ Live(u) /\ order[t] <= order[u]
        BY <2>2, <3>2, <4>1 DEF Queueing, Chained
      <4>3. u # c
        BY <1>6, <4>2
      <4> QED
        BY <1>2, <1>5, <3>2, <3>3, <4>1, <4>2, <4>3
    <3>4. CASE d = c
      <4>1. PICK u \in Transactions : tail[p] = u /\ Live(u) /\ order[t] <= order[u]
        BY <1>10, <2>2, <3>2, <3>4
      <4>2. u # c
        BY <1>6, <4>1
      <4> QED
        BY <1>2, <1>3, <1>5, <3>2, <3>4, <4>1, <4>2
    <3> QED
      BY <3>3, <3>4
  <2> QED
    BY <2>1, <2>2 DEF Chained, Same
<1>12. InIssueOrder'
  BY <1>0, <1>1, <1>2, <1>3, <1>4 DEF Queueing, InIssueOrder, Same
<1> QED
  BY <1>7, <1>9, <1>11, <1>12 DEF Queueing

\* A call with nothing unsettled before it goes on.
LEMMA PhaseQueueing ==
  ASSUME TypeOK, Queueing, UNCHANGED chain,
         NEW c \in Calls, phase[c] \in {"waiting", "committed"} \union Started,
         NEW next \in {"committed", "resolved", "rejected"} \union Started, Enter(c, next),
         \A t \in Transactions : Live(t) /\ Same(t, c) => order[c] <= order[t],
         \A d \in Calls : Same(c, d) /\ phase[d] = "waiting" => order[c] <= order[d]
  PROVE  Queueing'
<1> USE CallAssumption
<1>0. \A e \in Calls : order[e] \in Nat /\ ProcessOf[e] \in Processes
  BY DEF TypeOK
<1>1. \A d \in Calls : phase'[d] = IF d = c THEN next ELSE phase[d]
  BY DEF Enter, TypeOK
<1>2. issued' = issued /\ order' = order /\ tail' = tail /\ behind' = behind
  BY DEF chain
<1>3. \A d \in Calls : d # c => (Live(d)' <=> Live(d)) /\ (Settled(d)' <=> Settled(d))
  BY <1>1 DEF Live, Settled
<1>4. Live(c) /\ (Live(c)' \/ Settled(c)')
  BY <1>1 DEF Live, Settled, Started, InCallback
<1>5. next # "idle" /\ next # "waiting" /\ phase[c] # "idle"
  BY DEF Started, InCallback
<1>6. Numbered'
  <2>1. \A d \in Calls : phase'[d] = "idle" <=> phase[d] = "idle"
    BY <1>1, <1>5
  <2> QED
    BY <1>2, <2>1 DEF Queueing, Numbered, Same
<1>7. TailIsLast'
  <2>1. \A t \in Transactions : Live(t) \/ Settled(t) => Live(t)' \/ Settled(t)'
    BY <1>3, <1>4
  <2>2. \A t \in Transactions : Live(t)' => Live(t)
    BY <1>3, <1>4
  <2> QED
    BY <1>2, <2>1, <2>2 DEF Queueing, TailIsLast
<1>8. Chained'
  <2>1. ASSUME NEW d \in Calls, NEW t \in Transactions, phase'[d] = "waiting", behind'[d] = t
        PROVE  Same(t, d) /\ order'[t] < order'[d] /\ (Live(t)' \/ Settled(t)')
    <3>1. phase[d] = "waiting" /\ behind[d] = t
      BY <1>1, <1>2, <1>5, <2>1
    <3>2. Same(t, d) /\ order[t] < order[d] /\ (Live(t) \/ Settled(t))
      BY <3>1 DEF Queueing, Chained
    <3> QED
      BY <1>2, <1>3, <1>4, <3>2
  <2>2. ASSUME NEW t \in Transactions, NEW d \in Calls, Live(t)', Same(t, d), order'[t] < order'[d]
        PROVE  /\ phase'[d] = "waiting"
               /\ \E u \in Transactions : behind'[d] = u /\ Live(u)' /\ order'[t] <= order'[u]
    <3>1. Live(t) /\ order[t] < order[d]
      BY <1>2, <1>3, <1>4, <2>2
    <3>2. phase[d] = "waiting"
      BY <2>2, <3>1 DEF Queueing, Chained
    <3>3. PICK u \in Transactions : behind[d] = u /\ Live(u) /\ order[t] <= order[u]
      BY <2>2, <3>1 DEF Queueing, Chained
    <3>4. d # c
      BY <1>0, <2>2, <3>1
    <3>5. Same(u, d) /\ order[u] < order[d]
      BY <3>2, <3>3 DEF Queueing, Chained
    <3>6. Live(u)'
      <4>1. CASE u # c
        BY <1>3, <3>3, <4>1
      <4>2. CASE u = c
        <5>1. order[u] <= order[t]
          BY <2>2, <3>1, <3>5, <4>2 DEF Same
        <5>2. order[t] = order[u] /\ Same(t, u)
          BY <1>0, <2>2, <3>3, <3>5, <5>1 DEF Same
        <5>3. order[t] # 0
          BY <3>1 DEF Queueing, Numbered, Live, Started, InCallback
        <5>4. t = u
          BY <5>2, <5>3 DEF Queueing, Numbered
        <5> QED
          BY <2>2, <5>4
      <4> QED
        BY <4>1, <4>2
    <3> QED
      BY <1>1, <1>2, <3>2, <3>3, <3>4, <3>6
  <2> QED
    BY <2>1, <2>2 DEF Chained, Same
<1>9. InIssueOrder'
  BY <1>0, <1>1, <1>2, <1>5 DEF Queueing, InIssueOrder, Same
<1> QED
  BY <1>6, <1>7, <1>8, <1>9 DEF Queueing

\* The calls of a dead process are neither waiting nor live.
LEMMA CrashQueueing ==
  ASSUME TypeOK, Queueing, NEW p \in Processes, Crash(p)
  PROVE  Queueing'
<1> USE CallAssumption
<1>0. \A e \in Calls : order[e] \in Nat /\ ProcessOf[e] \in Processes
  BY DEF TypeOK
<1>1. \A d \in Calls : phase'[d] = IF ProcessOf[d] = p THEN AfterDeath(d) ELSE phase[d]
  BY DEF Crash
<1>2. /\ issued' = issued /\ order' = order /\ behind' = behind
      /\ \A q \in Processes : tail'[q] = IF q = p THEN NoCall ELSE tail[q]
  BY DEF Crash, TypeOK
<1>3. \A d \in Calls : ProcessOf[d] # p => (Live(d)' <=> Live(d)) /\ (Settled(d)' <=> Settled(d))
  BY <1>1 DEF Live, Settled
<1>4. \A d \in Calls : ProcessOf[d] = p =>
        phase'[d] # "waiting" /\ ~Live(d)' /\ (phase'[d] = "idle" <=> phase[d] = "idle")
  <2> SUFFICES ASSUME NEW d \in Calls, ProcessOf[d] = p
               PROVE  phase'[d] # "waiting" /\ ~Live(d)' /\ (phase'[d] = "idle" <=> phase[d] = "idle")
    OBVIOUS
  <2>1. phase'[d] = AfterDeath(d) /\ phase[d] \in Phases
    BY <1>1 DEF TypeOK
  <2> QED
    BY <2>1, DeathPhases DEF Live, Started, InCallback
<1>5. Numbered'
  BY <1>1, <1>2, <1>4 DEF Queueing, Numbered, Same
<1>6. TailIsLast'
  <2>1. ASSUME NEW q \in Processes, NEW t \in Transactions, tail'[q] = t
        PROVE  ProcessOf[t] = q /\ (Live(t)' \/ Settled(t)')
    <3>1. q # p /\ tail[q] = t
      BY <1>2, <2>1
    <3>2. ProcessOf[t] = q /\ (Live(t) \/ Settled(t))
      BY <3>1 DEF Queueing, TailIsLast
    <3> QED
      BY <1>3, <3>1, <3>2
  <2>2. ASSUME NEW t \in Transactions, Live(t)'
        PROVE  \E u \in Transactions : tail'[ProcessOf[t]] = u /\ order'[t] <= order'[u]
    <3>1. ProcessOf[t] # p /\ Live(t)
      BY <1>3, <1>4, <2>2
    <3> QED
      BY <1>0, <1>2, <3>1 DEF Queueing, TailIsLast
  <2> QED
    BY <2>1, <2>2 DEF TailIsLast
<1>7. Chained'
  <2>1. ASSUME NEW d \in Calls, NEW t \in Transactions, phase'[d] = "waiting", behind'[d] = t
        PROVE  Same(t, d) /\ order'[t] < order'[d] /\ (Live(t)' \/ Settled(t)')
    <3>1. ProcessOf[d] # p /\ phase[d] = "waiting" /\ behind[d] = t
      BY <1>1, <1>2, <1>4, <2>1
    <3>2. Same(t, d) /\ order[t] < order[d] /\ (Live(t) \/ Settled(t))
      BY <3>1 DEF Queueing, Chained
    <3> QED
      BY <1>2, <1>3, <3>1, <3>2 DEF Same
  <2>2. ASSUME NEW t \in Transactions, NEW d \in Calls, Live(t)', Same(t, d), order'[t] < order'[d]
        PROVE  /\ phase'[d] = "waiting"
               /\ \E u \in Transactions : behind'[d] = u /\ Live(u)' /\ order'[t] <= order'[u]
    <3>1. ProcessOf[t] # p /\ ProcessOf[d] # p /\ Live(t) /\ order[t] < order[d]
      BY <1>2, <1>3, <1>4, <2>2 DEF Same
    <3>2. phase[d] = "waiting"
      BY <2>2, <3>1 DEF Queueing, Chained
    <3>3. PICK u \in Transactions : behind[d] = u /\ Live(u) /\ order[t] <= order[u]
      BY <2>2, <3>1 DEF Queueing, Chained
    <3>4. Same(u, d)
      BY <3>2, <3>3 DEF Queueing, Chained
    <3> QED
      BY <1>1, <1>2, <1>3, <3>1, <3>2, <3>3, <3>4 DEF Same
  <2> QED
    BY <2>1, <2>2 DEF Chained, Same
<1>8. InIssueOrder'
  BY <1>1, <1>2, <1>4 DEF Queueing, InIssueOrder, Same
<1> QED
  BY <1>5, <1>6, <1>7, <1>8 DEF Queueing

LEMMA NextQueueing == TypeOK /\ Queueing /\ [Next]_vars => Queueing'
<1> SUFFICES ASSUME TypeOK, Queueing, [Next]_vars
             PROVE  Queueing'
  OBVIOUS
<1>1. ASSUME NEW c \in Calls, TurnTo(c)
      PROVE  Queueing'
  <2>1. PICK next \in {"open", "committed", "rejected"} : Enter(c, next)
    BY <1>1 DEF TurnTo
  <2>2. Turn(c) /\ UNCHANGED chain
    BY <1>1 DEF TurnTo
  <2>3. next \in {"committed", "resolved", "rejected"} \union Started
    BY DEF Started, InCallback
  <2> QED
    BY <2>1, <2>2, <2>3, TurnIsFree, PhaseQueueing
<1>2. ASSUME NEW c \in Calls, MoveOn(c)
      PROVE  Queueing'
  <2>1. PICK next \in {"committed", "resolved", "rejected"} \union Started : Enter(c, next)
    BY <1>2 DEF MoveOn
  <2>2. phase[c] \in {"committed"} \union Started /\ UNCHANGED chain
    BY <1>2 DEF MoveOn
  <2>3. phase[c] # "waiting" /\ \A e \in Calls : order[e] \in Nat
    BY <2>2 DEF Started, InCallback, TypeOK
  <2>4. \A t \in Transactions : Live(t) /\ Same(t, c) => order[c] <= order[t]
    BY <2>3, CallAssumption DEF Queueing, Chained
  <2>5. \A d \in Calls : Same(c, d) /\ phase[d] = "waiting" => order[c] <= order[d]
    BY <2>3 DEF Queueing, InIssueOrder, Same
  <2> QED
    BY <2>1, <2>2, <2>4, <2>5, PhaseQueueing
<1>3. CASE UNCHANGED <<phase, chain>>
  BY <1>3 DEF chain, Queueing, Numbered, TailIsLast, Chained, InIssueOrder, Live, Settled, Same
<1> QED
  BY <1>1, <1>2, <1>3, ChainSteps, IssueQueueing, CrashQueueing

\* Calls of one process run in the order they were made, so that a caller reads what
\* the calls before its own have written.
THEOREM OrderHolds == Spec => []InIssueOrder
<1>1. Spec => []Queueing
  BY InitQueueing, NextQueueing, AdapterTypes, PTL DEF Spec
<1>2. Queueing => InIssueOrder
  BY DEF Queueing
<1> QED
  BY <1>1, <1>2, PTL

(***************************************************************************)
(* The connection: whose transaction is open on it, and what it holds.     *)
(***************************************************************************)

TxOnly == \A c \in Calls : phase[c] \in Started => c \in Transactions

\* An open transaction belongs to a callback of its process, and one such callback
\* knows what the connection has read and written.
Holds(c) ==
  LET p == ProcessOf[c]
  IN /\ phase[c] \in InCallback => inTx[p]
     /\ phase[c] = "open" => writer # p /\ snapshot[p] = Unread
     /\ phase[c] = "read" => writer # p /\ snapshot[p] = seen[c]
     /\ phase[c] = "written" => writer = p /\ local[p] = store + 1

Owned(p) ==
  /\ inTx[p] => \E c \in Of(p) : phase[c] \in Started
  /\ ~inTx[p] => writer # p /\ snapshot[p] = Unread

Connected == TxOnly /\ (\A c \in Calls : Holds(c)) /\ (\A p \in Processes : Owned(p))

\* One transaction at a time is past BEGIN and not yet settled.
LEMMA OneStarted ==
  ASSUME TypeOK, Queueing, TxOnly, NEW c \in Calls, NEW d \in Calls, Same(c, d),
         phase[c] \in Started, phase[d] \in Started
  PROVE  c = d
<1> USE CallAssumption
<1>1. order[c] \in Nat /\ order[d] \in Nat
  BY DEF TypeOK
<1>2. c \in Transactions /\ d \in Transactions /\ Live(c) /\ Live(d)
  BY DEF TxOnly, Live
<1>3. phase[c] # "waiting" /\ phase[d] # "waiting" /\ phase[c] # "idle"
  BY DEF Started, InCallback
<1>4. ~(order[c] < order[d]) /\ ~(order[d] < order[c])
  BY <1>2, <1>3 DEF Queueing, Chained, Same
<1> QED
  BY <1>1, <1>3, <1>4 DEF Queueing, Numbered

\* When the turn of a call has come, no transaction of its process has begun.
LEMMA TurnNoneStarted ==
  ASSUME TypeOK, Queueing, TxOnly, NEW c \in Calls, Turn(c)
  PROVE  \A d \in Calls : Same(d, c) => phase[d] \notin Started
<1> USE CallAssumption
<1> SUFFICES ASSUME NEW d \in Calls, Same(d, c), phase[d] \in Started
             PROVE  FALSE
  OBVIOUS
<1>1. phase[c] = "waiting" /\ phase[d] # "waiting" /\ order[c] \in Nat /\ order[d] \in Nat
  BY TurnIsFree DEF Started, InCallback, TypeOK
<1>2. d \in Transactions /\ Live(d)
  BY DEF TxOnly, Live
<1>3. order[c] <= order[d]
  BY <1>2, TurnIsFree
<1>4. order[c] # order[d]
  BY <1>1 DEF Queueing, Numbered, Same
<1> QED
  BY <1>1, <1>3, <1>4 DEF Queueing, InIssueOrder, Same

\* A connection outside a transaction holds nothing.
LEMMA TurnIsOutside ==
  ASSUME TypeOK, Queueing, Connected, NEW c \in Calls, Turn(c)
  PROVE  /\ ~inTx[ProcessOf[c]] /\ writer # ProcessOf[c] /\ snapshot[ProcessOf[c]] = Unread
<1>1. ProcessOf[c] \in Processes
  BY CallAssumption
<1>2. \A d \in Calls : Same(d, c) => phase[d] \notin Started
  BY TurnNoneStarted DEF Connected
<1>3. ~inTx[ProcessOf[c]]
  BY <1>1, <1>2 DEF Connected, Owned, Of, Same
<1> QED
  BY <1>1, <1>3 DEF Connected, Owned

LEMMA InitConnected == Init => Connected
  BY CallAssumption DEF Init, Connected, TxOnly, Holds, Owned, Started, InCallback

\* A step of call c that leaves the connection, the store and what c has read alone,
\* and ends no transaction.
LEMMA StillConnected ==
  ASSUME TypeOK, Connected, NEW c \in Calls, NEW next \in Phases, Enter(c, next),
         UNCHANGED <<connection, store, seen>>,
         next \in Started => phase[c] \in Started /\ next = "failing",
         phase[c] \in Started => next \in Started
  PROVE  Connected'
<1> USE CallAssumption
<1>1. \A d \in Calls : phase'[d] = IF d = c THEN next ELSE phase[d]
  BY DEF Enter, TypeOK
<1>2. writer' = writer /\ inTx' = inTx /\ snapshot' = snapshot /\ local' = local /\ store' = store /\ seen' = seen
  BY DEF connection
<1>3. TxOnly'
  BY <1>1 DEF Connected, TxOnly
<1>4. ASSUME NEW d \in Calls
      PROVE  Holds(d)'
  <2>1. CASE d # c
    BY <1>1, <1>2, <2>1 DEF Connected, Holds
  <2>2. CASE d = c
    <3>1. phase'[d] \notin InCallback
      BY <1>1, <2>2 DEF Started, InCallback
    <3> QED
      BY <3>1 DEF Holds, InCallback
  <2> QED
    BY <2>1, <2>2
<1>5. ASSUME NEW p \in Processes
      PROVE  Owned(p)'
  BY <1>1, <1>2 DEF Connected, Owned, Of
<1> QED
  BY <1>3, <1>4, <1>5 DEF Connected

\* The transaction of call c ends, or it has lost its transaction.
LEMMA ReleaseConnected ==
  ASSUME TypeOK, Queueing, Connected, NEW c \in Calls, NEW next \in {"failing", "rejected", "committed"},
         phase[c] \in Started, Enter(c, next), Release(ProcessOf[c]), UNCHANGED seen,
         store' = store \/ writer = ProcessOf[c]
  PROVE  Connected'
<1> USE CallAssumption
<1> DEFINE p == ProcessOf[c]
<1>1. \A d \in Calls : phase'[d] = IF d = c THEN next ELSE phase[d]
  BY DEF Enter, TypeOK
<1>2. /\ writer' = IF writer = p THEN NoProcess ELSE writer
      /\ \A q \in Processes : inTx'[q] = IF q = p THEN FALSE ELSE inTx[q]
      /\ \A q \in Processes : snapshot'[q] = IF q = p THEN Unread ELSE snapshot[q]
      /\ \A q \in Processes : local'[q] = IF q = p THEN 0 ELSE local[q]
  BY DEF Release, TypeOK
<1>3. \A d \in Calls : Same(d, c) /\ d # c => phase[d] \notin Started
  BY OneStarted DEF Connected, Same
<1>4. TxOnly'
  BY <1>1 DEF Connected, TxOnly, Started, InCallback
<1>5. ASSUME NEW d \in Calls
      PROVE  Holds(d)'
  <2>1. CASE Same(d, c)
    <3>1. phase'[d] \notin InCallback
      BY <1>1, <1>3, <2>1 DEF Started, InCallback
    <3> QED
      BY <3>1 DEF Holds, InCallback
  <2>2. CASE ~Same(d, c)
    <3>1. d # c /\ phase'[d] = phase[d] /\ Holds(d) /\ ProcessOf[d] \in Processes /\ ProcessOf[d] # p
      BY <1>1, <2>2 DEF Same, Connected
    <3>2. phase[d] = "written" => store' = store
      BY <3>1 DEF Holds
    <3>3. writer' = ProcessOf[d] <=> writer = ProcessOf[d]
      BY <1>2, <3>1
    <3> QED
      BY <1>2, <3>1, <3>2, <3>3 DEF Holds
  <2> QED
    BY <2>1, <2>2
<1>6. ASSUME NEW q \in Processes
      PROVE  Owned(q)'
  <2>1. CASE q = p
    BY <1>2, <2>1 DEF Owned
  <2>2. CASE q # p
    <3>1. Owned(q) /\ inTx'[q] = inTx[q] /\ snapshot'[q] = snapshot[q] /\ (writer' = q => writer = q)
      BY <1>2, <2>2 DEF Connected
    <3>2. \A d \in Of(q) : phase'[d] = phase[d]
      BY <1>1, <2>2 DEF Of
    <3> QED
      BY <3>1, <3>2 DEF Owned, Of
  <2> QED
    BY <2>1, <2>2
<1> QED
  BY <1>4, <1>5, <1>6 DEF Connected

\* A statement commits at once: it never joins a transaction.
LEMMA ExecuteCommits ==
  ASSUME TypeOK, Queueing, Connected, NEW c \in Calls, Execute(c)
  PROVE  /\ store' = store + 1 /\ UNCHANGED <<connection, seen>>
         /\ writer = NoProcess /\ phase[c] = "waiting" /\ Enter(c, "committed")
  BY TurnIsOutside, TurnIsFree DEF Execute, CanWrite

LEMMA ExecuteConnected ==
  ASSUME TypeOK, Queueing, Connected, NEW c \in Calls, Execute(c)
  PROVE  Connected'
<1> USE CallAssumption
<1>1. \A d \in Calls : phase'[d] = IF d = c THEN "committed" ELSE phase[d]
  BY ExecuteCommits DEF Enter, TypeOK
<1>2. /\ writer' = writer /\ inTx' = inTx /\ snapshot' = snapshot /\ local' = local /\ seen' = seen
      /\ writer = NoProcess /\ phase[c] = "waiting"
  BY ExecuteCommits DEF connection
<1>3. TxOnly'
  BY <1>1 DEF Connected, TxOnly, Started, InCallback
<1>4. ASSUME NEW d \in Calls
      PROVE  Holds(d)'
  <2>1. phase[d] # "written"
    BY <1>2 DEF Connected, Holds
  <2> QED
    BY <1>1, <1>2, <2>1 DEF Connected, Holds, InCallback
<1>5. ASSUME NEW p \in Processes
      PROVE  Owned(p)'
  BY <1>1, <1>2 DEF Connected, Owned, Of, Started, InCallback
<1> QED
  BY <1>3, <1>4, <1>5 DEF Connected

LEMMA BeginConnected ==
  ASSUME TypeOK, Queueing, Connected, NEW c \in Calls, Begin(c)
  PROVE  Connected'
<1> USE CallAssumption
<1> DEFINE p == ProcessOf[c]
<1>0. Turn(c) /\ c \in Transactions /\ ~inTx[p] /\ Enter(c, "open")
  BY DEF Begin
<1>1. \A d \in Calls : phase'[d] = IF d = c THEN "open" ELSE phase[d]
  BY <1>0 DEF Enter, TypeOK
<1>2. /\ writer' = writer /\ snapshot' = snapshot /\ local' = local /\ seen' = seen /\ store' = store
      /\ \A q \in Processes : inTx'[q] = IF q = p THEN TRUE ELSE inTx[q]
  BY DEF Begin, TypeOK
<1>3. writer # p /\ snapshot[p] = Unread
  BY <1>0, TurnIsOutside
<1>4. TxOnly'
  BY <1>0, <1>1 DEF Connected, TxOnly
<1>5. ASSUME NEW d \in Calls
      PROVE  Holds(d)'
  <2>1. CASE d # c
    BY <1>1, <1>2, <2>1 DEF Connected, Holds
  <2>2. CASE d = c
    BY <1>1, <1>2, <1>3, <2>2 DEF Holds
  <2> QED
    BY <2>1, <2>2
<1>6. ASSUME NEW q \in Processes
      PROVE  Owned(q)'
  <2>1. \A d \in Of(q) : phase[d] \in Started => phase'[d] \in Started
    BY <1>1 DEF Of, Started, InCallback
  <2>2. c \in Of(p) /\ phase'[c] \in Started
    BY <1>1 DEF Of, Started, InCallback
  <2> QED
    BY <1>2, <2>1, <2>2 DEF Connected, Owned, Of
<1> QED
  BY <1>4, <1>5, <1>6 DEF Connected

\* The callback of c goes on inside its transaction.
LEMMA CallbackConnected ==
  ASSUME TypeOK, Queueing, Connected, NEW c \in Calls, NEW next \in InCallback,
         phase[c] \in InCallback, Enter(c, next), UNCHANGED <<store, inTx>>,
         NEW p, p = ProcessOf[c],
         \A q \in Processes : q # p =>
           snapshot'[q] = snapshot[q] /\ local'[q] = local[q] /\ (writer' = q <=> writer = q),
         \A d \in Calls : d # c => seen'[d] = seen[d],
         Holds(c)'
  PROVE  Connected'
<1> USE CallAssumption
<1>1. \A d \in Calls : phase'[d] = IF d = c THEN next ELSE phase[d]
  BY DEF Enter, TypeOK
<1>2. \A d \in Calls : Same(d, c) /\ d # c => phase[d] \notin Started
  BY OneStarted DEF Connected, Same, Started
<1>3. TxOnly'
  BY <1>1 DEF Connected, TxOnly, Started
<1>4. ASSUME NEW d \in Calls
      PROVE  Holds(d)'
  <2>1. CASE d = c
    BY <2>1
  <2>2. CASE d # c /\ Same(d, c)
    <3>1. phase'[d] \notin InCallback
      BY <1>1, <1>2, <2>2 DEF Started
    <3> QED
      BY <3>1 DEF Holds, InCallback
  <2>3. CASE ~Same(d, c)
    <3>1. d # c /\ phase'[d] = phase[d] /\ Holds(d) /\ ProcessOf[d] \in Processes /\ ProcessOf[d] # p
      BY <1>1, <2>3 DEF Same, Connected
    <3> QED
      BY <3>1 DEF Holds
  <2> QED
    BY <2>1, <2>2, <2>3
<1>5. ASSUME NEW q \in Processes
      PROVE  Owned(q)'
  <2>1. \A d \in Of(q) : phase[d] \in Started => phase'[d] \in Started
    BY <1>1 DEF Of, Started
  <2>2. CASE q = p
    <3>1. inTx[p]
      BY DEF Connected, Holds
    <3> QED
      BY <2>1, <2>2, <3>1 DEF Connected, Owned, Of
  <2>3. CASE q # p
    BY <2>1, <2>3 DEF Connected, Owned, Of
  <2> QED
    BY <2>2, <2>3
<1> QED
  BY <1>3, <1>4, <1>5 DEF Connected

LEMMA ReadConnected ==
  ASSUME TypeOK, Queueing, Connected, NEW c \in Calls, Read(c)
  PROVE  Connected'
<1> USE CallAssumption
<1> DEFINE p == ProcessOf[c]
<1>1. /\ phase[c] = "open" /\ Enter(c, "read") /\ UNCHANGED <<store, inTx, writer, local>>
      /\ seen' = [seen EXCEPT ![c] = View(p)]
      /\ snapshot' = [snapshot EXCEPT ![p] = IF snapshot[p] = Unread THEN store ELSE snapshot[p]]
  BY DEF Read
<1>2. inTx[p] /\ writer # p /\ snapshot[p] = Unread
  BY <1>1 DEF Connected, Holds, InCallback
<1>3. View(p) = store
  BY <1>2 DEF View
<1>4. Holds(c)'
  BY <1>1, <1>2, <1>3 DEF Holds, Enter, TypeOK
<1>5. \A q \in Processes : q # p =>
        snapshot'[q] = snapshot[q] /\ local'[q] = local[q] /\ (writer' = q <=> writer = q)
  BY <1>1 DEF TypeOK
<1>6. \A d \in Calls : d # c => seen'[d] = seen[d]
  BY <1>1 DEF TypeOK
<1>7. "read" \in InCallback /\ phase[c] \in InCallback
  BY <1>1 DEF InCallback
<1> QED
  BY <1>1, <1>4, <1>5, <1>6, <1>7, CallbackConnected

\* What a transaction writes is one more than the store, for nobody else has written
\* since it read.
LEMMA WriteConnected ==
  ASSUME TypeOK, Queueing, Connected, NEW c \in Calls, Write(c)
  PROVE  Connected'
<1> USE CallAssumption
<1> DEFINE p == ProcessOf[c]
           value == (IF phase[c] = "read" THEN seen[c] ELSE View(p)) + 1
<1>1. /\ phase[c] \in {"open", "read"} /\ inTx[p] /\ CanWrite(p) /\ Keep(p, value)
      /\ Enter(c, "written") /\ UNCHANGED <<store, chain, seen>>
  BY DEF Write
<1>2. writer # p
  BY <1>1 DEF Connected, Holds
<1>3. writer = NoProcess /\ snapshot[p] \in {Unread, store}
  BY <1>1, <1>2 DEF CanWrite
<1>4. value = store + 1
  <2>1. CASE phase[c] = "read"
    <3>1. snapshot[p] = seen[c] /\ seen[c] \in Nat
      BY <2>1 DEF Connected, Holds, TypeOK
    <3> QED
      BY <1>3, <2>1, <3>1
  <2>2. CASE phase[c] = "open"
    <3>1. snapshot[p] = Unread
      BY <2>2 DEF Connected, Holds
    <3>2. View(p) = store
      BY <1>2, <3>1 DEF View
    <3> QED
      BY <2>2, <3>2
  <2> QED
    BY <1>1, <2>1, <2>2
<1>5. /\ writer' = p /\ inTx' = inTx /\ local' = [local EXCEPT ![p] = store + 1]
      /\ snapshot' = [snapshot EXCEPT ![p] = IF snapshot[p] = Unread THEN store ELSE snapshot[p]]
  BY <1>1, <1>4 DEF Keep
<1>6. Holds(c)'
  BY <1>1, <1>5 DEF Holds, Enter, TypeOK
<1>7. \A q \in Processes : q # p =>
        snapshot'[q] = snapshot[q] /\ local'[q] = local[q] /\ (writer' = q <=> writer = q)
  BY <1>3, <1>5 DEF TypeOK
<1>8. "written" \in InCallback /\ phase[c] \in InCallback
  BY <1>1 DEF InCallback
<1>9. \A d \in Calls : d # c => seen'[d] = seen[d]
  BY <1>1
<1> QED
  BY <1>1, <1>5, <1>6, <1>7, <1>8, <1>9, CallbackConnected

LEMMA CrashConnected ==
  ASSUME TypeOK, Connected, NEW p \in Processes, Crash(p)
  PROVE  Connected'
<1> USE CallAssumption
<1>1. \A d \in Calls : phase'[d] = IF ProcessOf[d] = p THEN AfterDeath(d) ELSE phase[d]
  BY DEF Crash
<1>2. /\ writer' = IF writer = p THEN NoProcess ELSE writer
      /\ \A q \in Processes : inTx'[q] = IF q = p THEN FALSE ELSE inTx[q]
      /\ \A q \in Processes : snapshot'[q] = IF q = p THEN Unread ELSE snapshot[q]
      /\ \A q \in Processes : local'[q] = IF q = p THEN 0 ELSE local[q]
      /\ store' = store /\ seen' = seen
  BY DEF Crash, Release, TypeOK
<1>3. \A d \in Calls : ProcessOf[d] = p => phase'[d] \notin Started
  <2> SUFFICES ASSUME NEW d \in Calls, ProcessOf[d] = p
               PROVE  phase'[d] \notin Started
    OBVIOUS
  <2>1. phase'[d] = AfterDeath(d) /\ phase[d] \in Phases
    BY <1>1 DEF TypeOK
  <2> QED
    BY <2>1, DeathPhases DEF Started, InCallback
<1>4. TxOnly'
  BY <1>1, <1>3 DEF Connected, TxOnly
<1>5. ASSUME NEW d \in Calls
      PROVE  Holds(d)'
  <2>1. CASE ProcessOf[d] = p
    <3>1. phase'[d] \notin InCallback
      BY <1>3, <2>1 DEF Started
    <3> QED
      BY <3>1 DEF Holds, InCallback
  <2>2. CASE ProcessOf[d] # p
    <3>1. phase'[d] = phase[d] /\ Holds(d) /\ ProcessOf[d] \in Processes
      BY <1>1, <2>2 DEF Connected
    <3>2. writer' = ProcessOf[d] <=> writer = ProcessOf[d]
      BY <1>2, <2>2, <3>1
    <3> QED
      BY <1>2, <2>2, <3>1, <3>2 DEF Holds
  <2> QED
    BY <2>1, <2>2
<1>6. ASSUME NEW q \in Processes
      PROVE  Owned(q)'
  <2>1. CASE q = p
    BY <1>2, <2>1 DEF Owned
  <2>2. CASE q # p
    <3>1. Owned(q) /\ inTx'[q] = inTx[q] /\ snapshot'[q] = snapshot[q] /\ (writer' = q => writer = q)
      BY <1>2, <2>2 DEF Connected
    <3>2. \A d \in Of(q) : phase'[d] = phase[d]
      BY <1>1, <2>2 DEF Of
    <3> QED
      BY <3>1, <3>2 DEF Owned, Of
  <2> QED
    BY <2>1, <2>2
<1> QED
  BY <1>4, <1>5, <1>6 DEF Connected

LEMMA NextConnected == TypeOK /\ Queueing /\ Connected /\ [Next]_vars => Connected'
<1> SUFFICES ASSUME TypeOK, Queueing, Connected, [Next]_vars
             PROVE  Connected'
  OBVIOUS
<1>1. ASSUME NEW c \in Calls, Issue(c) \/ ExecuteFails(c) \/ BeginFails(c) \/ WriteStale(c) \/ Resolve(c)
      PROVE  Connected'
  <2>1. UNCHANGED <<connection, store, seen>>
    BY <1>1 DEF Issue, ExecuteFails, BeginFails, WriteStale, Resolve
  <2>2. CASE WriteStale(c)
    <3>1. phase[c] \in Started /\ "failing" \in Started /\ "failing" \in Phases /\ Enter(c, "failing")
      BY <2>2 DEF WriteStale, Started, InCallback, Phases
    <3> QED
      BY <2>1, <3>1, StillConnected
  <2>3. CASE ~WriteStale(c)
    <3>1. PICK next \in {"waiting", "rejected", "resolved"} : Enter(c, next)
      BY <1>1, <2>3 DEF Issue, ExecuteFails, BeginFails, Resolve
    <3>2. phase[c] \in {"idle", "waiting", "committed"}
      BY <1>1, <2>3, TurnIsFree DEF Issue, ExecuteFails, BeginFails, Resolve
    <3>3. next \notin Started /\ next \in Phases /\ phase[c] \notin Started
      BY <3>2 DEF Started, InCallback, Phases, Effective
    <3> QED
      BY <2>1, <3>1, <3>3, StillConnected
  <2> QED
    BY <2>2, <2>3
<1>2. ASSUME NEW c \in Calls, Throw(c)
      PROVE  Connected'
  <2>1. phase[c] \in Started /\ Enter(c, "failing") /\ store' = store /\ seen' = seen
        /\ "failing" \in Phases /\ "failing" \in Started
    BY <1>2 DEF Throw, Started, Phases
  <2>2. CASE Release(ProcessOf[c])
    BY <2>1, <2>2, ReleaseConnected
  <2>3. CASE UNCHANGED connection
    BY <2>1, <2>3, StillConnected
  <2> QED
    BY <1>2, <2>2, <2>3 DEF Throw
<1>3. ASSUME NEW c \in Calls, Commit(c)
      PROVE  Connected'
  <2>1. phase[c] = "written" /\ Enter(c, "committed") /\ Release(ProcessOf[c]) /\ seen' = seen
    BY <1>3 DEF Commit
  <2>2. phase[c] \in Started /\ writer = ProcessOf[c]
    BY <2>1 DEF Connected, Holds, Started, InCallback
  <2> QED
    BY <2>1, <2>2, ReleaseConnected
<1>4. ASSUME NEW c \in Calls, Rollback(c)
      PROVE  Connected'
  BY <1>4, ReleaseConnected DEF Rollback, Started
<1>5. CASE UNCHANGED vars
  BY <1>5 DEF vars, connection, Connected, TxOnly, Holds, Owned
<1> QED
  BY <1>1, <1>2, <1>3, <1>4, <1>5, ExecuteConnected, BeginConnected, ReadConnected, WriteConnected,
     CrashConnected DEF Next, Progress, Failure

LEMMA Invariants == Spec => [](TypeOK /\ Queueing /\ Connected)
<1>1. Init => TypeOK /\ Queueing /\ Connected
  BY InitTypes, InitQueueing, InitConnected
<1>2. TypeOK /\ Queueing /\ Connected /\ [Next]_vars => TypeOK' /\ Queueing' /\ Connected'
  BY NextTypes, NextQueueing, NextConnected
<1> QED
  BY <1>1, <1>2, PTL DEF Spec

\* While a transaction of a process is open, no other call of the process runs.
THEOREM Exclusive == Spec => OneAtATime
<1> DEFINE Alone ==
      \A c, d \in Calls :
        /\ ProcessOf[c] = ProcessOf[d] /\ c # d
        /\ phase[c] \in Started
        => phase[d] = phase'[d] \/ phase[d] \in {"idle", "committed"} \/ phase'[d] = "lost"
<1>1. TypeOK /\ Queueing /\ Connected /\ [Next]_vars => Alone
  <2> SUFFICES ASSUME TypeOK, Queueing, Connected, [Next]_vars,
                      NEW c \in Calls, NEW d \in Calls, Same(c, d), c # d, phase[c] \in Started,
                      phase[d] # phase'[d]
               PROVE  phase[d] \in {"idle", "committed"} \/ phase'[d] = "lost"
    BY DEF Same
  <2>1. ASSUME NEW e \in Calls, Issue(e)
        PROVE  phase[d] = "idle"
    BY <2>1 DEF Issue, Enter, TypeOK
  <2>2. ASSUME NEW e \in Calls, TurnTo(e)
        PROVE  FALSE
    <3>1. d = e
      BY <2>2 DEF TurnTo, Enter, TypeOK
    <3> QED
      BY <2>2, <3>1, TurnNoneStarted DEF TurnTo, Connected
  <2>3. ASSUME NEW e \in Calls, MoveOn(e)
        PROVE  phase[d] = "committed"
    <3>1. d = e
      BY <2>3 DEF MoveOn, Enter, TypeOK
    <3>2. phase[d] \notin Started
      BY OneStarted DEF Connected
    <3> QED
      BY <2>3, <3>1, <3>2 DEF MoveOn
  <2>4. ASSUME NEW p \in Processes, Crash(p)
        PROVE  phase[d] = "committed" \/ phase'[d] = "lost"
    <3>1. phase'[d] = AfterDeath(d) /\ phase[d] \in Phases
      BY <2>4 DEF Crash, TypeOK
    <3> QED
      BY <3>1, DeathPhases
  <2>5. ~UNCHANGED <<phase, chain>>
    OBVIOUS
  <2> QED
    BY <2>1, <2>2, <2>3, <2>4, <2>5, ChainSteps
<1>2. Alone /\ [Next]_vars => [Alone]_vars
  OBVIOUS
<1> QED
  BY <1>1, <1>2, Invariants, PTL DEF Spec, OneAtATime

(***************************************************************************)
(* The store and its calls                                                 *)
(***************************************************************************)

Done == {c \in Calls : phase[c] \in Effective}

\* A call takes effect: by itself, or with the commit of its transaction.
TakeEffect(c) ==
  /\ phase[c] \in {"waiting", "written"}
  /\ Enter(c, "committed")
  /\ store' = store + 1

LEMMA StoreSteps ==
  ASSUME TypeOK, Queueing, Connected, [Next]_vars
  PROVE  \/ \E c \in Calls : TakeEffect(c)
         \/ store' = store /\ \E c \in Calls : Issue(c) \/ Resolve(c) \/ ExecuteFails(c)
              \/ BeginFails(c) \/ Rollback(c) \/ \E next \in Started : Enter(c, next)
                   /\ phase[c] \in {"waiting"} \union Started
         \/ store' = store /\ \E p \in Processes : Crash(p)
         \/ UNCHANGED <<store, phase>>
<1>1. ASSUME NEW c \in Calls, Execute(c)
      PROVE  TakeEffect(c)
  BY <1>1, ExecuteCommits DEF TakeEffect
<1>2. ASSUME NEW c \in Calls, Commit(c)
      PROVE  TakeEffect(c)
  BY <1>2 DEF Commit, Connected, Holds, TakeEffect
<1>3. ASSUME NEW c \in Calls, Issue(c) \/ Resolve(c) \/ ExecuteFails(c) \/ BeginFails(c) \/ Rollback(c)
      PROVE  store' = store
  BY <1>3 DEF Issue, Resolve, ExecuteFails, BeginFails, Rollback
<1>4. ASSUME NEW c \in Calls, Begin(c) \/ Read(c) \/ Write(c) \/ WriteStale(c) \/ Throw(c)
      PROVE  /\ store' = store /\ phase[c] \in {"waiting"} \union Started
             /\ \E next \in Started : Enter(c, next)
  BY <1>4, TurnIsFree DEF Begin, Read, Write, WriteStale, Throw, Started, InCallback
<1>5. ASSUME NEW p \in Processes, Crash(p)
      PROVE  store' = store
  BY <1>5 DEF Crash
<1>6. CASE UNCHANGED vars
  BY <1>6 DEF vars
<1> QED
  BY <1>1, <1>2, <1>3, <1>4, <1>5, <1>6 DEF Next, Progress, Failure

LEMMA NextApplied == TypeOK /\ Queueing /\ Connected /\ AppliedOnce /\ [Next]_vars => AppliedOnce'
<1> SUFFICES ASSUME TypeOK, Queueing, Connected, AppliedOnce, [Next]_vars
             PROVE  store' = Cardinality(Done')
  BY DEF AppliedOnce, Done
<1>1. IsFiniteSet(Done) /\ store = Cardinality(Done)
  BY CallAssumption, FS_Subset DEF Done, AppliedOnce
<1>2. ASSUME NEW c \in Calls, TakeEffect(c)
      PROVE  store' = Cardinality(Done')
  <2>1. \A d \in Calls : phase'[d] = IF d = c THEN "committed" ELSE phase[d]
    BY <1>2 DEF TakeEffect, Enter, TypeOK
  <2>2. c \notin Done /\ "committed" \in Effective
    BY <1>2 DEF TakeEffect, Done, Effective
  <2>3. Done' = Done \union {c}
    BY <2>1, <2>2 DEF Done
  <2>4. Cardinality(Done \union {c}) = Cardinality(Done) + 1
    BY <1>1, <2>2, FS_AddElement
  <2> QED
    BY <1>1, <1>2, <2>3, <2>4 DEF TakeEffect
<1>3. ASSUME store' = store, \A c \in Calls : phase[c] \in Effective <=> phase'[c] \in Effective
      PROVE  store' = Cardinality(Done')
  <2>1. Done' = Done
    BY <1>3 DEF Done
  <2> QED
    BY <1>1, <1>3, <2>1
<1>4. ASSUME NEW c \in Calls, NEW next \in Phases, Enter(c, next), phase[c] \in Effective <=> next \in Effective
      PROVE  \A d \in Calls : phase[d] \in Effective <=> phase'[d] \in Effective
  BY <1>4 DEF Enter, TypeOK
<1>5. ASSUME NEW c \in Calls, Issue(c) \/ Resolve(c) \/ ExecuteFails(c) \/ BeginFails(c) \/ Rollback(c)
      PROVE  \A d \in Calls : phase[d] \in Effective <=> phase'[d] \in Effective
  <2>1. PICK next \in {"waiting", "rejected", "resolved"} : Enter(c, next)
        /\ (phase[c] = "committed" <=> next = "resolved") /\ phase[c] \notin {"resolved", "silent"}
    BY <1>5, TurnIsFree DEF Issue, Resolve, ExecuteFails, BeginFails, Rollback
  <2>2. next \in Phases
    BY DEF Phases, Effective
  <2>3. phase[c] \in Effective <=> next \in Effective
    BY <2>1 DEF Effective
  <2> QED
    BY <1>4, <2>1, <2>2, <2>3
<1>6. ASSUME NEW c \in Calls, NEW next \in Started, Enter(c, next), phase[c] \in {"waiting"} \union Started
      PROVE  \A d \in Calls : phase[d] \in Effective <=> phase'[d] \in Effective
  <2>1. next \in Phases /\ next \notin Effective /\ phase[c] \notin Effective
    BY <1>6 DEF Phases, Effective, Started, InCallback
  <2> QED
    BY <1>4, <1>6, <2>1
<1>7. ASSUME NEW p \in Processes, Crash(p)
      PROVE  \A d \in Calls : phase[d] \in Effective <=> phase'[d] \in Effective
  <2> SUFFICES ASSUME NEW d \in Calls
               PROVE  phase[d] \in Effective <=> phase'[d] \in Effective
    OBVIOUS
  <2>1. phase'[d] = (IF ProcessOf[d] = p THEN AfterDeath(d) ELSE phase[d]) /\ phase[d] \in Phases
    BY <1>7 DEF Crash, TypeOK
  <2> QED
    BY <2>1, DeathPhases DEF Effective, Started, InCallback
<1> QED
  BY <1>2, <1>3, <1>5, <1>6, <1>7, StoreSteps

\* The database holds exactly the calls that took effect.
THEOREM AppliedHolds == Spec => []AppliedOnce
<1>1. Init => AppliedOnce
  <2> SUFFICES ASSUME Init
               PROVE  AppliedOnce
    OBVIOUS
  <2>1. {c \in Calls : phase[c] \in Effective} = {}
    BY DEF Init, Effective
  <2> QED
    BY <2>1, FS_EmptySet DEF AppliedOnce, Init
<1> QED
  BY <1>1, NextApplied, Invariants, PTL DEF Spec

(***************************************************************************)
(* Refinement                                                              *)
(***************************************************************************)

outcomes == [c \in Calls |-> OutcomeOf(phase[c])]

LEMMA OutcomeCases ==
  ASSUME NEW ph \in Phases
  PROVE  /\ OutcomeOf("idle") = "unborn" /\ OutcomeOf("waiting") = "submitted"
         /\ OutcomeOf("committed") = "applied" /\ OutcomeOf("resolved") = "answered"
         /\ OutcomeOf("rejected") = "refused" /\ OutcomeOf("lost") = "forgotten"
         /\ OutcomeOf("silent") = "silent"
         /\ ph \in Started => OutcomeOf(ph) = "submitted"
         /\ OutcomeOf(ph) = "submitted" => ph \in {"waiting"} \union Started
         /\ OutcomeOf(ph) = "applied" => ph = "committed"
  BY DEF OutcomeOf, Phases, Started, InCallback, Effective

\* What a change of one phase is to the abstraction.
LEMMA OutcomeStep ==
  ASSUME TypeOK, NEW c \in Calls, NEW next, Enter(c, next)
  PROVE  outcomes' = [outcomes EXCEPT ![c] = OutcomeOf(next)] /\ outcomes[c] = OutcomeOf(phase[c])
<1>1. \A d \in Calls : phase'[d] = IF d = c THEN next ELSE phase[d]
  BY DEF Enter, TypeOK
<1> QED
  BY <1>1 DEF outcomes

LEMMA NextAtomic ==
  TypeOK /\ Queueing /\ Connected /\ [Next]_vars => [Atomic!Next]_(Atomic!vars)
<1> SUFFICES ASSUME TypeOK, Queueing, Connected, [Next]_vars
             PROVE  [Atomic!Next]_(Atomic!vars)
  OBVIOUS
<1>0. \A c \in Calls : phase[c] \in Phases
  BY DEF TypeOK
<1>1. ASSUME NEW c \in Calls, TakeEffect(c)
      PROVE  Atomic!Apply(c)
  <2>1. outcomes' = [outcomes EXCEPT ![c] = "applied"] /\ outcomes[c] = "submitted"
    BY <1>0, <1>1, OutcomeStep, OutcomeCases DEF TakeEffect, Started, InCallback
  <2> QED
    BY <1>1, <2>1 DEF TakeEffect, Atomic!Apply, Atomic!Become, outcomes
<1>2. ASSUME NEW c \in Calls, store' = store, Issue(c)
      PROVE  Atomic!Submit(c)
  <2>1. outcomes' = [outcomes EXCEPT ![c] = "submitted"] /\ outcomes[c] = "unborn"
    BY <1>0, <1>2, OutcomeStep, OutcomeCases DEF Issue
  <2> QED
    BY <1>2, <2>1 DEF Atomic!Submit, Atomic!Become, outcomes
<1>3. ASSUME NEW c \in Calls, store' = store, Resolve(c)
      PROVE  Atomic!Answer(c)
  <2>1. outcomes' = [outcomes EXCEPT ![c] = "answered"] /\ outcomes[c] = "applied"
    BY <1>0, <1>3, OutcomeStep, OutcomeCases DEF Resolve
  <2> QED
    BY <1>3, <2>1 DEF Atomic!Answer, Atomic!Become, outcomes
<1>4. ASSUME NEW c \in Calls, store' = store, ExecuteFails(c) \/ BeginFails(c) \/ Rollback(c)
      PROVE  Atomic!Refuse(c)
  <2>1. Enter(c, "rejected") /\ phase[c] \in {"waiting", "failing"}
    BY <1>4, TurnIsFree DEF ExecuteFails, BeginFails, Rollback
  <2>2. outcomes' = [outcomes EXCEPT ![c] = "refused"] /\ outcomes[c] = "submitted"
    BY <1>0, <2>1, OutcomeStep, OutcomeCases DEF Started
  <2> QED
    BY <1>4, <2>2 DEF Atomic!Refuse, Atomic!Become, outcomes
<1>5. ASSUME NEW c \in Calls, NEW next \in Started, store' = store, Enter(c, next),
             phase[c] \in {"waiting"} \union Started
      PROVE  UNCHANGED Atomic!vars
  <2>1. next \in Phases
    BY DEF Started, InCallback, Phases
  <2>2. outcomes' = [outcomes EXCEPT ![c] = "submitted"] /\ outcomes[c] = "submitted"
    BY <1>0, <1>5, <2>1, OutcomeStep, OutcomeCases
  <2>3. outcomes' = outcomes
    BY <2>2 DEF outcomes
  <2> QED
    BY <1>5, <2>3 DEF Atomic!vars, outcomes
<1>6. ASSUME NEW p \in Processes, store' = store, Crash(p)
      PROVE  \E c \in Calls : Atomic!Die(ProcessOf[c])
  <2>1. PICK e \in Calls : ProcessOf[e] = p
    BY <1>6 DEF Crash, Of
  <2>2. ASSUME NEW c \in Calls
        PROVE  outcomes'[c] =
                 CASE ProcessOf[c] = p /\ outcomes[c] = "submitted" -> "forgotten"
                   [] ProcessOf[c] = p /\ outcomes[c] = "applied" -> "silent"
                   [] OTHER -> outcomes[c]
    <3>1. phase'[c] = (IF ProcessOf[c] = p THEN AfterDeath(c) ELSE phase[c])
          /\ outcomes[c] = OutcomeOf(phase[c]) /\ outcomes'[c] = OutcomeOf(phase'[c])
      BY <1>6 DEF Crash, outcomes
    <3>2. CASE ProcessOf[c] # p
      BY <3>1, <3>2
    <3>3. CASE ProcessOf[c] = p /\ phase[c] \in {"waiting"} \union Started
      <4>1. phase'[c] = "lost" /\ outcomes[c] = "submitted"
        BY <1>0, <3>1, <3>3, DeathPhases, OutcomeCases
      <4> QED
        BY <3>1, <3>3, <4>1, <1>0, OutcomeCases
    <3>4. CASE ProcessOf[c] = p /\ phase[c] = "committed"
      <4>1. phase'[c] = "silent" /\ outcomes[c] = "applied"
        BY <1>0, <3>1, <3>4, DeathPhases, OutcomeCases
      <4> QED
        BY <3>1, <3>4, <4>1, <1>0, OutcomeCases
    <3>5. CASE ProcessOf[c] = p /\ phase[c] \notin {"waiting", "committed"} \union Started
      <4>1. phase'[c] = phase[c] /\ outcomes[c] \notin {"submitted", "applied"}
        BY <1>0, <3>1, <3>5, DeathPhases, OutcomeCases
      <4> QED
        BY <3>1, <3>5, <4>1
    <3> QED
      BY <3>2, <3>3, <3>4, <3>5
  <2>3. outcomes' = [c \in Calls |->
                 CASE ProcessOf[c] = p /\ outcomes[c] = "submitted" -> "forgotten"
                   [] ProcessOf[c] = p /\ outcomes[c] = "applied" -> "silent"
                   [] OTHER -> outcomes[c]]
    BY <2>2 DEF outcomes
  <2> QED
    BY <1>6, <2>1, <2>3 DEF Atomic!Die, outcomes
<1>7. CASE UNCHANGED <<store, phase>>
  BY <1>7 DEF Atomic!vars
<1> QED
  BY <1>1, <1>2, <1>3, <1>4, <1>5, <1>6, <1>7, StoreSteps DEF Atomic!Next

\* Statements and transactions of concurrent callers, in either process, are atomic.
THEOREM AtomicStoreImplemented == Spec => ImplementsAtomicStore
<1>1. Init => Atomic!Init
  <2>1. "idle" \in Phases
    BY DEF Phases
  <2>2. OutcomeOf("idle") = "unborn"
    BY <2>1, OutcomeCases
  <2> QED
    BY <2>2 DEF Init, Atomic!Init
<1> QED
  BY <1>1, NextAtomic, Invariants, PTL DEF Spec, ImplementsAtomicStore, Atomic!Spec
=============================================================================
