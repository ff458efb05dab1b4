--------------------------- MODULE SqliteAdapter ---------------------------
(***************************************************************************)
(* The SQLite adapter behind the database provider: statements and         *)
(* transactions called concurrently in one process share one connection    *)
(* and are kept apart by a chain of promises (transactionTail), while a    *)
(* second process (the separate worker) works on the same WAL database.    *)
(*                                                                         *)
(* The database is one number.  A statement adds one to it; a transaction  *)
(* reads it and writes what it read plus one, or adds one without reading. *)
(* Whatever is lost, doubled or leaked by the adapter shows in the sum.    *)
(*                                                                         *)
(* SQLite itself is external: a deferred BEGIN, a snapshot taken by the    *)
(* first read, one writer among all connections, a write refused when the  *)
(* snapshot is stale, and errors that may roll the transaction back.       *)
(*                                                                         *)
(* Operators named "Mutant..." are seeded faults: each stands just before  *)
(* the definition it would replace.  Nothing else refers to them.          *)
(***************************************************************************)
EXTENDS Integers, FiniteSets

CONSTANTS
  Processes,      \* the app server and the worker process
  Calls,          \* calls of db.query, db.get, db.run and db.transaction
  Transactions,   \* the calls that are db.transaction
  ProcessOf,      \* the process that makes a call
  NoCall,         \* transactionTail before the first transaction
  NoProcess       \* nobody holds the write lock

ASSUME CallAssumption ==
  /\ IsFiniteSet(Calls)
  /\ Transactions \subseteq Calls
  /\ ProcessOf \in [Calls -> Processes]
  /\ NoCall \notin Calls
  /\ NoProcess \notin Processes

VARIABLES
  store,      \* the committed value
  writer,     \* the process whose connection holds SQLite's write lock
  inTx,       \* does a process's connection have an open transaction
  snapshot,   \* the committed value a connection's transaction first saw, or Unread
  local,      \* the value a connection has written and not committed
  tail,       \* transactionTail of each process: the transaction it stands for
  issued,     \* number of calls each process has made
  order,      \* the position of a call among those of its process
  behind,     \* the transactionTail a call was chained on
  seen,       \* what the callback of a transaction has read
  phase       \* how far a call has come

connection == <<writer, inTx, snapshot, local>>
chain == <<tail, issued, order, behind>>
vars == <<store, connection, chain, seen, phase>>

Unread == -1
InCallback == {"open", "read", "written"}
Started == InCallback \union {"failing"}
Effective == {"committed", "resolved", "silent"}
Phases == {"idle", "waiting", "rejected", "lost"} \union Started \union Effective

Of(p) == {c \in Calls : ProcessOf[c] = p}

Init ==
  /\ store = 0
  /\ writer = NoProcess
  /\ inTx = [p \in Processes |-> FALSE]
  /\ snapshot = [p \in Processes |-> Unread]
  /\ local = [p \in Processes |-> 0]
  /\ tail = [p \in Processes |-> NoCall]
  /\ issued = [p \in Processes |-> 0]
  /\ order = [c \in Calls |-> 0]
  /\ behind = [c \in Calls |-> NoCall]
  /\ seen = [c \in Calls |-> 0]
  /\ phase = [c \in Calls |-> "idle"]

Enter(c, next) == phase' = [phase EXCEPT ![c] = next]

-----------------------------------------------------------------------------
(* SQLite: one connection per process *)

\* What a statement on p's connection sees.
View(p) == IF writer = p THEN local[p] ELSE IF snapshot[p] # Unread THEN snapshot[p] ELSE store

\* A write needs the one write lock, and a snapshot that is still current.
CanWrite(p) == writer = p \/ (writer = NoProcess /\ snapshot[p] \in {Unread, store})

\* The connection's transaction is over, committed or not.
Release(p) ==
  /\ writer' = IF writer = p THEN NoProcess ELSE writer
  /\ inTx' = [inTx EXCEPT ![p] = FALSE]
  /\ snapshot' = [snapshot EXCEPT ![p] = Unread]
  /\ local' = [local EXCEPT ![p] = 0]

\* p's connection writes a value without committing it.
Keep(p, value) ==
  /\ writer' = p
  /\ local' = [local EXCEPT ![p] = value]
  /\ snapshot' = [snapshot EXCEPT ![p] = IF @ = Unread THEN store ELSE @]
  /\ UNCHANGED inTx

-----------------------------------------------------------------------------
(* The chain of promises *)

MutantTailKept(c) ==
  LET p == ProcessOf[c]
  IN /\ phase[c] = "idle"
     /\ Enter(c, "waiting")
     /\ issued' = [issued EXCEPT ![p] = @ + 1]
     /\ order' = [order EXCEPT ![c] = issued[p] + 1]
     /\ behind' = [behind EXCEPT ![c] = tail[p]]
     /\ UNCHANGED <<store, connection, tail, seen>>

MutantTailAnyCall(c) ==
  LET p == ProcessOf[c]
  IN /\ phase[c] = "idle"
     /\ Enter(c, "waiting")
     /\ issued' = [issued EXCEPT ![p] = @ + 1]
     /\ order' = [order EXCEPT ![c] = issued[p] + 1]
     /\ behind' = [behind EXCEPT ![c] = tail[p]]
     /\ tail' = [tail EXCEPT ![p] = c]
     /\ UNCHANGED <<store, connection, seen>>

\* A call is made outside any transaction callback: it is chained on the tail, and a
\* transaction becomes the new tail.
Issue(c) ==
  LET p == ProcessOf[c]
  IN /\ phase[c] = "idle"
     /\ Enter(c, "waiting")
     /\ issued' = [issued EXCEPT ![p] = @ + 1]
     /\ order' = [order EXCEPT ![c] = issued[p] + 1]
     /\ behind' = [behind EXCEPT ![c] = tail[p]]
     /\ tail' = IF c \in Transactions THEN [tail EXCEPT ![p] = c] ELSE tail
     /\ UNCHANGED <<store, connection, seen>>

MutantTailRejects(c) == c = NoCall \/ phase[c] = "resolved"

\* The promise of a transaction has settled, fulfilled or (with catch) rejected.
Settled(c) == c = NoCall \/ phase[c] \in {"resolved", "rejected"}

Runnable(p) == {c \in Of(p) : phase[c] = "waiting" /\ Settled(behind[c])}

MutantAnyOrder(c) == c \in Runnable(ProcessOf[c])

\* Reactions of settled promises run first come, first served.
Turn(c) ==
  /\ c \in Runnable(ProcessOf[c])
  /\ \A d \in Runnable(ProcessOf[c]) : order[c] <= order[d]

-----------------------------------------------------------------------------
(* Statements *)

MutantExecuteAtOnce(c) ==
  LET p == ProcessOf[c]
  IN /\ c \notin Transactions
     /\ phase[c] = "waiting"
     /\ CanWrite(p)
     /\ IF inTx[p]
        THEN Keep(p, View(p) + 1) /\ UNCHANGED store
        ELSE store' = store + 1 /\ UNCHANGED connection
     /\ Enter(c, "committed")
     /\ UNCHANGED <<chain, seen>>

\* A statement runs on the process's connection, whatever transaction that is in.
Execute(c) ==
  LET p == ProcessOf[c]
  IN /\ c \notin Transactions
     /\ Turn(c)
     /\ CanWrite(p)
     /\ IF inTx[p]
        THEN Keep(p, View(p) + 1) /\ UNCHANGED store
        ELSE store' = store + 1 /\ UNCHANGED connection
     /\ Enter(c, "committed")
     /\ UNCHANGED <<chain, seen>>

\* It throws: a constraint, an I/O error, or a busy timeout while another process
\* holds the write lock.
ExecuteFails(c) ==
  /\ c \notin Transactions
  /\ Turn(c)
  /\ Enter(c, "rejected")
  /\ UNCHANGED <<store, connection, chain, seen>>

-----------------------------------------------------------------------------
(* Transactions *)

Begin(c) ==
  LET p == ProcessOf[c]
  IN /\ c \in Transactions
     /\ Turn(c)
     /\ ~inTx[p]
     /\ inTx' = [inTx EXCEPT ![p] = TRUE]
     /\ Enter(c, "open")
     /\ UNCHANGED <<store, writer, snapshot, local, chain, seen>>

\* BEGIN throws, inside a transaction for one thing; it stands outside the try block,
\* so nothing is rolled back.
BeginFails(c) ==
  /\ c \in Transactions
  /\ Turn(c)
  /\ Enter(c, "rejected")
  /\ UNCHANGED <<store, connection, chain, seen>>

\* The callback reads.
Read(c) ==
  LET p == ProcessOf[c]
  IN /\ phase[c] = "open"
     /\ seen' = [seen EXCEPT ![c] = View(p)]
     /\ snapshot' = [snapshot EXCEPT ![p] = IF @ = Unread THEN store ELSE @]
     /\ Enter(c, "read")
     /\ UNCHANGED <<store, writer, inTx, local, chain>>

\* The callback writes: what it read plus one, or one more than there is.
Write(c) ==
  LET p == ProcessOf[c]
  IN /\ phase[c] \in {"open", "read"}
     /\ inTx[p]
     /\ CanWrite(p)
     /\ Keep(p, (IF phase[c] = "read" THEN seen[c] ELSE View(p)) + 1)
     /\ Enter(c, "written")
     /\ UNCHANGED <<store, chain, seen>>

\* The write is refused at once: another connection has committed since the read.
WriteStale(c) ==
  LET p == ProcessOf[c]
  IN /\ phase[c] = "read"
     /\ snapshot[p] \notin {Unread, store}
     /\ Enter(c, "failing")
     /\ UNCHANGED <<store, connection, chain, seen>>

\* The callback throws, of itself, by calling the provider (which refuses calls from
\* inside a transaction), by a busy timeout or a failed statement, or COMMIT throws.
\* Some errors have made SQLite roll the transaction back already.
Throw(c) ==
  /\ phase[c] \in InCallback
  /\ Enter(c, "failing")
  /\ Release(ProcessOf[c]) \/ UNCHANGED connection
  /\ UNCHANGED <<store, chain, seen>>

\* COMMIT, after the callback has returned.
Commit(c) ==
  LET p == ProcessOf[c]
  IN /\ phase[c] = "written"
     /\ inTx[p]
     /\ store' = IF writer = p THEN local[p] ELSE store
     /\ Release(p)
     /\ Enter(c, "committed")
     /\ UNCHANGED <<chain, seen>>

MutantNoRollback(c) ==
  /\ phase[c] = "failing"
  /\ Enter(c, "rejected")
  /\ UNCHANGED <<store, connection, chain, seen>>

\* ROLLBACK; should it throw because nothing is open any more, that is ignored.  The
\* error of the callback rejects the call.
Rollback(c) ==
  /\ phase[c] = "failing"
  /\ Release(ProcessOf[c])
  /\ Enter(c, "rejected")
  /\ UNCHANGED <<store, chain, seen>>

\* The caller's await continues.
Resolve(c) ==
  /\ phase[c] = "committed"
  /\ Enter(c, "resolved")
  /\ UNCHANGED <<store, connection, chain, seen>>

-----------------------------------------------------------------------------

\* What becomes of a call whose process dies.
AfterDeath(c) ==
  CASE phase[c] \in {"waiting"} \union Started -> "lost"
    [] phase[c] = "committed" -> "silent"
    [] OTHER -> phase[c]

\* Process p dies and starts again: SQLite rolls its transaction back.
Crash(p) ==
  /\ \E c \in Of(p) : phase[c] \in {"waiting", "committed"} \union Started
  /\ phase' = [c \in Calls |-> IF ProcessOf[c] = p THEN AfterDeath(c) ELSE phase[c]]
  /\ Release(p)
  /\ tail' = [tail EXCEPT ![p] = NoCall]
  /\ UNCHANGED <<store, issued, order, behind, seen>>

\* What a call does when nothing goes wrong, or SQLite refuses it for good.
Progress(c) ==
  \/ Execute(c) \/ Begin(c) \/ Write(c) \/ WriteStale(c) \/ Commit(c) \/ Rollback(c) \/ Resolve(c)

Failure(c) == ExecuteFails(c) \/ BeginFails(c) \/ Throw(c)

Next ==
  \/ \E c \in Calls : Issue(c) \/ Read(c) \/ Progress(c) \/ Failure(c)
  \/ \E p \in Processes : Crash(p)

Spec == Init /\ [][Next]_vars

\* Reactions run, callbacks return, and a busy connection is served when the lock is free.
Fairness == \A c \in Calls : WF_vars(Progress(c))

FairSpec == Spec /\ Fairness

-----------------------------------------------------------------------------
(* Properties *)

\* Every variable has its type.
TypeOK ==
  /\ store \in Nat
  /\ writer \in Processes \union {NoProcess}
  /\ inTx \in [Processes -> BOOLEAN]
  /\ snapshot \in [Processes -> Nat \union {Unread}]
  /\ local \in [Processes -> Nat]
  /\ tail \in [Processes -> Transactions \union {NoCall}]
  /\ issued \in [Processes -> Nat]
  /\ order \in [Calls -> Nat]
  /\ behind \in [Calls -> Transactions \union {NoCall}]
  /\ seen \in [Calls -> Nat]
  /\ phase \in [Calls -> Phases]

\* The database holds exactly the calls that were answered, or would have been had
\* their process lived: none lost, doubled, or kept from a call that failed.
AppliedOnce == store = Cardinality({c \in Calls : phase[c] \in Effective})

\* Calls of a process run in the order they were made: while one waits, so do all
\* later ones.  A caller therefore reads what the calls before it wrote.
InIssueOrder ==
  \A c, d \in Calls :
    ProcessOf[c] = ProcessOf[d] /\ order[c] < order[d] /\ phase[c] = "waiting"
      => phase[d] = "waiting"

\* No call runs on the connection while a transaction of its process is open.
OneAtATime ==
  [][\A c, d \in Calls :
       /\ ProcessOf[c] = ProcessOf[d] /\ c # d
       /\ phase[c] \in Started
       => phase[d] = phase'[d] \/ phase[d] \in {"idle", "committed"} \/ phase'[d] = "lost"]_vars

\* Every call is answered, or dies with its process: nothing waits for ever.
EveryCallSettles ==
  \A c \in Calls : phase[c] = "waiting" ~> phase[c] \in {"resolved", "rejected", "lost", "silent"}

-----------------------------------------------------------------------------
(* Refinement *)

OutcomeOf(p) ==
  CASE p = "idle" -> "unborn"
    [] p \in {"waiting"} \union Started -> "submitted"
    [] p = "committed" -> "applied"
    [] p = "resolved" -> "answered"
    [] p = "rejected" -> "refused"
    [] p = "lost" -> "forgotten"
    [] OTHER -> p

Atomic == INSTANCE AtomicStore WITH
  value <- store,
  outcome <- [c \in Calls |-> OutcomeOf(phase[c])]

\* Statements and transactions are atomic for everyone.
ImplementsAtomicStore == Atomic!Spec
=============================================================================
