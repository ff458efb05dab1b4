-------------------------- MODULE MCSqliteAdapter --------------------------
(***************************************************************************)
(* Instances of SqliteAdapter for TLC: who calls what.                     *)
(***************************************************************************)
EXTENDS SqliteAdapter

CONSTANTS app, worker, txA, txB, txW, stA

\* The app server runs two transactions and a statement, the worker a transaction.
BothProcesses == {app, worker}
BothCalls == {txA, txB, stA, txW}
BothTransactions == {txA, txB, txW}
BothProcessOf == [c \in BothCalls |-> IF c = txW THEN worker ELSE app]
=============================================================================
