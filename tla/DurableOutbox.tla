--------------------------- MODULE DurableOutbox ---------------------------
(***************************************************************************)
(* What the durable job queue promises its producers, without leases,      *)
(* deduplication, retries or locks: accepted work is executed by one       *)
(* executor at a time, only an executor of a job can finish it, finished   *)
(* work stays finished, and unfinished work is dropped only from within    *)
(* an executing job (the purge of its workspace), never while something    *)
(* else holds it.  An executor that has lost its admission may run beside  *)
(* another; a job the two have shared is promised no more than existence.  *)
(***************************************************************************)
EXTENDS Integers

CONSTANTS
  Jobs,        \* job ids: positive numbers, 0 means "no job"
  Executors    \* what executes them

VARIABLES
  work,        \* the stage of every job
  current,     \* the job each executor is executing, or 0
  unlocked,    \* the executors that run without admission
  shared       \* the jobs that were taken while another executor had them

vars == <<work, current, unlocked, shared>>

Stages == {"absent", "queued", "taken", "done", "dead"}

Init ==
  /\ work = [j \in Jobs |-> "absent"]
  /\ current = [e \in Executors |-> 0]
  /\ unlocked = {}
  /\ shared = {}

Holders(j) == {e \in Executors : current[e] = j}

\* A producer hands over a job.
Submit(j) ==
  /\ work[j] = "absent"
  /\ work' = [work EXCEPT ![j] = "queued"]
  /\ UNCHANGED <<current, unlocked, shared>>

\* Execution of a queued job begins, or of one whose last execution was cut off or,
\* as far as this executor can tell, might have been.
Take(e, j) ==
  /\ current[e] = 0
  /\ e \in unlocked \/ \A d \in Executors \ unlocked : current[d] = 0
  /\ work[j] \in {"queued", "taken"}
  /\ work' = [work EXCEPT ![j] = "taken"]
  /\ current' = [current EXCEPT ![e] = j]
  /\ shared' = shared \union {i \in {j} : Holders(i) # {}}
  /\ UNCHANGED unlocked

\* Execution ends with a verdict: done, dead, or queued for another attempt.
Conclude(e, verdict) ==
  /\ current[e] # 0
  /\ work[current[e]] = "taken" \/ (current[e] \in shared /\ work[current[e]] # "absent")
  /\ work' = [work EXCEPT ![current[e]] = verdict]
  /\ current' = [current EXCEPT ![e] = 0]
  /\ UNCHANGED <<unlocked, shared>>

\* Execution ends without one: it was cut off, or the job was dropped meanwhile.
Release(e) ==
  /\ current[e] # 0
  /\ work[current[e]] \in {"taken", "absent"} \/ current[e] \in shared
  /\ current' = [current EXCEPT ![e] = 0]
  /\ unlocked' \in {unlocked, unlocked \ {e}}
  /\ UNCHANGED <<work, shared>>

\* An executor loses its admission, or leaves without a job.
Unlock(e) ==
  /\ unlocked' \in {unlocked \union {e}, IF current[e] = 0 THEN unlocked \ {e} ELSE unlocked}
  /\ UNCHANGED <<work, current, shared>>

\* History of finished jobs is deleted.
Forget(S) ==
  /\ \A j \in S : work[j] \in {"done", "dead"}
  /\ work' = [j \in Jobs |-> IF j \in S THEN "absent" ELSE work[j]]
  /\ UNCHANGED <<current, unlocked, shared>>

\* An executing job drops jobs nobody else holds, itself among them perhaps, unless it
\* was shared or has been dropped before; it may lose its admission at that moment.
Drop(e, S) ==
  /\ current[e] # 0
  /\ \/ \A j \in S : work[j] = "taken" => j = current[e]
     \/ current[e] \in shared
     \/ work[current[e]] = "absent"
  /\ work' = [j \in Jobs |-> IF j \in S THEN "absent" ELSE work[j]]
  /\ unlocked' \in {unlocked, unlocked \union {e}}
  /\ UNCHANGED <<current, shared>>

Next ==
  \/ \E j \in Jobs : Submit(j)
  \/ \E e \in Executors :
       \/ \E j \in Jobs : Take(e, j)
       \/ \E verdict \in {"queued", "done", "dead"} : Conclude(e, verdict)
       \/ Release(e) \/ Unlock(e)
       \/ \E S \in SUBSET Jobs : Drop(e, S)
  \/ \E S \in SUBSET Jobs : Forget(S)

Spec == Init /\ [][Next]_vars
=============================================================================
