-------------------------- MODULE WorkspaceDeletion --------------------------
(* What the deletion of one workspace promises, with every operation of it   *)
(* atomic: a workspace is kept until its deletion has been requested and the *)
(* period of grace is over; what belongs to it is removed only after that,   *)
(* while none of its jobs runs; and it is gone only when nothing recorded    *)
(* in it is left.                                                            *)
(*                                                                           *)
(* The promise has one exception, and the phase "abandoned" names it: a      *)
(* cancellation whose check was made in time may arrive after the purge has  *)
(* begun.  The workspace then stays closed without a pending deletion.       *)
EXTENDS Naturals

CONSTANT Artifacts      \* stored files and archives of the workspace

VARIABLES
  phase,      \* where the deletion stands
  due,        \* the period of grace of the pending deletion is over
  held,       \* the artifacts that are recorded and still stored
  busy        \* a job of the workspace runs

vars == <<phase, due, held, busy>>

Open == {"kept", "requested"}
Phases == Open \union {"doomed", "abandoned", "purged"}

Init ==
  /\ phase \in Open
  /\ due = FALSE
  /\ held \in SUBSET Artifacts
  /\ busy = FALSE

\* A deletion is requested; its period of grace begins.  The row may be
\* written long after the request has read the clock.
Request ==
  /\ phase = "kept" \/ (phase = "abandoned" /\ ~due)
  /\ phase' = IF phase = "kept" THEN "requested" ELSE "abandoned"
  /\ due' \in BOOLEAN
  /\ UNCHANGED <<held, busy>>

\* The period of grace ends.
Expire ==
  /\ ~due
  /\ due' = TRUE
  /\ UNCHANGED <<phase, held, busy>>

\* The request is withdrawn.
Cancel ==
  /\ phase = "requested" \/ phase = "abandoned"
  /\ phase' = IF phase = "requested" THEN "kept" ELSE "abandoned"
  /\ due' = FALSE
  /\ UNCHANGED <<held, busy>>

\* The purge begins: from here on there is no way back.
Doom ==
  /\ phase \in {"requested", "abandoned"}
  /\ due
  /\ phase' = "doomed"
  /\ UNCHANGED <<due, held, busy>>

\* A withdrawal that was checked in time arrives too late.
Abandon ==
  /\ phase = "doomed"
  /\ phase' = "abandoned"
  /\ due' = FALSE
  /\ UNCHANGED <<held, busy>>

\* An artifact is recorded; requests admitted earlier still do it.
Attach(a) ==
  /\ phase # "purged"
  /\ held' = held \union {a}
  /\ UNCHANGED <<phase, due, busy>>

\* An artifact is removed.
Remove(S) ==
  /\ phase \in {"doomed", "abandoned"}
  /\ ~busy
  /\ held' = held \ S
  /\ UNCHANGED <<phase, due, busy>>

\* A job of the workspace begins to run, or ends.
Work ==
  /\ phase # "purged"
  /\ ~busy
  /\ busy' = TRUE
  /\ UNCHANGED <<phase, due, held>>

Rest ==
  /\ busy
  /\ busy' = FALSE
  /\ UNCHANGED <<phase, due, held>>

\* The workspace is gone, and all that was recorded in it.
Purge ==
  /\ phase = "doomed"
  /\ ~busy
  /\ held = {}
  /\ phase' = "purged"
  /\ due' = FALSE
  /\ UNCHANGED <<held, busy>>

Next ==
  \/ Request
  \/ Expire
  \/ Cancel
  \/ Doom
  \/ Abandon
  \/ \E a \in Artifacts : Attach(a)
  \/ \E S \in SUBSET Artifacts : Remove(S)
  \/ Work
  \/ Rest
  \/ Purge

Spec == Init /\ [][Next]_vars
=============================================================================
