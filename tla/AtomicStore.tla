---------------------------- MODULE AtomicStore ----------------------------
(***************************************************************************)
(* What callers of the database provider rely on: every call takes effect  *)
(* at one instant, entirely or not at all, and is answered after that.     *)
(***************************************************************************)
EXTENDS Integers

CONSTANTS
  Calls,       \* calls made on the provider
  ProcessOf    \* the process that makes a call

VARIABLES
  value,       \* the stored value; every call that takes effect adds one to it
  outcome      \* what became of every call

vars == <<value, outcome>>

Outcomes == {"unborn", "submitted", "applied", "answered", "refused", "forgotten", "silent"}

Init == value = 0 /\ outcome = [c \in Calls |-> "unborn"]

Become(c, from, to) == outcome[c] = from /\ outcome' = [outcome EXCEPT ![c] = to]

Submit(c) == Become(c, "unborn", "submitted") /\ UNCHANGED value
Apply(c) == Become(c, "submitted", "applied") /\ value' = value + 1
Answer(c) == Become(c, "applied", "answered") /\ UNCHANGED value
Refuse(c) == Become(c, "submitted", "refused") /\ UNCHANGED value

\* A process dies: its calls in flight have had their effect or never will.
Die(p) ==
  /\ outcome' = [c \in Calls |->
       CASE ProcessOf[c] = p /\ outcome[c] = "submitted" -> "forgotten"
         [] ProcessOf[c] = p /\ outcome[c] = "applied" -> "silent"
         [] OTHER -> outcome[c]]
  /\ UNCHANGED value

Next ==
  \/ \E c \in Calls : Submit(c) \/ Apply(c) \/ Answer(c) \/ Refuse(c)
  \/ \E c \in Calls : Die(ProcessOf[c])

Spec == Init /\ [][Next]_vars
=============================================================================
