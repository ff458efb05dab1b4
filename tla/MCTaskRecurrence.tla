-------------------------- MODULE MCTaskRecurrence --------------------------
(***************************************************************************)
(* Instances of TaskRecurrence for TLC.                                    *)
(***************************************************************************)
EXTENDS TaskRecurrence, TLC

\* Every date, and a rule with another end and interval.
FewRules == {[anchor |-> 1, last |-> 3, step |-> 1], [anchor |-> 1, last |-> 1, step |-> 2]}
=============================================================================
