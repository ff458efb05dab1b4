-------------------------- MODULE MCActiveTimers --------------------------
(***************************************************************************)
(* Instances of ActiveTimers for TLC.                                      *)
(***************************************************************************)
EXTENDS ActiveTimers, TLC

Manual == {"save", "status", "discard", "finalize"}
Symmetric == Permutations(Tabs) \union Permutations(Ids) \union Permutations(Tasks)
=============================================================================
