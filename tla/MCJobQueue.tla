----------------------------- MODULE MCJobQueue -----------------------------
(***************************************************************************)
(* Instances of JobQueue for TLC: which keys exist and what they carry.    *)
(***************************************************************************)
EXTENDS JobQueue, TLC

CONSTANTS ws1, keyA, keyB, keyPurge, w1, w2

\* Two ordinary jobs: keyA deduplicated, keyB without a dedupe key and more urgent.
PlainKeys == {keyA, keyB}
PlainNullKeys == {keyB}
PlainWorkspaceOf == [k \in PlainKeys |-> ws1]
PlainPriority == (keyA :> 0) @@ (keyB :> 50)
PlainMaxAttempts == (keyA :> 2) @@ (keyB :> 1)

\* One ordinary job and the purge of its workspace.
FenceKeys == {keyA, keyPurge}
FencePurgeKeys == {keyPurge}
FenceWorkspaceOf == [k \in FenceKeys |-> ws1]
FencePriority == (keyA :> 0) @@ (keyPurge :> 1000)
FenceMaxAttempts == [k \in FenceKeys |-> 2]
LiveMaxAttempts == (keyA :> 2) @@ (keyPurge :> 1)

\* A single deduplicated job.
SoloKeys == {keyA}
SoloWorkspaceOf == [k \in SoloKeys |-> ws1]
SoloPriority == [k \in SoloKeys |-> 0]
SoloMaxAttempts == [k \in SoloKeys |-> 2]

NoKeys == {}
OneWorkspace == {ws1}
OneWorker == {w1}
TwoWorkers == {w1, w2}
Now == {0}
Symmetry == Permutations({w1, w2})
=============================================================================
