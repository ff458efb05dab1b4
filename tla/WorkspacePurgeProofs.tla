------------------------ MODULE WorkspacePurgeProofs ------------------------
(* The deletion of a workspace as the code carries it out implements the     *)
(* abstract one, for any artifacts, administrators, bounds and faults.       *)
EXTENDS WorkspacePurge, TLAPS

\* Types.

THEOREM TypeCorrect == Spec => []TypeOK
<1>1. Init => TypeOK
  BY NumbersAssumption DEF Init, TypeOK, Recorded
<1>2. TypeOK /\ [Next]_vars => TypeOK'
  <2> SUFFICES ASSUME TypeOK, [Next]_vars
               PROVE  TypeOK'
    OBVIOUS
  <2> USE NumbersAssumption, ArchivesAssumption DEF TypeOK, Running
  <2>1. CASE Tick
    BY <2>1 DEF Tick, rows, queue, run, people
  <2>2. ASSUME NEW a \in Admins, NEW what \in {"request", "cancel"}, Admit(a, what)
        PROVE  TypeOK'
    BY <2>2 DEF Admit, rows, queue, run
  <2>3. ASSUME NEW a \in Admins, ReadForRequest(a)
        PROVE  TypeOK'
    BY <2>3 DEF ReadForRequest, rows, queue, run
  <2>4. ASSUME NEW a \in Admins, Create(a)
        PROVE  TypeOK'
    <3>1. asked[a] \in 0..MaxTime /\ asked[a] + Grace \in 0..(MaxTime + Grace)
      OBVIOUS
    <3> QED
      BY <2>4, <3>1 DEF Create, queue, Writes
  <2>5. ASSUME NEW a \in Admins, ReadForCancel(a)
        PROVE  TypeOK'
    BY <2>5 DEF ReadForCancel, rows, queue, run
  <2>6. ASSUME NEW a \in Admins, Withdraw(a)
        PROVE  TypeOK'
    BY <2>6 DEF Withdraw, queue, Writes
  <2>7. CASE CheckPurge
    BY <2>7 DEF CheckPurge, rows, queue, run
  <2>8. CASE QueuePurge
    BY <2>8 DEF QueuePurge, rows, queue, Writes
  <2>9. ASSUME NEW a \in Artifacts, Begin(a) \/ Store(a) \/ Record(a)
        PROVE  TypeOK'
    BY <2>9 DEF Begin, Store, Record, rows, queue, run, people, Writes
  <2>10. CASE QueueWork \/ ClaimWork \/ EndWork
    BY <2>10 DEF QueueWork, ClaimWork, EndWork, rows, queue, people, Writes
  <2>11. CASE Claim
    BY <2>11 DEF Claim, rows, people
  <2>12. CASE Fence \/ RefuseFence
    BY <2>12 DEF Fence, RefuseFence, rows, queue, people
  <2>13. CASE BeginFinalize
    BY <2>13 DEF BeginFinalize, Recorded, rows, queue, people
  <2>14. CASE DeleteObject \/ DeleteArchives
    BY <2>14 DEF DeleteObject, DeleteArchives, rows, queue, people
  <2>15. CASE Conflict
    BY <2>15 DEF Conflict, rows, queue, people
  <2>16. CASE Commit
    BY <2>16 DEF Commit, people
  <2>17. CASE Fail
    BY <2>17 DEF Fail, rows, people
  <2>18. CASE Throw \/ Crash
    BY <2>18 DEF Throw, Crash, rows, queue, people
  <2>19. CASE UNCHANGED vars
    BY <2>19 DEF vars, rows, queue, run, people
  <2>20. CASE Elsewhere
    BY <2>20 DEF Elsewhere, rows, queue, people
  <2> QED
    BY <2>1, <2>2, <2>3, <2>4, <2>5, <2>6, <2>7, <2>8, <2>9, <2>10, <2>11,
       <2>12, <2>13, <2>14, <2>15, <2>16, <2>17, <2>18, <2>19,
       <2>20
       DEF Next, Administration, Usage, Purging
<1> QED
  BY <1>1, <1>2, PTL DEF Spec

\* The inductive invariant.  What the fence closes stays closed; a run that
\* has passed it meets no job of the workspace; and as long as no other
\* connection has written, the run has seen every artifact that is recorded.
Closed ==
  /\ workspace = "active" => lifecycle # "purging"
  /\ workspace = "gone" => /\ lifecycle = "none" /\ worker = "none"
                           /\ job = "none" /\ Recorded = {}
  /\ lifecycle = "purging" => now >= purgeAfter

Seen ==
  /\ job = "none" => purge = "idle"
  /\ purge \in {"begin", "delete", "commit"} =>
       workspace = "purging" /\ worker = "none"
  /\ purge \in {"delete", "commit"} /\ snapshot = "fresh" =>
       /\ lifecycle = "purging"
       /\ \A a \in Recorded \intersect stored :
            a \in left \/ (purge = "delete" /\ a \in Archives)
  /\ purge = "commit" => left = {}

Safe == Closed /\ Seen

LEMMA InitSafe == Init => Safe
  BY NumbersAssumption DEF Init, Safe, Closed, Seen, Recorded

LEMMA NextSafe ==
  ASSUME TypeOK, Safe, [Next]_vars
  PROVE  Safe'
<1> USE NumbersAssumption, ArchivesAssumption DEF Safe, Closed, Seen, Recorded, Running
<1>1. CASE Tick
  BY <1>1 DEF Tick, rows, queue, run, people, TypeOK
<1>2. ASSUME NEW a \in Admins, NEW what \in {"request", "cancel"}, Admit(a, what)
      PROVE  Safe'
  BY <1>2 DEF Admit, rows, queue, run
<1>3. ASSUME NEW a \in Admins, ReadForRequest(a) \/ ReadForCancel(a)
      PROVE  Safe'
  BY <1>3 DEF ReadForRequest, ReadForCancel, rows, queue, run
<1>4. ASSUME NEW a \in Admins, Create(a)
      PROVE  Safe'
  BY <1>4 DEF Create, queue, Writes, TypeOK
<1>5. ASSUME NEW a \in Admins, Withdraw(a)
      PROVE  Safe'
  BY <1>5 DEF Withdraw, queue, Writes, TypeOK
<1>6. CASE CheckPurge
  BY <1>6 DEF CheckPurge, rows, queue, run
<1>7. CASE QueuePurge
  BY <1>7 DEF QueuePurge, rows, queue, Writes, TypeOK
<1>8. ASSUME NEW a \in Artifacts, Begin(a) \/ Store(a)
      PROVE  Safe'
  BY <1>8 DEF Begin, Store, rows, queue, run, people, TypeOK
<1>9. ASSUME NEW a \in Artifacts, Record(a)
      PROVE  Safe'
  BY <1>9 DEF Record, rows, queue, people, Writes, TypeOK
<1>10. CASE QueueWork
  BY <1>10 DEF QueueWork, rows, queue, people, Writes, TypeOK
<1>11. CASE ClaimWork \/ EndWork
  BY <1>11 DEF ClaimWork, EndWork, rows, queue, people, Writes, TypeOK
<1>12. CASE Claim
  BY <1>12 DEF Claim, rows, people, TypeOK
<1>13. CASE Fence
  BY <1>13 DEF Fence, queue, people, TypeOK
<1>14. CASE RefuseFence
  BY <1>14 DEF RefuseFence, rows, queue, people
<1>15. CASE BeginFinalize
  BY <1>15 DEF BeginFinalize, rows, queue, people
<1>16. CASE DeleteObject
  BY <1>16 DEF DeleteObject, rows, queue, people
<1>17. CASE DeleteArchives
  BY <1>17 DEF DeleteArchives, rows, queue, people
<1>18. CASE Conflict
  BY <1>18 DEF Conflict, rows, queue, people
<1>19. CASE Commit
  BY <1>19 DEF Commit, people, TypeOK
<1>20. CASE Fail
  BY <1>20 DEF Fail, rows, people, TypeOK
<1>21. CASE Throw \/ Crash
  BY <1>21 DEF Throw, Crash, rows, queue, people, TypeOK
<1>22. CASE UNCHANGED vars
  BY <1>22 DEF vars, rows, queue, run, people
<1>23. CASE Elsewhere
  BY <1>23 DEF Elsewhere, rows, queue, people
<1> QED
  BY <1>1, <1>2, <1>3, <1>4, <1>5, <1>6, <1>7, <1>8, <1>9, <1>10, <1>11, <1>12,
     <1>13, <1>14, <1>15, <1>16, <1>17, <1>18, <1>19, <1>20, <1>21, <1>22, <1>23
     DEF Next, Administration, Usage, Purging

\* Once the purge has passed its fence, no job of the workspace runs, and a
\* finalization that commits has removed every artifact that is recorded.
THEOREM SafeHolds == Spec => []Safe
<1> QED
  BY InitSafe, NextSafe, TypeCorrect, PTL DEF Spec

-----------------------------------------------------------------------------
(* The refinement.  A step the abstract deletion cannot see is a stutter;    *)
(* each of the others is one of its actions.                                 *)

LEMMA InitPromise == Init => Promise!Init
  BY NumbersAssumption DEF Running, Init, Promise!Init, Promise!Open, phase, due, held,
     busy, Recorded

\* The steps that leave the rows, the recorded artifacts and the jobs alone.
LEMMA Invisible ==
  ASSUME UNCHANGED <<now, workspace, lifecycle, purgeAfter, artifact, stored>>,
         busy' = busy
  PROVE  UNCHANGED Promise!vars
  BY DEF Promise!vars, phase, due, held, Recorded

LEMMA RequestsRefine ==
  ASSUME TypeOK, Safe, NEW a \in Admins, Create(a) \/ Withdraw(a)
  PROVE  [Promise!Next]_(Promise!vars)
<1> USE DEF phase, due, held, busy, Recorded
<1>1. UNCHANGED <<held, busy>>
  BY DEF Create, Withdraw
<1>2. CASE Create(a)
  <2>1. CASE lifecycle = "none" /\ workspace # "gone"
    <3>1. phase \in {"kept", "abandoned"} /\ ~due
      BY <2>1 DEF TypeOK
    <3>2. phase' = IF phase = "kept" THEN "requested" ELSE "abandoned"
      BY <1>2, <2>1 DEF Create, TypeOK
    <3>3. due' \in BOOLEAN
      OBVIOUS
    <3>4. Promise!Request
      BY <1>1, <3>1, <3>2, <3>3 DEF Promise!Request
    <3> QED
      BY <3>4 DEF Promise!Next
  <2>2. CASE ~(lifecycle = "none" /\ workspace # "gone")
    BY <1>2, <2>2 DEF Create, Promise!vars
  <2> QED
    BY <2>1, <2>2
<1>3. CASE Withdraw(a)
  <2>1. ~due'
    BY <1>3 DEF Withdraw
  <2>2. CASE lifecycle = "none"
    BY <1>3, <2>2 DEF Withdraw, Promise!vars
  <2>3. CASE lifecycle # "none" /\ phase \in {"requested", "abandoned"}
    <3>1. phase' = IF phase = "requested" THEN "kept" ELSE "abandoned"
      BY <1>3, <2>3 DEF Withdraw, TypeOK
    <3>2. Promise!Cancel
      BY <1>1, <2>1, <2>3, <3>1 DEF Promise!Cancel
    <3> QED
      BY <3>2 DEF Promise!Next
  <2>4. CASE phase = "doomed"
    <3>1. phase' = "abandoned"
      BY <1>3, <2>4 DEF Withdraw
    <3>2. Promise!Abandon
      BY <1>1, <2>1, <2>4, <3>1 DEF Promise!Abandon
    <3> QED
      BY <3>2 DEF Promise!Next
  <2> QED
    BY <2>2, <2>3, <2>4 DEF TypeOK, Safe, Closed
<1> QED
  BY <1>2, <1>3

LEMMA TickRefines ==
  ASSUME TypeOK, Tick
  PROVE  [Promise!Next]_(Promise!vars)
<1>1. UNCHANGED <<phase, held, busy>>
  BY DEF Tick, rows, phase, held, busy, Recorded
<1>2. due => due'
  BY NumbersAssumption DEF Tick, rows, due, TypeOK
<1>3. CASE ~due /\ due'
  <2>1. Promise!Expire
    BY <1>1, <1>3 DEF Promise!Expire, due
  <2> QED
    BY <2>1 DEF Promise!Next
<1>4. CASE due' = due
  BY <1>1, <1>4 DEF Promise!vars
<1> QED
  BY <1>2, <1>3, <1>4 DEF due

LEMMA ArtifactsRefine ==
  ASSUME TypeOK, Safe, NEW a \in Artifacts, Begin(a) \/ Store(a) \/ Record(a)
  PROVE  [Promise!Next]_(Promise!vars)
<1> USE DEF phase, due, busy, Recorded
<1>1. UNCHANGED <<phase, due, busy>>
  BY DEF Begin, Store, Record, rows
<1>2. CASE Begin(a) \/ Store(a)
  <2>1. held' = held
    BY <1>2 DEF Begin, Store, held, TypeOK
  <2> QED
    BY <1>1, <2>1 DEF Promise!vars
<1>3. CASE Record(a) /\ (workspace = "gone" \/ a \notin stored)
  <2>1. held' = held
    BY <1>3 DEF Record, held, TypeOK
  <2> QED
    BY <1>1, <2>1 DEF Promise!vars
<1>4. CASE Record(a) /\ workspace # "gone" /\ a \in stored
  <2>1. held' = held \union {a}
    BY <1>4 DEF Record, held, TypeOK
  <2>2. phase # "purged"
    BY <1>4
  <2>3. Promise!Attach(a)
    BY <1>1, <2>1, <2>2 DEF Promise!Attach
  <2> QED
    BY <2>3 DEF Promise!Next
<1> QED
  BY <1>2, <1>3, <1>4

LEMMA JobsRefine ==
  ASSUME TypeOK, Safe, QueueWork \/ ClaimWork \/ EndWork
  PROVE  [Promise!Next]_(Promise!vars)
<1> USE DEF phase, due, busy, Running
<1>1. UNCHANGED <<phase, due, held>>
  BY DEF QueueWork, ClaimWork, EndWork, rows, held, Recorded
<1>2. CASE ~busy /\ busy'
  <2>1. phase # "purged"
    BY <1>2 DEF QueueWork, ClaimWork, EndWork, Safe, Closed, TypeOK
  <2>2. Promise!Work
    BY <1>1, <1>2, <2>1 DEF Promise!Work
  <2> QED
    BY <2>2 DEF Promise!Next
<1>3. CASE busy /\ ~busy'
  <2>1. Promise!Rest
    BY <1>1, <1>3 DEF Promise!Rest
  <2> QED
    BY <2>1 DEF Promise!Next
<1>4. CASE busy' = busy
  BY <1>1, <1>4 DEF Promise!vars
<1> QED
  BY <1>2, <1>3, <1>4

LEMMA FenceRefines ==
  ASSUME TypeOK, Safe, Fence
  PROVE  [Promise!Next]_(Promise!vars)
<1>1. UNCHANGED <<held, busy>>
  BY DEF Running, Fence, held, busy, Recorded, TypeOK
<1>2. due /\ due'
  BY DEF Fence, due
<1>3. phase' = "doomed"
  BY DEF Fence, phase
<1>4. phase \in {"requested", "abandoned", "doomed"}
  BY DEF Fence, phase, Safe, Closed, TypeOK
<1>5. due' = due
  BY <1>2 DEF due
<1>6. CASE phase = "doomed"
  BY <1>1, <1>3, <1>5, <1>6 DEF Promise!vars
<1>7. CASE phase # "doomed"
  <2>1. Promise!Doom
    BY <1>1, <1>2, <1>3, <1>4, <1>5, <1>7 DEF Promise!Doom
  <2> QED
    BY <2>1 DEF Promise!Next
<1> QED
  BY <1>6, <1>7

LEMMA DeletionRefines ==
  ASSUME TypeOK, Safe, DeleteObject \/ DeleteArchives
  PROVE  [Promise!Next]_(Promise!vars)
<1>1. UNCHANGED <<phase, due, busy>>
  BY DEF DeleteObject, DeleteArchives, rows, phase, due, busy
<1>2. phase \in {"doomed", "abandoned"} /\ ~busy
  BY DEF Running, DeleteObject, DeleteArchives, Safe, Seen, phase, busy
<1>3. \E S \in SUBSET Artifacts : held' = held \ S
  <2>1. CASE DeleteObject
    <3>1. PICK a \in left : stored' = stored \ {a}
      BY <2>1 DEF DeleteObject
    <3>2. {a} \in SUBSET Artifacts /\ held' = held \ {a}
      BY <2>1, <3>1 DEF DeleteObject, held, Recorded, TypeOK
    <3> QED
      BY <3>2
  <2>2. CASE DeleteArchives
    <3>1. held' = held \ Archives
      BY <2>2 DEF DeleteArchives, held, Recorded
    <3> QED
      BY <3>1, ArchivesAssumption
  <2> QED
    BY <2>1, <2>2
<1>4. PICK S \in SUBSET Artifacts : held' = held \ S
  BY <1>3
<1>5. Promise!Remove(S)
  BY <1>1, <1>2, <1>4 DEF Promise!Remove
<1> QED
  BY <1>5 DEF Promise!Next

LEMMA CommitRefines ==
  ASSUME TypeOK, Safe, Commit
  PROVE  [Promise!Next]_(Promise!vars)
<1>1. phase = "doomed" /\ ~busy /\ held = {}
  BY DEF Running, Commit, Safe, Seen, Closed, phase, busy, held, Recorded
<1>2. phase' = "purged" /\ due' = FALSE /\ held' = {} /\ ~busy'
  BY DEF Running, Commit, phase, due, busy, held, Recorded
<1>3. Promise!Purge
  BY <1>1, <1>2 DEF Promise!Purge, busy
<1> QED
  BY <1>3 DEF Promise!Next

LEMMA NextPromise ==
  ASSUME TypeOK, Safe, [Next]_vars
  PROVE  [Promise!Next]_(Promise!vars)
<1>1. CASE Administration
  <2>1. ASSUME NEW a \in Admins,
               (\E what \in {"request", "cancel"} : Admit(a, what))
                 \/ ReadForRequest(a) \/ ReadForCancel(a)
        PROVE  [Promise!Next]_(Promise!vars)
    BY <2>1, Invisible DEF Admit, ReadForRequest, ReadForCancel, rows, busy
  <2> QED
    BY <1>1, <2>1, RequestsRefine DEF Administration
<1>2. CASE CheckPurge \/ QueuePurge
  BY <1>2, Invisible DEF CheckPurge, QueuePurge, rows, busy
<1>3. CASE Usage
  BY <1>3, ArtifactsRefine, JobsRefine DEF Usage
<1>4. CASE Elsewhere \/ Claim \/ RefuseFence \/ BeginFinalize \/ Conflict \/ Fail
             \/ Throw
  BY <1>4, Invisible
     DEF Elsewhere, Claim, RefuseFence, BeginFinalize, Conflict, Fail, Throw,
         rows, busy
<1>5. CASE Crash
  <2>1. busy' = busy
    BY <1>5 DEF Running, Crash, busy
  <2> QED
    BY <1>5, <2>1, Invisible DEF Crash, rows
<1>6. CASE UNCHANGED vars
  BY <1>6, Invisible DEF vars, rows, busy
<1> QED
  BY <1>1, <1>2, <1>3, <1>4, <1>5, <1>6, TickRefines, FenceRefines,
     DeletionRefines, CommitRefines DEF Next, Purging

\* However requests, cancellations, uploads, jobs, retries and crashes
\* interleave, the code deletes a workspace as the abstract deletion does.
THEOREM DeletionImplemented == Spec => ImplementsDeletion
<1> QED
  BY InitPromise, NextPromise, TypeCorrect, SafeHolds, PTL
     DEF Spec, ImplementsDeletion, Promise!Spec
=============================================================================
