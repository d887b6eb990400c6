--------------------------- MODULE Deletion_proofs ---------------------------
(***************************************************************************)
(* For any number of jobs, handlers and workers, with or without faults,   *)
(* and however long passes between a check and a drop: a database that     *)
(* pullDB did not create outlives every deletion, retry and sweep.         *)
(*                                                                         *)
(* DropTarget looks for the pullDB table in the same step as it drops.     *)
(* SweepDrop does not: it relies on a check made two steps before, which   *)
(* is why the property alone is not inductive.                             *)
(*                                                                         *)
(* Unless somebody has deployed, claimed, locked or replaced the database  *)
(* since an agent's own check, neither live data nor what the sweep has    *)
(* not looked at is dropped, whatever the others do at the same time.      *)
(*                                                                         *)
(* A deletion that a worker repeats and that is reported as done has left  *)
(* no target database that the job restored.                               *)
(***************************************************************************)
EXTENDS Deletion, TLAPS

\* Once the sweep has verified its candidate's ownership, the target is not a
\* foreign database, whatever restores have replaced it since.
SweepVerified == sweep.pc \in {"protect", "drop"} => db # External

-----------------------------------------------------------------------------

\* The history changes nothing.
LEMMA NextIsAnyones == [DeletionNext]_allVars => [Anyone]_deletionVars
BY DEF DeletionNext, allVars, deletionVars

\* Restores, users and the clock.
LEMMA LifeKeeps ==
    ASSUME NEW j \in Job, LifeStep(j) \/ BecomeStale(j)
    PROVE  /\ UNCHANGED sweep
           /\ db' = db \/ (db # External /\ db' = j)
<1>1. CASE CutOver(j)
  BY <1>1 DEF CutOver, agentVars
<1>2. CASE \/ Submit(j) \/ ClaimDatabase(j) \/ StartJob(j) \/ Cancel(j) \/ PassGate(j)
  BY <1>2 DEF Submit, ClaimDatabase, StartJob, Cancel, PassGate, agentVars, hostVars
<1>3. CASE \/ WriteMetadata(j) \/ Deploy(j) \/ FailRestore(j)
           \/ LockDatabase(j) \/ UnlockDatabase(j) \/ Complete(j)
  BY <1>3 DEF WriteMetadata, Deploy, FailRestore, LockDatabase, UnlockDatabase,
              Complete, agentVars, hostVars
<1>4. CASE \/ Lapse(j) \/ Extend(j) \/ MarkExpired(j) \/ ForceComplete(j) \/ BecomeStale(j)
  BY <1>4 DEF Lapse, Extend, MarkExpired, ForceComplete, BecomeStale, agentVars, hostVars
<1> QED BY <1>1, <1>2, <1>3, <1>4 DEF LifeStep

\* An agent drops only what carries the pullDB table as it drops.
LEMMA DropKeeps ==
    ASSUME NEW a, DropStep(a)
    PROVE  /\ UNCHANGED sweep
           /\ db' = db \/ (db \in Job /\ db' = Nothing)
<1>1. CASE DropTarget(a)
  BY <1>1 DEF DropTarget, MayDrop
<1>2. CASE MarkDeleting(a) \/ CheckProtection(a) \/ DropStaging(a)
  BY <1>2 DEF MarkDeleting, CheckProtection, DropStaging, hostVars
<1> QED BY <1>1, <1>2 DEF DropStep

\* The other steps of handlers and workers touch no database.
LEMMA AgentKeeps ==
    ASSUME \/ RemoveHost
           \/ \E c, role, j : RequestDelete(c, role, j)
           \/ \E c : FinishRequest(c)
           \/ \E w : ClaimStale(w) \/ LookForOwn(w) \/ FinishRetry(w)
           \/ \E a : AgentDies(a)
    PROVE  UNCHANGED <<db, sweep>>
BY DEF RemoveHost, RequestDelete, FinishRequest, ClaimStale, LookForOwn, FinishRetry,
       AgentDies, hostVars, agentVars

\* The sweep verifies before it drops.
LEMMA SweepKeeps ==
    ASSUME DeletionAssumption, SweepVerified, SweepStepNext
    PROVE  /\ SweepVerified'
           /\ db = External => db' = External
<1>1. CASE StartSweep
  BY <1>1 DEF StartSweep, SweepVerified
<1>2. ASSUME NEW j \in Job, SweepNext(j)
      PROVE  SweepVerified' /\ UNCHANGED db
  <2>1. UNCHANGED db /\ sweep'.pc \in {"protect", "next"}
    BY <1>2 DEF SweepNext
  <2>2. sweep'.pc = "protect" => db = j
    BY <1>2 DEF SweepNext, IsOwn
  <2> QED BY <2>1, <2>2 DEF SweepVerified, DeletionAssumption
<1>3. CASE SweepProtect
  BY <1>3 DEF SweepProtect, SweepVerified
<1>4. CASE SweepDrop
  BY <1>4 DEF SweepDrop, SweepVerified
<1>5. CASE SweepRecord
  BY <1>5 DEF SweepRecord, SweepVerified
<1>6. CASE EndSweep
  BY <1>6 DEF EndSweep, SweepVerified, IdleSweep
<1> QED BY <1>1, <1>2, <1>3, <1>4, <1>5, <1>6 DEF SweepStepNext

\* One step of anyone.
LEMMA StepKeeps ==
    ASSUME DeletionAssumption, SweepVerified, [Anyone]_deletionVars
    PROVE  /\ SweepVerified'
           /\ db = External => db' = External
<1> USE DEF DeletionAssumption
<1>1. ASSUME NEW j \in Job, LifeStep(j) \/ BecomeStale(j)
      PROVE  SweepVerified' /\ (db = External => db' = External)
  BY <1>1, LifeKeeps DEF SweepVerified
<1>2. ASSUME NEW a, DropStep(a)
      PROVE  SweepVerified' /\ (db = External => db' = External)
  BY <1>2, DropKeeps DEF SweepVerified
<1>3. ASSUME UNCHANGED <<db, sweep>>
      PROVE  SweepVerified' /\ (db = External => db' = External)
  BY <1>3 DEF SweepVerified
<1>4. CASE UNCHANGED deletionVars
  BY <1>3, <1>4 DEF deletionVars
<1>5. CASE Anyone
  <2>1. CASE \E c \in Client : ClientStep(c)
    BY <2>1, <1>2, <1>3, AgentKeeps DEF ClientStep
  <2>2. CASE \E w \in Worker : RetryStep(w)
    BY <2>2, <1>2, <1>3, AgentKeeps DEF RetryStep
  <2>3. CASE SweepStepNext
    BY <2>3, SweepKeeps
  <2>4. CASE \/ RemoveHost
             \/ \E c \in Client, role \in {"web", "bulk"}, j \in Job : RequestDelete(c, role, j)
             \/ \E a \in Agent : AgentDies(a)
    BY <2>4, <1>3, AgentKeeps
  <2>5. CASE CreateByHand
    BY <2>5 DEF CreateByHand, Checked, InWindow, SweepVerified, agentVars
  <2> QED BY <1>1, <1>5, <2>1, <2>2, <2>3, <2>4, <2>5 DEF Anyone
<1> QED BY <1>4, <1>5

\* Whatever users, workers and the retention sweep do, a database without the
\* pullDB table stays: it may be claimed, its claim deleted or expired.
THEOREM ExternalSafe == DeletionSpec => ExternalKept
<1>1. DeletionInit => SweepVerified
  BY DEF DeletionInit, SweepVerified, IdleSweep
<1>2. SweepVerified /\ [Anyone]_deletionVars => SweepVerified'
  BY StepKeeps, DeletionAssumption
<1>3. SweepVerified /\ [Anyone]_deletionVars => [db = External => db' = External]_deletionVars
  BY StepKeeps, DeletionAssumption
<1> QED BY <1>1, <1>2, <1>3, NextIsAnyones, PTL DEF DeletionSpec, ExternalKept
-----------------------------------------------------------------------------
(* The types.                                                              *)

LEMMA NewRowType == NewRow \in Row /\ NewRow.status = "absent"
BY DEF NewRow, Row, Status

LEMMA SetType ==
    ASSUME jobs \in [Job -> Row], NEW j \in Job, NEW row \in Row, Set(j, row)
    PROVE  jobs' \in [Job -> Row]
BY DEF Set

LEMMA SetStatusType ==
    ASSUME jobs \in [Job -> Row], NEW j \in Job, NEW s \in Status, SetStatus(j, s)
    PROVE  jobs' \in [Job -> Row]
<1>1. [jobs[j] EXCEPT !.status = s] \in Row
  BY DEF Row
<1> QED BY <1>1, SetType DEF SetStatus

\* Restores, users and the clock.
LEMMA LifeTypes ==
    ASSUME DeletionTypeOK, NEW j \in Job, LifeStep(j) \/ BecomeStale(j), overtaken' \subseteq Checked'
    PROVE  DeletionTypeOK'
<1> DEFINE r == jobs[j]
<1>0. /\ jobs \in [Job -> Row] /\ r \in Row /\ NewRow \in Row
      /\ {"queued", "deployed", "running", "failed", "complete", "expired", "canceled"} \subseteq Status
  BY NewRowType DEF DeletionTypeOK, Status
<1>1. CASE Submit(j)
  <2>1. jobs' \in [Job -> Row]
    <3>1. /\ [NewRow EXCEPT !.status = "queued"] \in Row
          /\ \A k \in Job : [jobs[k] EXCEPT !.status = "superseded", !.superseded = TRUE, !.dropped = TRUE] \in Row
      BY <1>0 DEF Row, Status
    <3> QED BY <1>0, <1>1, <3>1 DEF Submit
  <2> QED BY <1>1, <2>1 DEF Submit, hostVars, agentVars, DeletionTypeOK
<1>2. CASE jobs' \in [Job -> Row] /\ UNCHANGED <<hostVars, restore, agentVars, hostKnown>>
  BY <1>2 DEF hostVars, agentVars, DeletionTypeOK
<1>3. CASE ClaimDatabase(j)
  <2>1. [NewRow EXCEPT !.status = "deployed", !.claimed = TRUE] \in Row
    BY <1>0 DEF Row
  <2> QED BY <1>0, <1>2, <1>3, <2>1, SetType DEF ClaimDatabase
<1>4. CASE StartJob(j)
  BY <1>0, <1>4, SetStatusType DEF StartJob, hostVars, agentVars, DeletionTypeOK
<1>5. CASE Cancel(j)
  <2>1. [r EXCEPT !.cancelReq = TRUE, !.status = IF @ = "queued" THEN "canceled" ELSE "canceling"] \in Row
    BY <1>0 DEF Row, Status
  <2> QED BY <1>0, <1>2, <1>5, <2>1, SetType DEF Cancel
<1>6. CASE PassGate(j)
  <2>1. [r EXCEPT !.locked = TRUE] \in Row
    BY <1>0 DEF Row
  <2>2. jobs' \in [Job -> Row]
    BY <1>0, <1>6, <2>1, SetType, SetStatusType DEF PassGate
  <2> QED BY <1>6, <2>2 DEF PassGate, agentVars, DeletionTypeOK
<1>7. CASE WriteMetadata(j) \/ CutOver(j)
  BY <1>7 DEF WriteMetadata, CutOver, agentVars, DeletionTypeOK
<1>8. CASE Deploy(j)
  <2>1. [r EXCEPT !.status = "deployed", !.locked = FALSE] \in Row
    BY <1>0 DEF Row
  <2>2. jobs' \in [Job -> Row]
    BY <1>0, <1>8, <2>1, SetType DEF Deploy
  <2> QED BY <1>8, <2>2 DEF Deploy, hostVars, agentVars, DeletionTypeOK
<1>9. CASE FailRestore(j)
  <2>1. [r EXCEPT !.status = "failed", !.locked = FALSE] \in Row
    BY <1>0 DEF Row
  <2>2. jobs' \in [Job -> Row]
    BY <1>0, <1>9, <2>1, SetType DEF FailRestore
  <2> QED BY <1>9, <2>2 DEF FailRestore, hostVars, agentVars, DeletionTypeOK
<1>10. CASE LockDatabase(j) \/ UnlockDatabase(j)
  <2>1. [r EXCEPT !.locked = TRUE] \in Row /\ [r EXCEPT !.locked = FALSE] \in Row
    BY <1>0 DEF Row
  <2> QED BY <1>0, <1>2, <1>10, <2>1, SetType DEF LockDatabase, UnlockDatabase
<1>11. CASE Complete(j) \/ MarkExpired(j)
  BY <1>0, <1>2, <1>11, SetStatusType DEF Complete, MarkExpired
<1>12. CASE Lapse(j) \/ Extend(j)
  <2>1. [r EXCEPT !.lapsed = TRUE] \in Row /\ [r EXCEPT !.lapsed = FALSE] \in Row
    BY <1>0 DEF Row
  <2> QED BY <1>0, <1>2, <1>12, <2>1, SetType DEF Lapse, Extend
<1>13. CASE ForceComplete(j)
  <2>1. [r EXCEPT !.status = "deleted", !.dropped = TRUE] \in Row
    BY <1>0 DEF Row, Status
  <2> QED BY <1>0, <1>2, <1>13, <2>1, SetType DEF ForceComplete
<1>14. CASE BecomeStale(j)
  <2>1. [r EXCEPT !.stale = TRUE] \in Row
    BY <1>0 DEF Row
  <2> QED BY <1>0, <1>2, <1>14, <2>1, SetType DEF BecomeStale
<1> QED BY <1>1, <1>3, <1>4, <1>5, <1>6, <1>7, <1>8, <1>9, <1>10, <1>11, <1>12, <1>13, <1>14 DEF LifeStep

\* What an agent has in hand.
LEMMA InHandType ==
    ASSUME DeletionTypeOK, NEW a \in Agent, NEW x \in AgentType,
           x.job = Nothing <=> x.pc = "idle", del' = [del EXCEPT ![a] = x]
    PROVE  /\ del' \in [Agent -> AgentType]
           /\ \A b \in Agent : del'[b].job = Nothing <=> del'[b].pc = "idle"
BY DEF DeletionTypeOK

LEMMA LeaveType ==
    ASSUME DeletionTypeOK, NEW a \in Agent, Leave(a)
    PROVE  /\ del' \in [Agent -> AgentType]
           /\ \A b \in Agent : del'[b].job = Nothing <=> del'[b].pc = "idle"
<1>1. IdleAgent \in AgentType /\ IdleAgent.job = Nothing /\ IdleAgent.pc = "idle"
  BY DeletionAssumption DEF IdleAgent, AgentType
<1> QED BY <1>1, InHandType DEF Leave

LEMMA DeletingType ==
    ASSUME DeletionTypeOK, NEW a \in Agent, del[a].pc # "idle",
           NEW pc \in {"mark", "look", "protect", "staging", "target", "end"},
           NEW error \in {"none", "blocked", "raised", "failed"}, Deleting(a, pc, error)
    PROVE  /\ del' \in [Agent -> AgentType]
           /\ \A b \in Agent : del'[b].job = Nothing <=> del'[b].pc = "idle"
<1> DEFINE x == [del[a] EXCEPT !.pc = pc, !.error = error]
<1>1. x \in AgentType /\ x.pc # "idle" /\ x.job # Nothing
  BY DEF DeletionTypeOK, AgentType
<1> QED BY <1>1, InHandType DEF Deleting

\* Requests, and the steps of a deletion.
LEMMA DropTypes ==
    ASSUME DeletionTypeOK, NEW a \in Agent, overtaken' \subseteq Checked',
           DropStep(a) \/ \E role \in {"web", "bulk"}, j \in Job : RequestDelete(a, role, j)
    PROVE  DeletionTypeOK'
<1>0. /\ jobs \in [Job -> Row] /\ del[a] \in AgentType
      /\ del[a].pc # "idle" => del[a].job \in Job
  BY DEF DeletionTypeOK, AgentType
<1>1. ASSUME NEW role \in {"web", "bulk"}, NEW j \in Job, RequestDelete(a, role, j)
      PROVE  DeletionTypeOK'
  <2>1. PICK pc \in {"end", "mark"}, hard \in BOOLEAN :
          del' = [del EXCEPT ![a] = [pc |-> pc, role |-> role, job |-> j, hard |-> hard,
                                     error |-> "none", tries |-> 0]]
    BY <1>1 DEF RequestDelete
  <2>2. [pc |-> pc, role |-> role, job |-> j, hard |-> hard, error |-> "none", tries |-> 0] \in AgentType
    BY DeletionAssumption DEF AgentType
  <2>3. j # Nothing
    BY DeletionAssumption
  <2>4. /\ del' \in [Agent -> AgentType]
        /\ \A b \in Agent : del'[b].job = Nothing <=> del'[b].pc = "idle"
    BY <2>1, <2>2, <2>3, InHandType
  <2>5. requests' \in 0 .. MaxRequest
    BY <1>1, DeletionAssumption DEF RequestDelete, DeletionTypeOK
  <2> QED BY <1>1, <2>4, <2>5 DEF RequestDelete, hostVars, DeletionTypeOK
<1>2. CASE MarkDeleting(a)
  <2>1. [jobs[del[a].job] EXCEPT !.status = "deleting", !.stale = FALSE, !.retry = @ + 1] \in Row
    <3>1. jobs[del[a].job] \in Row /\ jobs[del[a].job].retry + 1 \in Nat
      BY <1>0, <1>2 DEF MarkDeleting, Row
    <3>2. "deleting" \in Status
      BY DEF Status
    <3> QED BY <3>1, <3>2 DEF Row
  <2>2. jobs' \in [Job -> Row]
    BY <1>0, <1>2, <2>1, SetType DEF MarkDeleting
  <2>3. Leave(a) \/ \E skip \in BOOLEAN : Deleting(a, IF skip THEN "end" ELSE "protect", "none")
    BY <1>2 DEF MarkDeleting
  <2>4. /\ del' \in [Agent -> AgentType]
        /\ \A b \in Agent : del'[b].job = Nothing <=> del'[b].pc = "idle"
    BY <1>2, <2>3, LeaveType, DeletingType DEF MarkDeleting
  <2> QED BY <1>2, <2>2, <2>4 DEF MarkDeleting, hostVars, DeletionTypeOK
<1>3. CASE CheckProtection(a)
  <2>1. /\ del' \in [Agent -> AgentType]
        /\ \A b \in Agent : del'[b].job = Nothing <=> del'[b].pc = "idle"
    BY <1>3, DeletingType DEF CheckProtection
  <2> QED BY <1>3, <2>1 DEF CheckProtection, hostVars, DeletionTypeOK
<1>4. CASE DropStaging(a)
  <2>1. del[a].error \in {"none", "blocked", "raised", "failed"}
    BY <1>0 DEF AgentType
  <2>2. /\ del' \in [Agent -> AgentType]
        /\ \A b \in Agent : del'[b].job = Nothing <=> del'[b].pc = "idle"
    BY <1>4, <2>1, DeletingType DEF DropStaging
  <2>3. staging' \in [Job -> {"none", "bare", "marked"}]
    BY <1>4 DEF DropStaging, DeletionTypeOK
  <2> QED BY <1>4, <2>2, <2>3 DEF DropStaging, DeletionTypeOK
<1>5. CASE DropTarget(a)
  <2>1. del[a].error \in {"none", "blocked", "raised", "failed"}
    BY <1>0 DEF AgentType
  <2>2. PICK error \in {"none", "blocked", "raised", "failed"} : Deleting(a, "end", error)
    BY <1>5, <2>1 DEF DropTarget
  <2>3. /\ del' \in [Agent -> AgentType]
        /\ \A b \in Agent : del'[b].job = Nothing <=> del'[b].pc = "idle"
    BY <1>5, <2>2, DeletingType DEF DropTarget
  <2>4. db' \in Job \cup {External, Nothing}
    BY <1>5 DEF DropTarget, DeletionTypeOK
  <2> QED BY <1>5, <2>3, <2>4 DEF DropTarget, DeletionTypeOK
<1> QED BY <1>1, <1>2, <1>3, <1>4, <1>5 DEF DropStep

\* The end of a deletion, and a worker's retry.
LEMMA EndTypes ==
    ASSUME DeletionTypeOK, NEW a \in Agent, overtaken' \subseteq Checked',
           FinishRequest(a) \/ ClaimStale(a) \/ LookForOwn(a) \/ FinishRetry(a) \/ AgentDies(a)
    PROVE  DeletionTypeOK'
<1>0. /\ jobs \in [Job -> Row] /\ del[a] \in AgentType /\ {"deleted", "failed", "removed"} \subseteq Status
      /\ del[a].pc # "idle" => del[a].job \in Job
  BY DEF DeletionTypeOK, AgentType, Status
<1>1. CASE FinishRequest(a)
  <2>1. [NewRow EXCEPT !.status = "removed"] \in Row
    BY NewRowType DEF Row, Status
  <2>2. jobs' \in [Job -> Row]
    BY <1>0, <1>1, <2>1, SetType, SetStatusType DEF FinishRequest
  <2> QED BY <1>1, <2>2, LeaveType DEF FinishRequest, hostVars, DeletionTypeOK
<1>2. CASE ClaimStale(a)
  <2>1. PICK j \in Claimable :
          /\ Set(j, [jobs[j] EXCEPT !.stale = FALSE, !.retry = @ + 1])
          /\ del' = [del EXCEPT ![a] = [IdleAgent EXCEPT !.pc = "look", !.role = "worker",
                                            !.job = j, !.tries = jobs[j].retry + 1]]
    BY <1>2 DEF ClaimStale
  <2> DEFINE x == [IdleAgent EXCEPT !.pc = "look", !.role = "worker", !.job = j, !.tries = jobs[j].retry + 1]
  <2>2. /\ j \in Job /\ jobs[j] \in Row
        /\ jobs[j].retry + 1 \in Nat /\ jobs[j].retry + 1 \in 0 .. MaxRetry
    BY <1>0, DeletionAssumption DEF Claimable, Having, Row
  <2>3. [jobs[j] EXCEPT !.stale = FALSE, !.retry = @ + 1] \in Row
    BY <1>0, <2>2 DEF Row
  <2>4. jobs' \in [Job -> Row]
    BY <1>0, <2>1, <2>2, <2>3, SetType
  <2>5. x \in AgentType /\ x.job # Nothing /\ x.pc # "idle"
    BY <2>2, DeletionAssumption DEF IdleAgent, AgentType
  <2>6. /\ del' \in [Agent -> AgentType]
        /\ \A b \in Agent : del'[b].job = Nothing <=> del'[b].pc = "idle"
    BY <2>1, <2>5, InHandType
  <2> QED BY <1>2, <2>4, <2>6 DEF ClaimStale, hostVars, DeletionTypeOK
<1>3. CASE LookForOwn(a)
  <2>1. jobs' \in [Job -> Row]
    BY <1>0, <1>3, SetStatusType DEF LookForOwn, GiveUp
  <2>2. /\ del' \in [Agent -> AgentType]
        /\ \A b \in Agent : del'[b].job = Nothing <=> del'[b].pc = "idle"
    BY <1>3, LeaveType, DeletingType DEF LookForOwn
  <2> QED BY <1>3, <2>1, <2>2 DEF LookForOwn, hostVars, DeletionTypeOK
<1>4. CASE FinishRetry(a)
  <2>1. jobs' \in [Job -> Row]
    BY <1>0, <1>4, SetStatusType DEF FinishRetry, GiveUp
  <2> QED BY <1>4, <2>1, LeaveType DEF FinishRetry, hostVars, DeletionTypeOK
<1>5. CASE AgentDies(a)
  <2>1. crashes' \in 0 .. MaxCrash
    BY <1>5, DeletionAssumption DEF AgentDies, DeletionTypeOK
  <2> QED BY <1>5, <2>1, LeaveType DEF AgentDies, hostVars, DeletionTypeOK
<1> QED BY <1>1, <1>2, <1>3, <1>4, <1>5

\* The sweep.
LEMMA SweepTypes ==
    ASSUME DeletionTypeOK, SweepStepNext, overtaken' \subseteq Checked'
    PROVE  DeletionTypeOK'
<1>0. jobs \in [Job -> Row]
  BY DEF DeletionTypeOK
<1>1. CASE StartSweep
  <2>1. Candidates \subseteq Job
    BY DEF Candidates, Having
  <2> QED BY <1>1, <2>1 DEF StartSweep, SweepStep, DeletionTypeOK
<1>2. ASSUME NEW j \in Job, SweepNext(j)
      PROVE  DeletionTypeOK'
  <2>1. [jobs[j] EXCEPT !.dropped = TRUE] \in Row
    BY <1>0 DEF Row
  <2>2. jobs' \in [Job -> Row]
    BY <1>0, <1>2, <2>1, SetType DEF SweepNext
  <2>3. j # Nothing
    BY DeletionAssumption
  <2> QED BY <1>2, <2>2, <2>3 DEF SweepNext, SweepStep, DeletionTypeOK
<1>3. CASE SweepProtect
  BY <1>3 DEF SweepProtect, SweepStep, DeletionTypeOK
<1>4. CASE SweepDrop
  BY <1>4 DEF SweepDrop, SweepStep, DeletionTypeOK
<1>5. CASE SweepRecord
  <2>1. sweep.job \in Job
    BY <1>5 DEF SweepRecord, DeletionTypeOK
  <2>2. [jobs[sweep.job] EXCEPT !.dropped = TRUE] \in Row
    BY <1>0, <2>1 DEF Row
  <2>3. jobs' \in [Job -> Row]
    BY <1>0, <1>5, <2>1, <2>2, SetType DEF SweepRecord
  <2> QED BY <1>5, <2>3 DEF SweepRecord, SweepStep, DeletionTypeOK
<1>6. CASE EndSweep
  BY <1>6 DEF EndSweep, SweepStep, IdleSweep, DeletionTypeOK
<1> QED BY <1>1, <1>2, <1>3, <1>4, <1>5, <1>6 DEF SweepStepNext

LEMMA TypeStep ==
    ASSUME DeletionTypeOK, [DeletionNext]_allVars
    PROVE  DeletionTypeOK'
<1>1. CASE UNCHANGED allVars
  BY <1>1 DEF allVars, deletionVars, Checked, InWindow, DeletionTypeOK
<1>2. CASE DeletionNext
  <2>0. Anyone /\ overtaken' \subseteq Checked'
    BY <1>2 DEF DeletionNext
  <2>1. CASE CreateByHand \/ RemoveHost
    BY <2>0, <2>1 DEF CreateByHand, RemoveHost, hostVars, agentVars, DeletionTypeOK
  <2>2. ASSUME NEW c \in Client, ClientStep(c) \/ \E role \in {"web", "bulk"}, j \in Job : RequestDelete(c, role, j)
        PROVE  DeletionTypeOK'
    BY <2>0, <2>2, DropTypes, EndTypes DEF ClientStep, Agent
  <2>3. ASSUME NEW w \in Worker, RetryStep(w)
        PROVE  DeletionTypeOK'
    BY <2>0, <2>3, DropTypes, EndTypes DEF RetryStep, Agent
  <2> QED BY <2>0, <2>1, <2>2, <2>3, LifeTypes, EndTypes, SweepTypes DEF Anyone
<1> QED BY <1>1, <1>2

\* Every variable keeps its type, for any number of jobs and agents, with faults.
THEOREM DeletionTypeCorrect == DeletionSpec => []DeletionTypeOK
<1>1. DeletionInit => DeletionTypeOK
  <2>1. IdleAgent \in AgentType /\ IdleAgent.job = Nothing /\ IdleAgent.pc = "idle"
    BY DeletionAssumption DEF IdleAgent, AgentType
  <2> QED BY <2>1, NewRowType, DeletionAssumption DEF DeletionInit, DeletionTypeOK, IdleSweep
<1>2. DeletionTypeOK /\ [DeletionNext]_allVars => DeletionTypeOK'
  BY TypeStep
<1> QED BY <1>1, <1>2, PTL DEF DeletionSpec

-----------------------------------------------------------------------------
(* Live data.  What is to show is that nobody but those who overtake a     *)
(* check takes it back: the gate of a restore locks a job, too, but never  *)
(* the one whose restore is in the database, since a job is restored once. *)

\* No user has the database, nor a lock on the job that restored it.
Unprotected ==
    /\ \A j \in Job : ~IsDeployed(j)
    /\ db \in Job => ~IsLocked(db)

\* A job that has not cut over is not in the database.
RestoredOnce ==
    \A j \in Job :
        /\ restore[j] # "none" => jobs[j].status \notin {"absent", "queued"}
        /\ jobs[j].status \in {"absent", "queued"} \/ restore[j] \in {"prep", "load", "loaded"}
              => db # j

\* Past a check that let it pass and that nobody has overtaken, a deletion or
\* the sweep finds no live data.
AgentSafe(a) ==
    del[a].pc \in {"staging", "target"} =>
        /\ del[a].error \in {"none", "blocked", "raised"}
        /\ del[a].error = "none" /\ a \notin overtaken => Unprotected
SweepSafe ==
    Retention \notin overtaken =>
        /\ sweep.pc = "drop" => Unprotected
        /\ sweep.pc \in {"protect", "drop"} => sweep.job = db \/ db = Nothing

LiveInv == RestoredOnce /\ SweepSafe /\ \A a \in Agent : AgentSafe(a)

\* Who is still between a check and a drop stays overtaken.
Remembered ==
    \A x \in Agent \cup {Retention} : InWindow(x)' /\ x \in overtaken => x \in overtaken'

LEMMA HistoryFacts ==
    ASSUME DeletionNext
    PROVE  /\ Remembered
           /\ Overtakes => \A x \in Agent \cup {Retention} : InWindow(x)' => x \in overtaken'
BY DEF DeletionNext, Remembered, Checked

\* What most steps do to a row: it is not deployed, locked or new unless it was.
Settled(r, s) ==
    /\ s.status = "deployed" /\ ~s.superseded /\ ~s.dropped
          => r.status = "deployed" /\ ~r.superseded /\ ~r.dropped
    /\ s.locked /\ ~s.dropped => r.locked /\ ~r.dropped
    /\ s.status \in {"absent", "queued"} => r.status \in {"absent", "queued"}

LEMMA SettledKeeps ==
    ASSUME DeletionTypeOK, \A k \in Job : Settled(jobs[k], jobs'[k]),
           \A k \in Job : restore'[k] # "none" => restore[k] # "none" /\ restore'[k] \in {restore[k], "again"},
           db' = db \/ db' = Nothing \/ db' = External
    PROVE  /\ Unprotected => Unprotected'
           /\ RestoredOnce => RestoredOnce'
<1>1. External \notin Job /\ Nothing \notin Job
  BY DeletionAssumption
<1>2. ASSUME Unprotected PROVE Unprotected'
  BY <1>1, <1>2 DEF Unprotected, IsDeployed, IsLocked, Settled
<1>3. ASSUME RestoredOnce PROVE RestoredOnce'
  BY <1>1, <1>3 DEF RestoredOnce, Settled
<1> QED BY <1>2, <1>3

LEMMA SettledStill ==
    UNCHANGED restore =>
        \A k \in Job : restore'[k] # "none" => restore[k] # "none" /\ restore'[k] \in {restore[k], "again"}
OBVIOUS

LEMMA SettledRow ==
    ASSUME jobs \in [Job -> Row], NEW j \in Job, NEW row, Set(j, row), Settled(jobs[j], row)
    PROVE  \A k \in Job : Settled(jobs[k], jobs'[k])
BY DEF Set, Settled

LEMMA SettledStatus ==
    ASSUME jobs \in [Job -> Row], NEW j \in Job, NEW s \in Status \ {"absent", "queued", "deployed"},
           SetStatus(j, s)
    PROVE  \A k \in Job : Settled(jobs[k], jobs'[k])
<1>1. Settled(jobs[j], [jobs[j] EXCEPT !.status = s])
  BY DEF Settled, Row
<1> QED BY <1>1, SettledRow DEF SetStatus

\* Restores, users and the clock, while a drop may be under way.
LEMMA LifeSafe ==
    ASSUME DeletionTypeOK, RestoredOnce, NEW j \in Job, LifeStep(j) \/ BecomeStale(j)
    PROVE  /\ RestoredOnce'
           /\ ~Overtakes /\ Unprotected => Unprotected'
           /\ ~Overtakes => db' = db
           /\ db' # db => db' # Nothing
<1> DEFINE r == jobs[j]
<1> DEFINE Goal == /\ RestoredOnce'
                   /\ ~Overtakes /\ Unprotected => Unprotected'
                   /\ ~Overtakes => db' = db
                   /\ db' # db => db' # Nothing
<1>0. jobs \in [Job -> Row] /\ r \in Row /\ j # Nothing /\ restore \in [Job -> {"none", "prep", "load", "loaded", "finish", "again"}]
  BY DeletionAssumption DEF DeletionTypeOK
<1>1. ASSUME \A k \in Job : Settled(jobs[k], jobs'[k]), UNCHANGED <<db, restore>>
      PROVE  Goal
  <2>1. \A k \in Job : restore'[k] # "none" => restore[k] # "none" /\ restore'[k] \in {restore[k], "again"}
    BY <1>1
  <2> QED BY <1>1, <2>1, SettledKeeps
<1>2. CASE Submit(j)
  <2>1. \A k \in Job : Settled(jobs[k], jobs'[k])
    <3> SUFFICES ASSUME NEW k \in Job PROVE Settled(jobs[k], jobs'[k])
      OBVIOUS
    <3>1. PICK accepted \in {FALSE, db # External} :
            jobs'[k] = IF k = j /\ accepted THEN [NewRow EXCEPT !.status = "queued"]
                       ELSE IF IsDeployed(k)
                            THEN [jobs[k] EXCEPT !.status = "superseded", !.superseded = TRUE, !.dropped = TRUE]
                            ELSE jobs[k]
      BY <1>2 DEF Submit
    <3>2. r.status = "absent" /\ jobs[k] \in Row
      BY <1>0, <1>2 DEF Submit
    <3> QED BY <3>1, <3>2 DEF Settled, NewRow, Row
  <2> QED BY <1>1, <1>2, <2>1 DEF Submit, hostVars
<1>3. CASE ClaimDatabase(j)
  <2>1. Overtakes /\ UNCHANGED <<db, restore>>
    BY <1>3 DEF ClaimDatabase, Overtakes, hostVars
  <2>2. \A k \in Job : jobs'[k].status \in {"absent", "queued"} => jobs[k].status \in {"absent", "queued"}
    BY <1>0, <1>3 DEF ClaimDatabase, Set, NewRow
  <2>3. \A k \in Job : jobs[k].status \notin {"absent", "queued"} => jobs'[k].status \notin {"absent", "queued"}
    BY <2>2
  <2> QED BY <2>1, <2>3 DEF RestoredOnce
<1>4. CASE StartJob(j)
  <2>1. \A k \in Job : Settled(jobs[k], jobs'[k])
    BY <1>0, <1>4, SettledStatus DEF StartJob, Status
  <2>2. jobs'[j].status = "running" /\ db # j /\ UNCHANGED db /\ restore' = [restore EXCEPT ![j] = "prep"]
    BY <1>0, <1>4 DEF StartJob, SetStatus, Set, RestoredOnce, hostVars, Row
  <2>3. Unprotected => Unprotected'
    BY <2>1, <2>2 DEF Unprotected, IsDeployed, IsLocked, Settled
  <2>4. RestoredOnce'
    BY <1>0, <2>1, <2>2 DEF RestoredOnce, Settled
  <2> QED BY <2>2, <2>3, <2>4
<1>5. CASE Cancel(j)
  <2>1. Settled(r, [r EXCEPT !.cancelReq = TRUE, !.status = IF @ = "queued" THEN "canceled" ELSE "canceling"])
    BY <1>0 DEF Settled, Row
  <2> QED BY <1>0, <1>1, <1>5, <2>1, SettledRow DEF Cancel, hostVars
<1>6. CASE PassGate(j)
  <2>1. restore[j] = "prep" /\ db # j /\ UNCHANGED db
    BY <1>6 DEF PassGate, RestoredOnce
  <2>2. \A k \in Job \ {j} : jobs'[k] = jobs[k] /\ restore'[k] = restore[k]
    BY <1>0, <1>6 DEF PassGate, SetStatus, Set
  <2>3. /\ jobs'[j].status = "deployed" => r.status = "deployed"
        /\ jobs'[j].status \notin {"absent", "queued"}
        /\ jobs'[j].superseded = r.superseded /\ jobs'[j].dropped = r.dropped
    BY <1>0, <1>6, <2>1 DEF PassGate, SetStatus, Set, Row, RestoredOnce
  <2>4. Unprotected => Unprotected'
    BY <2>1, <2>2, <2>3 DEF Unprotected, IsDeployed, IsLocked
  <2>5. RestoredOnce'
    BY <2>1, <2>2, <2>3 DEF RestoredOnce
  <2> QED BY <2>1, <2>4, <2>5
<1>7. CASE WriteMetadata(j)
  <2>1. UNCHANGED <<jobs, db>> /\ restore[j] = "load" /\ restore' = [restore EXCEPT ![j] = "loaded"]
    BY <1>7 DEF WriteMetadata
  <2> QED BY <1>0, <2>1 DEF RestoredOnce, Unprotected, IsDeployed, IsLocked
<1>8. CASE CutOver(j)
  <2>1. /\ Overtakes /\ UNCHANGED jobs /\ db' = j
        /\ restore[j] = "loaded" /\ restore' = [restore EXCEPT ![j] = "finish"]
    BY <1>8 DEF CutOver, Overtakes
  <2> QED BY <1>0, <2>1 DEF RestoredOnce
<1>9. CASE Deploy(j)
  <2>1. /\ Overtakes /\ UNCHANGED db /\ restore[j] = "finish"
        /\ restore' = [restore EXCEPT ![j] = "none"]
    BY <1>9 DEF Deploy, Overtakes, hostVars
  <2>2. \A k \in Job : jobs'[k].status \in {"absent", "queued"} => jobs[k].status \in {"absent", "queued"}
    <3>1. CASE r.status = "running"
      BY <1>0, <1>9, <3>1 DEF Deploy, Set, Row
    <3> QED BY <1>9, <3>1 DEF Deploy
  <2> QED BY <1>0, <2>1, <2>2 DEF RestoredOnce
<1>10. CASE FailRestore(j)
  <2>1. Settled(r, [r EXCEPT !.status = "failed", !.locked = FALSE])
    BY <1>0 DEF Settled, Row
  <2>2. \A k \in Job : Settled(jobs[k], jobs'[k])
    BY <1>0, <1>10, <2>1, SettledRow DEF FailRestore
  <2>3. \A k \in Job : restore'[k] # "none" => restore[k] # "none" /\ restore'[k] \in {restore[k], "again"}
    BY <1>0, <1>10 DEF FailRestore
  <2> QED BY <1>10, <2>2, <2>3, SettledKeeps DEF FailRestore, hostVars
<1>11. CASE LockDatabase(j)
  <2>1. Overtakes /\ UNCHANGED <<db, restore>>
    BY <1>11 DEF LockDatabase, Overtakes, hostVars
  <2>2. \A k \in Job : jobs'[k].status \in {"absent", "queued"} => jobs[k].status \in {"absent", "queued"}
    BY <1>0, <1>11 DEF LockDatabase, Set, Row
  <2> QED BY <2>1, <2>2 DEF RestoredOnce
<1>12. CASE UnlockDatabase(j) \/ Lapse(j) \/ Extend(j) \/ BecomeStale(j) \/ ForceComplete(j)
  <2>1. /\ Settled(r, [r EXCEPT !.locked = FALSE]) /\ Settled(r, [r EXCEPT !.lapsed = TRUE])
        /\ Settled(r, [r EXCEPT !.lapsed = FALSE]) /\ Settled(r, [r EXCEPT !.stale = TRUE])
        /\ Settled(r, [r EXCEPT !.status = "deleted", !.dropped = TRUE])
    BY <1>0 DEF Settled, Row
  <2> QED BY <1>0, <1>1, <1>12, <2>1, SettledRow
          DEF UnlockDatabase, Lapse, Extend, BecomeStale, ForceComplete, hostVars
<1>13. CASE Complete(j) \/ MarkExpired(j)
  BY <1>0, <1>1, <1>13, SettledStatus DEF Complete, MarkExpired, Status, hostVars
<1> QED BY <1>2, <1>3, <1>4, <1>5, <1>6, <1>7, <1>8, <1>9, <1>10, <1>11, <1>12, <1>13 DEF LifeStep

\* One agent at a time moves on.
LEMMA OthersSafe ==
    ASSUME LiveInv, Remembered, NEW a \in Agent, Unprotected => Unprotected',
           \A b \in Agent \ {a} : del'[b] = del[b],
           AgentSafe(a)'
    PROVE  \A b \in Agent : AgentSafe(b)'
BY DeletionAssumption DEF LiveInv, AgentSafe, Remembered, InWindow, Agent

LEMMA AgentMoves ==
    ASSUME del \in [Agent -> AgentType], NEW a \in Agent, NEW pc, NEW error, Deleting(a, pc, error)
    PROVE  /\ \A b \in Agent \ {a} : del'[b] = del[b]
           /\ del'[a].pc = pc /\ del'[a].error = error
BY DEF Deleting, AgentType

LEMMA AgentLeaves ==
    ASSUME del \in [Agent -> AgentType], NEW a \in Agent, Leave(a)
    PROVE  /\ \A b \in Agent \ {a} : del'[b] = del[b]
           /\ del'[a].pc = "idle"
BY DEF Leave, IdleAgent

\* The steps of a deletion and of a retry.
LEMMA DropSafe ==
    ASSUME DeletionTypeOK, LiveInv, Remembered, NEW a \in Agent, DropStep(a)
    PROVE  /\ RestoredOnce'
           /\ Unprotected => Unprotected'
           /\ db' # db => /\ del[a].pc = "target" /\ del[a].error # "blocked"
                          /\ db \in Job /\ db' = Nothing
           /\ \A b \in Agent : AgentSafe(b)'
<1> DEFINE Goal == /\ RestoredOnce'
                   /\ Unprotected => Unprotected'
                   /\ db' # db => /\ del[a].pc = "target" /\ del[a].error # "blocked"
                                  /\ db \in Job /\ db' = Nothing
                   /\ \A b \in Agent : AgentSafe(b)'
<1>0. /\ jobs \in [Job -> Row] /\ del \in [Agent -> AgentType] /\ RestoredOnce
      /\ del[a].pc # "idle" => del[a].job \in Job
      /\ del[a].pc \in {"staging", "target"} => del[a].error \in {"none", "blocked", "raised"}
      /\ del[a].pc \in {"staging", "target"} /\ del[a].error = "none" /\ a \notin overtaken => Unprotected
      /\ del'[a].pc \in {"staging", "target"} /\ a \in overtaken => a \in overtaken'
  BY DeletionAssumption DEF DeletionTypeOK, AgentType, LiveInv, AgentSafe, Remembered, InWindow, Agent
<1>1. CASE MarkDeleting(a)
  <2> DEFINE j == del[a].job
             row == [jobs[j] EXCEPT !.status = "deleting", !.stale = FALSE, !.retry = @ + 1]
  <2>1. j \in Job /\ Set(j, row) /\ UNCHANGED <<db, restore>>
    BY <1>0, <1>1 DEF MarkDeleting, hostVars
  <2>2. Settled(jobs[j], row)
    BY <1>0, <2>1 DEF Settled, Row
  <2>3. \A k \in Job : Settled(jobs[k], jobs'[k])
    BY <1>0, <2>1, <2>2, SettledRow
  <2>4. RestoredOnce' /\ (Unprotected => Unprotected')
    BY <1>0, <2>1, <2>3, SettledKeeps, SettledStill
  <2>5. Leave(a) \/ \E pc \in {"end", "protect"} : Deleting(a, pc, "none")
    BY <1>1 DEF MarkDeleting
  <2>6. (\A b \in Agent \ {a} : del'[b] = del[b]) /\ AgentSafe(a)'
    BY <1>0, <2>5, AgentLeaves, AgentMoves DEF AgentSafe
  <2> QED BY <2>1, <2>4, <2>6, OthersSafe
<1>2. ASSUME UNCHANGED <<jobs, db, restore>>, AgentSafe(a)', \A b \in Agent \ {a} : del'[b] = del[b]
      PROVE  Goal
  <2>1. RestoredOnce' /\ (Unprotected => Unprotected')
    BY <1>0, <1>2 DEF RestoredOnce, Unprotected, IsDeployed, IsLocked
  <2> QED BY <1>2, <2>1, OthersSafe
<1>3. CASE CheckProtection(a)
  <2>1. UNCHANGED <<jobs, db, restore>>
    BY <1>3 DEF CheckProtection, hostVars
  <2>2. PICK error \in {"none", "blocked", "raised"} :
          Deleting(a, "staging", error) /\ (error = "none" => ~IsProtected)
    BY <1>3 DEF CheckProtection
  <2>3. error = "none" => Unprotected'
    BY <2>1, <2>2 DEF IsProtected, Unprotected, IsDeployed, IsLocked
  <2>4. (\A b \in Agent \ {a} : del'[b] = del[b]) /\ AgentSafe(a)'
    BY <1>0, <2>2, <2>3, AgentMoves DEF AgentSafe
  <2> QED BY <1>2, <2>1, <2>4
<1>4. CASE DropStaging(a)
  <2>1. UNCHANGED <<jobs, db, restore>>
    BY <1>4 DEF DropStaging
  <2>2. \/ Deleting(a, "target", del[a].error)
        \/ Deleting(a, "end", "none") \/ Deleting(a, "end", "failed")
    BY <1>4 DEF DropStaging
  <2>3. Unprotected => Unprotected'
    BY <2>1 DEF Unprotected, IsDeployed, IsLocked
  <2>4. del[a].pc = "staging"
    BY <1>4 DEF DropStaging
  <2>5. (\A b \in Agent \ {a} : del'[b] = del[b]) /\ AgentSafe(a)'
    BY <1>0, <2>2, <2>3, <2>4, AgentMoves DEF AgentSafe
  <2> QED BY <1>2, <2>1, <2>5
<1>5. CASE DropTarget(a)
  <2>1. UNCHANGED <<jobs, restore>> /\ del[a].pc = "target"
    BY <1>5 DEF DropTarget
  <2>2. db' # db => del[a].error # "blocked" /\ db \in Job /\ db' = Nothing
    BY <1>5 DEF DropTarget, MayDrop
  <2>3. \A k \in Job : Settled(jobs[k], jobs'[k])
    BY <2>1 DEF Settled
  <2>4. RestoredOnce' /\ (Unprotected => Unprotected')
    BY <1>0, <2>1, <2>2, <2>3, SettledKeeps, SettledStill
  <2>5. PICK error : Deleting(a, "end", error)
    BY <1>5 DEF DropTarget
  <2>6. (\A b \in Agent \ {a} : del'[b] = del[b]) /\ AgentSafe(a)'
    BY <1>0, <2>5, AgentMoves DEF AgentSafe
  <2> QED BY <2>1, <2>2, <2>4, <2>6, OthersSafe
<1> QED BY <1>1, <1>3, <1>4, <1>5 DEF DropStep

LEMMA EndSafe ==
    ASSUME DeletionTypeOK, LiveInv, Remembered, NEW a \in Agent,
           FinishRequest(a) \/ ClaimStale(a) \/ LookForOwn(a) \/ FinishRetry(a) \/ AgentDies(a)
    PROVE  /\ RestoredOnce'
           /\ Unprotected => Unprotected'
           /\ UNCHANGED db
           /\ \A b \in Agent : AgentSafe(b)'
<1>0. /\ jobs \in [Job -> Row] /\ del \in [Agent -> AgentType] /\ RestoredOnce
      /\ del[a].pc # "idle" => del[a].job \in Job
      /\ {"deleted", "failed"} \subseteq Status \ {"absent", "queued", "deployed"}
  BY DEF DeletionTypeOK, AgentType, LiveInv, Status
<1>1. UNCHANGED <<db, restore>>
  BY DEF FinishRequest, ClaimStale, LookForOwn, FinishRetry, AgentDies, hostVars
<1>2. ASSUME UNCHANGED jobs PROVE \A k \in Job : Settled(jobs[k], jobs'[k])
  BY <1>2 DEF Settled
<1>3. \A k \in Job : Settled(jobs[k], jobs'[k])
  <2>1. CASE FinishRequest(a)
    <3>1. Settled(jobs[del[a].job], [NewRow EXCEPT !.status = "removed"])
      BY DEF Settled, NewRow
    <3>2. \/ UNCHANGED jobs \/ SetStatus(del[a].job, "deleted")
          \/ Set(del[a].job, [NewRow EXCEPT !.status = "removed"])
      BY <2>1 DEF FinishRequest
    <3>3. del[a].job \in Job
      BY <1>0, <2>1 DEF FinishRequest
    <3> QED BY <1>0, <1>2, <3>1, <3>2, <3>3, SettledRow, SettledStatus
  <2>2. CASE ClaimStale(a)
    <3>1. PICK j \in Job : Set(j, [jobs[j] EXCEPT !.stale = FALSE, !.retry = @ + 1])
      BY <2>2 DEF ClaimStale, Claimable, Having
    <3>2. Settled(jobs[j], [jobs[j] EXCEPT !.stale = FALSE, !.retry = @ + 1])
      BY <1>0, <3>1 DEF Settled, Row
    <3> QED BY <1>0, <3>1, <3>2, SettledRow
  <2>3. CASE LookForOwn(a)
    <3>1. UNCHANGED jobs \/ SetStatus(del[a].job, "deleted") \/ SetStatus(del[a].job, "failed")
      BY <2>3 DEF LookForOwn, GiveUp
    <3>2. del[a].job \in Job
      BY <1>0, <2>3 DEF LookForOwn
    <3> QED BY <1>0, <1>2, <3>1, <3>2, SettledStatus
  <2>4. CASE FinishRetry(a)
    <3>1. UNCHANGED jobs \/ SetStatus(del[a].job, "deleted") \/ SetStatus(del[a].job, "failed")
      BY <2>4 DEF FinishRetry, GiveUp
    <3>2. del[a].job \in Job
      BY <1>0, <2>4 DEF FinishRetry
    <3> QED BY <1>0, <1>2, <3>1, <3>2, SettledStatus
  <2>5. CASE AgentDies(a)
    BY <1>2, <2>5 DEF AgentDies
  <2> QED BY <2>1, <2>2, <2>3, <2>4, <2>5
<1>4. RestoredOnce' /\ (Unprotected => Unprotected')
  BY <1>0, <1>1, <1>3, SettledKeeps, SettledStill
<1>5. (\A b \in Agent \ {a} : del'[b] = del[b]) /\ AgentSafe(a)'
  <2>1. CASE ClaimStale(a)
    <3>1. PICK j \in Job : del' = [del EXCEPT ![a] = [IdleAgent EXCEPT !.pc = "look", !.role = "worker",
                                                        !.job = j, !.tries = jobs[j].retry + 1]]
      BY <2>1 DEF ClaimStale, Claimable, Having
    <3> QED BY <1>0, <3>1 DEF AgentSafe, IdleAgent
  <2>2. CASE LookForOwn(a)
    <3>1. Leave(a) \/ Deleting(a, "protect", "none")
      BY <2>2 DEF LookForOwn
    <3> QED BY <1>0, <3>1, AgentLeaves, AgentMoves DEF AgentSafe
  <2>3. CASE FinishRequest(a) \/ FinishRetry(a) \/ AgentDies(a)
    <3>1. Leave(a)
      BY <2>3 DEF FinishRequest, FinishRetry, AgentDies
    <3> QED BY <1>0, <3>1, AgentLeaves DEF AgentSafe
  <2> QED BY <2>1, <2>2, <2>3
<1> QED BY <1>1, <1>4, <1>5, OthersSafe

\* The sweep.
LEMMA SweepLive ==
    ASSUME DeletionTypeOK, LiveInv, Remembered, SweepStepNext
    PROVE  /\ LiveInv'
           /\ db' # db => sweep.pc = "drop" /\ db' = Nothing
<1>0. jobs \in [Job -> Row] /\ RestoredOnce /\ SweepSafe
  BY DEF DeletionTypeOK, LiveInv
<1>1. UNCHANGED <<del, restore>>
  BY DEF SweepStepNext, StartSweep, SweepNext, SweepProtect, SweepDrop, SweepRecord, EndSweep, SweepStep
<1>2. db' # db => sweep.pc = "drop" /\ db' = Nothing
  BY DEF SweepStepNext, StartSweep, SweepNext, SweepProtect, SweepDrop, SweepRecord, EndSweep
<1>3. \A k \in Job : Settled(jobs[k], jobs'[k])
  <2>1. CASE UNCHANGED jobs
    BY <2>1 DEF Settled
  <2>2. ASSUME NEW j \in Job, Set(j, [jobs[j] EXCEPT !.dropped = TRUE])
        PROVE  \A k \in Job : Settled(jobs[k], jobs'[k])
    <3>1. Settled(jobs[j], [jobs[j] EXCEPT !.dropped = TRUE])
      BY <1>0 DEF Settled, Row
    <3> QED BY <1>0, <2>2, <3>1, SettledRow
  <2>3. sweep.pc = "record" => sweep.job \in Job
    BY DEF DeletionTypeOK
  <2> QED BY <2>1, <2>2, <2>3
          DEF SweepStepNext, StartSweep, SweepNext, SweepProtect, SweepDrop, SweepRecord, EndSweep
<1>4. RestoredOnce' /\ (Unprotected => Unprotected')
  BY <1>0, <1>1, <1>2, <1>3, SettledKeeps, SettledStill
<1>5. SweepSafe'
  <2>1. CASE SweepProtect
    <3>1. UNCHANGED <<jobs, db>> /\ sweep.pc = "protect" /\ sweep \in [pc : {"idle", "next", "protect", "drop", "record"},
                 todo : SUBSET Job, job : Job \cup {Nothing}]
      BY <2>1 DEF SweepProtect, DeletionTypeOK
    <3>2. \/ sweep' = [sweep EXCEPT !.pc = "next"]
          \/ ~IsProtected /\ sweep' = [sweep EXCEPT !.pc = "drop"]
      BY <2>1 DEF SweepProtect, Blocks
    <3>3. ~IsProtected => Unprotected'
      BY <3>1 DEF IsProtected, Unprotected, IsDeployed, IsLocked
    <3>4. sweep'.pc = "drop" /\ Retention \in overtaken => Retention \in overtaken'
      BY DEF Remembered, InWindow
    <3> QED BY <1>0, <3>1, <3>2, <3>3, <3>4 DEF SweepSafe
  <2>2. ASSUME NEW j \in Job, SweepNext(j) PROVE SweepSafe'
    BY <2>2 DEF SweepNext, IsOwn, SweepSafe
  <2>3. CASE StartSweep \/ SweepDrop \/ SweepRecord \/ EndSweep
    <3>1. sweep'.pc \notin {"protect", "drop"}
      BY <2>3 DEF StartSweep, SweepDrop, SweepRecord, EndSweep, IdleSweep, DeletionTypeOK
    <3> QED BY <3>1 DEF SweepSafe
  <2> QED BY <2>1, <2>2, <2>3 DEF SweepStepNext
<1>6. \A a \in Agent : AgentSafe(a)'
  BY <1>1, <1>4, DeletionAssumption DEF LiveInv, AgentSafe, Remembered, InWindow, Agent
<1> QED BY <1>2, <1>4, <1>5, <1>6 DEF LiveInv

\* Whoever takes a database away does so in a step of its own.
TakenBy ==
    db # Nothing /\ db' = Nothing =>
        \/ sweep.pc = "drop" /\ UNCHANGED del
        \/ \E a \in Agent : /\ del[a].pc = "target" /\ del[a].error # "blocked"
                           /\ UNCHANGED sweep /\ \A b \in Agent \ {a} : del'[b] = del[b]

\* Live data is safe in every step, and so is what the sweep has not restored.
LEMMA LiveStep ==
    ASSUME DeletionTypeOK, LiveInv, DeletionNext
    PROVE  LiveInv' /\ TakenBy
<1> DEFINE Goal == LiveInv' /\ TakenBy
<1>0. /\ RestoredOnce /\ SweepSafe /\ \A a \in Agent : AgentSafe(a)
      /\ Anyone /\ Remembered /\ Retention \notin Agent
  BY HistoryFacts, DeletionAssumption DEF LiveInv, DeletionNext, Agent
<1>1. ASSUME UNCHANGED sweep, Unprotected => Unprotected', db' = db \/ db' = Nothing
      PROVE  SweepSafe'
  BY <1>0, <1>1 DEF SweepSafe, Remembered, InWindow
<1>2. ASSUME UNCHANGED del, Unprotected => Unprotected'
      PROVE  \A a \in Agent : AgentSafe(a)'
  BY <1>0, <1>2 DEF AgentSafe, Remembered, InWindow
<1>3. CASE \E j \in Job : LifeStep(j) \/ BecomeStale(j)
  <2>1. UNCHANGED <<del, sweep>>
    BY <1>3 DEF LifeStep, BecomeStale, agentVars, Submit, ClaimDatabase, StartJob, Cancel,
         PassGate, WriteMetadata, CutOver, Deploy, FailRestore, LockDatabase, UnlockDatabase, Complete,
         Lapse, Extend, MarkExpired, ForceComplete
  <2>2. /\ RestoredOnce'
        /\ ~Overtakes /\ Unprotected => Unprotected'
        /\ ~Overtakes => db' = db
        /\ db' # db => db' # Nothing
    BY <1>0, <1>3, LifeSafe
  <2>3. CASE Overtakes
    <3>1. \A x \in Agent \cup {Retention} : InWindow(x)' => x \in overtaken'
      BY <2>3, HistoryFacts
    <3>2. SweepSafe'
      BY <1>0, <2>1, <3>1 DEF SweepSafe, InWindow
    <3>3. \A a \in Agent : AgentSafe(a)'
      BY <1>0, <2>1, <3>1 DEF AgentSafe, InWindow
    <3> QED BY <2>2, <3>2, <3>3 DEF LiveInv, TakenBy
  <2>4. CASE ~Overtakes
    BY <1>1, <1>2, <2>1, <2>2, <2>4 DEF LiveInv, TakenBy
  <2> QED BY <2>3, <2>4
<1>4. CASE CreateByHand
  <2>1. /\ UNCHANGED <<jobs, restore, del, sweep>> /\ db = Nothing /\ db' = External
        /\ \A x \in Agent \cup {Retention} : ~InWindow(x)
    BY <1>4 DEF CreateByHand, Checked, agentVars
  <2>2. External \notin Job /\ External # Nothing
    BY DeletionAssumption
  <2>3. RestoredOnce' /\ SweepSafe' /\ \A a \in Agent : AgentSafe(a)'
    BY <1>0, <2>1, <2>2 DEF RestoredOnce, SweepSafe, AgentSafe, InWindow
  <2> QED BY <2>1, <2>2, <2>3 DEF LiveInv, TakenBy
<1>5. CASE RemoveHost \/ \E c \in Client, role \in {"web", "bulk"}, j \in Job : RequestDelete(c, role, j)
  <2>1. UNCHANGED <<jobs, db, restore, sweep>>
    BY <1>5 DEF RemoveHost, RequestDelete, hostVars, agentVars
  <2>2. RestoredOnce' /\ (Unprotected => Unprotected') /\ TakenBy
    BY <1>0, <2>1 DEF RestoredOnce, Unprotected, IsDeployed, IsLocked, TakenBy
  <2>3. CASE RemoveHost
    <3>1. UNCHANGED del
      BY <2>3 DEF RemoveHost, agentVars
    <3> QED BY <1>1, <1>2, <2>1, <2>2, <3>1 DEF LiveInv
  <2>4. ASSUME NEW c \in Client, NEW role \in {"web", "bulk"}, NEW j \in Job, RequestDelete(c, role, j)
        PROVE  Goal
    <3>1. /\ \A b \in Agent \ {c} : del'[b] = del[b]
          /\ del'[c].pc \in {"end", "mark"}
      BY <2>4 DEF RequestDelete, DeletionTypeOK, Agent
    <3>2. c \in Agent /\ AgentSafe(c)'
      BY <3>1 DEF AgentSafe, Agent
    <3> QED BY <1>0, <1>1, <2>1, <2>2, <3>1, <3>2, OthersSafe DEF LiveInv
  <2> QED BY <1>5, <2>3, <2>4
<1>6. ASSUME NEW a \in Agent, DropStep(a) PROVE Goal
  <2>1. UNCHANGED sweep
    BY <1>6 DEF DropStep, MarkDeleting, CheckProtection, DropStaging, DropTarget
  <2>2. /\ RestoredOnce'
        /\ Unprotected => Unprotected'
        /\ db' # db => /\ del[a].pc = "target" /\ del[a].error # "blocked"
                       /\ db \in Job /\ db' = Nothing
        /\ \A b \in Agent : AgentSafe(b)'
    BY <1>0, <1>6, DropSafe
  <2>3. \A b \in Agent \ {a} : del'[b] = del[b]
    BY <1>6, AgentMoves, AgentLeaves
       DEF DropStep, MarkDeleting, CheckProtection, DropStaging, DropTarget, DeletionTypeOK
  <2> QED BY <1>1, <2>1, <2>2, <2>3 DEF LiveInv, TakenBy
<1>7. ASSUME NEW a \in Agent,
             FinishRequest(a) \/ ClaimStale(a) \/ LookForOwn(a) \/ FinishRetry(a) \/ AgentDies(a)
      PROVE  Goal
  <2>1. UNCHANGED sweep
    BY <1>7 DEF FinishRequest, ClaimStale, LookForOwn, FinishRetry, AgentDies
  <2>2. /\ RestoredOnce' /\ (Unprotected => Unprotected') /\ UNCHANGED db
        /\ \A b \in Agent : AgentSafe(b)'
    BY <1>0, <1>7, EndSafe
  <2> QED BY <1>1, <2>1, <2>2 DEF LiveInv, TakenBy
<1>8. CASE SweepStepNext
  <2>1. LiveInv' /\ (db' # db => sweep.pc = "drop" /\ db' = Nothing)
    BY <1>0, <1>8, SweepLive
  <2>2. UNCHANGED del
    BY <1>8 DEF SweepStepNext, StartSweep, SweepNext, SweepProtect, SweepDrop, SweepRecord,
         EndSweep, SweepStep
  <2> QED BY <2>1, <2>2 DEF TakenBy
<1>9. ASSUME NEW c \in Client, ClientStep(c) PROVE Goal
  BY <1>6, <1>7, <1>9 DEF ClientStep, Agent
<1>10. ASSUME NEW w \in Worker, RetryStep(w) PROVE Goal
  BY <1>6, <1>7, <1>10 DEF RetryStep, Agent
<1> QED BY <1>0, <1>3, <1>4, <1>5, <1>7, <1>8, <1>9, <1>10 DEF Anyone

LEMMA LiveDataInv == DeletionSpec => [](DeletionTypeOK /\ LiveInv)
<1>1. DeletionInit => LiveInv
  BY DeletionAssumption DEF DeletionInit, LiveInv, RestoredOnce, SweepSafe, AgentSafe, NewRow, IdleAgent, IdleSweep
<1>2. DeletionTypeOK /\ LiveInv /\ [DeletionNext]_allVars => LiveInv'
  <2>1. CASE UNCHANGED allVars
    BY <2>1 DEF allVars, deletionVars, LiveInv, RestoredOnce, SweepSafe, AgentSafe, Unprotected,
                IsDeployed, IsLocked
  <2> QED BY <2>1, LiveStep
<1> QED BY <1>1, <1>2, DeletionTypeCorrect, PTL DEF DeletionSpec

\* What x takes, unless overtaken, nobody has.
LEMMA TakesDeadData ==
    ASSUME DeletionTypeOK, LiveInv, DeletionNext, NEW x \in Agent \cup {Retention}, Takes(x)
    PROVE  /\ x # Retention /\ del[x].error # "raised" => Unprotected
           /\ x = Retention => Unprotected /\ db = sweep.job
<1>1. TakenBy /\ SweepSafe /\ (\A a \in Agent : AgentSafe(a)) /\ Retention \notin Agent
  BY LiveStep, DeletionAssumption DEF LiveInv, Agent
<1>2. CASE x = Retention
  <2>1. sweep.pc = "drop"
    BY <1>1, <1>2 DEF Takes, InWindow, TakenBy
  <2> QED BY <1>1, <1>2, <2>1 DEF Takes, SweepSafe
<1>3. CASE x # Retention
  <2>1. x \in Agent /\ del'[x] # del[x]
    BY <1>3 DEF Takes, InWindow
  <2>2. del[x].pc = "target" /\ del[x].error # "blocked"
    BY <1>1, <2>1 DEF Takes, TakenBy
  <2> QED BY <1>1, <1>3, <2>1, <2>2 DEF Takes, AgentSafe
<1> QED BY <1>2, <1>3

\* However many deletions, retries and sweeps run at once, none that nobody has
\* overtaken since its own check takes a database that a user has deployed or
\* locked.
THEOREM LiveDataSafe == DeletionSpec => LiveDataKept
<1>1. DeletionTypeOK /\ LiveInv /\ [DeletionNext]_allVars
        => [\A x \in Agent \cup {Retention} :
               Takes(x) /\ (x # Retention => del[x].error # "raised")
                   => /\ \A j \in Job : ~IsDeployed(j)
                      /\ db \in Job => ~IsLocked(db)]_deletionVars
  <2> SUFFICES ASSUME DeletionTypeOK, LiveInv, DeletionNext, NEW x \in Agent \cup {Retention},
                      Takes(x), x # Retention => del[x].error # "raised"
               PROVE  Unprotected
    BY DEF Unprotected, allVars
  <2> QED BY TakesDeadData
<1> QED BY <1>1, LiveDataInv, PTL DEF DeletionSpec, LiveDataKept

\* The sweep, unless overtaken, drops only what the candidate restored.
THEOREM RetentionSafe == DeletionSpec => RetentionDropsOwn
<1>1. DeletionTypeOK /\ LiveInv /\ [DeletionNext]_allVars
        => [Takes(Retention) => db = sweep.job]_deletionVars
  BY TakesDeadData DEF allVars
<1> QED BY <1>1, LiveDataInv, PTL DEF DeletionSpec, RetentionDropsOwn

-----------------------------------------------------------------------------
(* Retries.  What a worker has looked for and dropped must not come back   *)
(* before it marks the job deleted: a job that anybody deletes is no       *)
(* longer restored, or its restore is turned away at the gate.             *)

NoLonger(j) == jobs[j].status \notin {"absent", "queued", "running"}

Over(j) ==
    \/ restore[j] \in {"none", "again"}
    \/ restore[j] = "prep" /\ (jobs[j].cancelReq \/ jobs[j].status = "removed")

RestoresEnd ==
    \A j \in Job :
        /\ jobs[j].status \in {"absent", "queued"} => restore[j] = "none"
        /\ NoLonger(j) => Over(j)

InHand(a) == del[a].pc # "idle" => NoLonger(del[a].job)

\* A worker that finds nothing to report has dropped what there was.
LeavesNothing(w) ==
    /\ del[w].pc # "idle" => del[w].role = "worker" /\ del[w].pc # "mark"
    /\ del[w].pc = "end" /\ del[w].error = "none" /\ hostKnown => db # del[w].job

RetryInv ==
    /\ RestoresEnd
    /\ \A a \in Agent : InHand(a)
    /\ \A w \in Worker : LeavesNothing(w)

\* Writing a row that starts no job again and forgets no cancellation.
LEMMA SetRetry ==
    ASSUME DeletionTypeOK, RestoresEnd, UNCHANGED restore,
           NEW j \in Job, NEW row \in Row, Set(j, row),
           \/ row.status = jobs[j].status
           \/ NoLonger(j) /\ row.status \notin {"absent", "queued", "running"},
           row.cancelReq = jobs[j].cancelReq \/ row.status = "removed"
    PROVE  RestoresEnd' /\ \A k \in Job : NoLonger(k) => NoLonger(k)'
<1>0. jobs \in [Job -> Row]
  BY DEF DeletionTypeOK
<1>1. /\ \A k \in Job \ {j} : jobs'[k] = jobs[k]
      /\ jobs'[j] = jobs[j] \/ (jobs'[j] = row /\ jobs[j].status # "removed")
  BY <1>0 DEF Set
<1> QED BY <1>1 DEF RestoresEnd, NoLonger, Over

LEMMA StatusRetry ==
    ASSUME DeletionTypeOK, RestoresEnd, UNCHANGED restore, NEW j \in Job, NoLonger(j),
           NEW s \in Status \ {"absent", "queued", "running"}, SetStatus(j, s)
    PROVE  RestoresEnd' /\ \A k \in Job : NoLonger(k) => NoLonger(k)'
<1> DEFINE row == [jobs[j] EXCEPT !.status = s]
<1>1. row \in Row /\ row.status = s /\ row.cancelReq = jobs[j].cancelReq
  BY DEF DeletionTypeOK, Row
<1>2. Set(j, row)
  BY DEF SetStatus
<1> HIDE DEF row
<1> QED BY <1>1, <1>2, SetRetry

-----------------------------------------------------------------------------
\* Restores and users: none takes up a job that runs no longer.
LEMMA LifeRetry ==
    ASSUME DeletionTypeOK, RestoresEnd, NEW j \in Job, LifeStep(j) \/ BecomeStale(j)
    PROVE  /\ RestoresEnd'
           /\ \A k \in Job : NoLonger(k) => NoLonger(k)'
           /\ \A k \in Job : NoLonger(k) /\ db' = k => db = k
           /\ UNCHANGED <<del, hostKnown>>
<1>0. /\ jobs \in [Job -> Row]
      /\ restore \in [Job -> {"none", "prep", "load", "loaded", "finish", "again"}]
  BY DEF DeletionTypeOK
<1>2. CASE Submit(j)
  <2>1. /\ UNCHANGED <<db, restore, del, hostKnown>> /\ jobs[j].status = "absent"
        /\ \A k \in Job :
             \/ jobs'[k] = jobs[k]
             \/ k = j /\ jobs'[k].status = "queued"
             \/ /\ jobs[k].status = "deployed" /\ jobs'[k].status = "superseded"
                /\ jobs'[k].cancelReq = jobs[k].cancelReq
    <3>1. PICK accepted \in BOOLEAN :
            jobs' = [k \in Job |->
                IF k = j /\ accepted THEN [NewRow EXCEPT !.status = "queued"]
                ELSE IF IsDeployed(k)
                     THEN [jobs[k] EXCEPT !.status = "superseded", !.superseded = TRUE,
                                          !.dropped = TRUE]
                     ELSE jobs[k]]
      BY <1>2 DEF Submit
    <3>2. [NewRow EXCEPT !.status = "queued"].status = "queued"
      BY DEF NewRow
    <3>3. ASSUME NEW k \in Job
          PROVE  LET row == [jobs[k] EXCEPT !.status = "superseded", !.superseded = TRUE, !.dropped = TRUE]
                 IN  row.status = "superseded" /\ row.cancelReq = jobs[k].cancelReq
      BY <1>0 DEF Row
    <3>4. \A k \in Job : IsDeployed(k) => jobs[k].status = "deployed"
      BY DEF IsDeployed
    <3>5. UNCHANGED <<db, restore, del, hostKnown>> /\ jobs[j].status = "absent"
      BY <1>2 DEF Submit, hostVars, agentVars
    <3> QED BY <3>1, <3>2, <3>3, <3>4, <3>5
  <2> QED BY <2>1 DEF RestoresEnd, NoLonger, Over
<1>3. CASE ClaimDatabase(j) \/ StartJob(j)
  BY <1>0, <1>3 DEF ClaimDatabase, StartJob, Set, SetStatus, NewRow, hostVars, agentVars,
        RestoresEnd, NoLonger, Over, Row
<1>4. CASE Cancel(j)
  BY <1>0, <1>4 DEF Cancel, Set, hostVars, agentVars, RestoresEnd, NoLonger, Over, Row
<1>5. CASE PassGate(j)
  BY <1>0, <1>5 DEF PassGate, Set, SetStatus, agentVars, RestoresEnd, NoLonger, Over, Row
<1>6. CASE WriteMetadata(j) \/ CutOver(j)
  BY <1>0, <1>6 DEF WriteMetadata, CutOver, agentVars, RestoresEnd, NoLonger, Over, Row
<1>7. CASE Deploy(j) \/ FailRestore(j)
  <2>1. /\ UNCHANGED <<db, del, hostKnown>> /\ restore[j] # "none"
        /\ restore' \in {[restore EXCEPT ![j] = "none"], [restore EXCEPT ![j] = "again"]}
    BY <1>7 DEF Deploy, FailRestore, hostVars, agentVars
  <2>2. /\ \A k \in Job \ {j} : jobs'[k] = jobs[k]
        /\ jobs'[j] = jobs[j] \/ jobs'[j].status \in {"deployed", "failed"}
    <3>1. \/ UNCHANGED jobs
          \/ Set(j, [jobs[j] EXCEPT !.status = "deployed", !.locked = FALSE])
          \/ Set(j, [jobs[j] EXCEPT !.status = "failed", !.locked = FALSE])
      BY <1>7 DEF Deploy, FailRestore
    <3>2. /\ [jobs[j] EXCEPT !.status = "deployed", !.locked = FALSE].status = "deployed"
          /\ [jobs[j] EXCEPT !.status = "failed", !.locked = FALSE].status = "failed"
      BY <1>0 DEF Row
    <3> QED BY <1>0, <3>1, <3>2 DEF Set
  <2> QED BY <1>0, <2>1, <2>2 DEF RestoresEnd, NoLonger, Over
<1>8. CASE LockDatabase(j) \/ UnlockDatabase(j) \/ Lapse(j) \/ Extend(j) \/ BecomeStale(j)
  <2>1. PICK row \in Row : /\ row.status = jobs[j].status /\ row.cancelReq = jobs[j].cancelReq
                           /\ Set(j, row)
    <3>1. /\ [jobs[j] EXCEPT !.locked = TRUE] \in Row /\ [jobs[j] EXCEPT !.locked = FALSE] \in Row
          /\ [jobs[j] EXCEPT !.lapsed = TRUE] \in Row /\ [jobs[j] EXCEPT !.lapsed = FALSE] \in Row
          /\ [jobs[j] EXCEPT !.stale = TRUE] \in Row
      BY <1>0 DEF Row
    <3> QED BY <1>0, <1>8, <3>1 DEF LockDatabase, UnlockDatabase, Lapse, Extend, BecomeStale, Row
  <2>2. UNCHANGED <<db, restore, del, hostKnown>>
    BY <1>8 DEF LockDatabase, UnlockDatabase, Lapse, Extend, BecomeStale, hostVars, agentVars
  <2> QED BY <2>1, <2>2, SetRetry
<1>9. CASE Complete(j) \/ MarkExpired(j)
  <2>1. /\ SetStatus(j, "complete") \/ SetStatus(j, "expired")
        /\ NoLonger(j) /\ UNCHANGED <<db, restore, del, hostKnown>>
    BY <1>9 DEF Complete, MarkExpired, NoLonger, hostVars, agentVars
  <2>2. {"complete", "expired"} \subseteq Status \ {"absent", "queued", "running"}
    BY DEF Status
  <2> QED BY <2>1, <2>2, StatusRetry
<1>10. CASE ForceComplete(j)
  <2>1. [jobs[j] EXCEPT !.status = "deleted", !.dropped = TRUE] \in Row
    BY <1>0 DEF Row, Status
  <2>2. /\ Set(j, [jobs[j] EXCEPT !.status = "deleted", !.dropped = TRUE])
        /\ NoLonger(j) /\ UNCHANGED <<db, restore, del, hostKnown>>
    BY <1>10 DEF ForceComplete, NoLonger, hostVars, agentVars
  <2> QED BY <1>0, <2>1, <2>2, SetRetry DEF Row
<1> QED BY <1>2, <1>3, <1>4, <1>5, <1>6, <1>7, <1>8, <1>9, <1>10 DEF LifeStep

-----------------------------------------------------------------------------
\* What an agent does next to the job in its hands.
LEMMA OthersRetry ==
    ASSUME RetryInv, \A k \in Job : NoLonger(k) => NoLonger(k)',
           \A b \in Agent : del[b].pc # "idle" => del[b].job \in Job,
           NEW a \in Agent, \A b \in Agent \ {a} : del'[b] = del[b],
           db' = db \/ db' \notin Job, hostKnown' = hostKnown
    PROVE  /\ \A b \in Agent \ {a} : InHand(b)'
           /\ \A w \in Worker \ {a} : LeavesNothing(w)'
<1>1. \A b \in Agent \ {a} : InHand(b)'
  BY DEF RetryInv, InHand
<1>2. ASSUME NEW w \in Worker \ {a} PROVE LeavesNothing(w)'
  <2>1. LeavesNothing(w) /\ del'[w] = del[w] /\ (del[w].pc # "idle" => del[w].job \in Job)
    BY DEF RetryInv, Agent
  <2> QED BY <2>1 DEF LeavesNothing
<1> QED BY <1>1, <1>2

\* The steps of a deletion.
LEMMA DropRetry ==
    ASSUME DeletionTypeOK, RetryInv, NEW a \in Agent, DropStep(a)
    PROVE  RetryInv'
<1>0. /\ jobs \in [Job -> Row] /\ del \in [Agent -> AgentType] /\ del[a] \in AgentType
      /\ \A b \in Agent : del[b].pc # "idle" => del[b].job \in Job
      /\ RestoresEnd /\ InHand(a) /\ (a \in Worker => LeavesNothing(a))
  BY DEF DeletionTypeOK, AgentType, RetryInv, Agent
<1> DEFINE j == del[a].job
<1>1. ASSUME NEW pc \in {"protect", "staging", "target", "end"}, NEW error, Deleting(a, pc, error)
      PROVE  /\ \A b \in Agent \ {a} : del'[b] = del[b]
             /\ del'[a].pc = pc /\ del'[a].error = error
             /\ del'[a].role = del[a].role /\ del'[a].job = j
  BY <1>0, <1>1 DEF Deleting, AgentType
<1>2. ASSUME UNCHANGED <<jobs, restore, hostKnown>>, db' = db \/ db' \notin Job, del[a].pc # "idle",
             NEW pc \in {"protect", "staging", "target", "end"}, NEW error, Deleting(a, pc, error),
             a \in Worker /\ pc = "end" /\ error = "none" /\ hostKnown => db' # j
      PROVE  RetryInv'
  <2>1. RestoresEnd' /\ \A k \in Job : NoLonger(k) => NoLonger(k)'
    BY <1>0, <1>2 DEF RestoresEnd, NoLonger, Over
  <2>2. /\ \A b \in Agent \ {a} : InHand(b)'
        /\ \A w \in Worker \ {a} : LeavesNothing(w)'
    BY <1>0, <1>1, <1>2, <2>1, OthersRetry
  <2>3. InHand(a)'
    BY <1>0, <1>1, <1>2, <2>1 DEF InHand
  <2>4. a \in Worker => LeavesNothing(a)'
    BY <1>0, <1>1, <1>2 DEF LeavesNothing
  <2> QED BY <2>1, <2>2, <2>3, <2>4 DEF RetryInv
<1>3. CASE MarkDeleting(a)
  <2> DEFINE row == [jobs[j] EXCEPT !.status = "deleting", !.stale = FALSE, !.retry = @ + 1]
  <2>1. /\ j \in Job /\ NoLonger(j) /\ a \notin Worker
        /\ Set(j, row) /\ UNCHANGED <<db, restore, hostKnown>>
    BY <1>0, <1>3 DEF MarkDeleting, hostVars, InHand, LeavesNothing
  <2>2. row \in Row /\ row.status = "deleting" /\ row.cancelReq = jobs[j].cancelReq
    <3>1. jobs[j] \in Row /\ jobs[j].retry + 1 \in Nat
      BY <1>0, <2>1 DEF Row
    <3> QED BY <3>1 DEF Row, Status
  <2>3. RestoresEnd' /\ \A k \in Job : NoLonger(k) => NoLonger(k)'
    BY <1>0, <2>1, <2>2, SetRetry
  <2>4. /\ \A b \in Agent \ {a} : del'[b] = del[b]
        /\ del'[a].pc = "idle" \/ del'[a].job = j
    <3>1. CASE Leave(a)
      BY <1>0, <3>1, AgentLeaves
    <3>2. CASE \E pc \in {"end", "protect"} : Deleting(a, pc, "none")
      BY <1>1, <3>2
    <3> QED BY <1>3, <3>1, <3>2 DEF MarkDeleting
  <2>5. InHand(a)'
    BY <2>1, <2>3, <2>4 DEF InHand
  <2> QED BY <1>0, <2>1, <2>3, <2>4, <2>5, OthersRetry DEF RetryInv
<1>4. CASE CheckProtection(a)
  <2>1. /\ UNCHANGED <<jobs, db, restore, hostKnown>> /\ del[a].pc = "protect"
        /\ \E error \in {"none", "blocked", "raised"} : Deleting(a, "staging", error)
    BY <1>4 DEF CheckProtection, hostVars
  <2> QED BY <1>2, <2>1
<1>5. CASE DropStaging(a)
  <2>1. /\ UNCHANGED <<jobs, db, restore, hostKnown>> /\ del[a].pc = "staging"
        /\ \/ Deleting(a, "target", del[a].error)
           \/ ~hostKnown /\ Deleting(a, "end", "none")
           \/ Deleting(a, "end", "failed")
    BY <1>5 DEF DropStaging
  <2> QED BY <1>2, <2>1
<1>6. CASE DropTarget(a)
  <2>1. /\ UNCHANGED <<jobs, restore, hostKnown>> /\ del[a].pc = "target"
        /\ db' = db \/ db' = Nothing
    BY <1>6 DEF DropTarget
  <2>2. PICK error : Deleting(a, "end", error) /\ (error = "none" => db' \notin Job)
    <3>1. Nothing \notin Job
      BY DeletionAssumption
    <3> QED BY <1>6, <3>1 DEF DropTarget, MayDrop
  <2>3. j \in Job /\ Nothing \notin Job
    BY <1>0, <2>1, DeletionAssumption
  <2> QED BY <1>2, <2>1, <2>2, <2>3
<1> QED BY <1>3, <1>4, <1>5, <1>6 DEF DropStep

\* Requests, claims and ends.
LEMMA EndRetry ==
    ASSUME DeletionTypeOK, RetryInv, NEW a \in Agent,
           \/ a \in Client /\ \E role \in {"web", "bulk"}, j \in Job : RequestDelete(a, role, j)
           \/ a \in Client /\ FinishRequest(a)
           \/ ClaimStale(a) \/ LookForOwn(a) \/ FinishRetry(a) \/ AgentDies(a)
    PROVE  RetryInv'
<1>0. /\ jobs \in [Job -> Row] /\ del \in [Agent -> AgentType] /\ del[a] \in AgentType
      /\ \A b \in Agent : del[b].pc # "idle" => del[b].job \in Job
      /\ RestoresEnd /\ InHand(a) /\ (a \in Worker => LeavesNothing(a))
      /\ {"deleted", "failed"} \subseteq Status \ {"absent", "queued", "running"}
  BY DEF DeletionTypeOK, AgentType, RetryInv, Agent, Status
<1>1. UNCHANGED <<db, restore, hostKnown>>
  BY DEF RequestDelete, FinishRequest, ClaimStale, LookForOwn, FinishRetry, AgentDies, hostVars
<1>2. RestoresEnd' /\ \A k \in Job : NoLonger(k) => NoLonger(k)'
  <2>1. CASE UNCHANGED jobs
    BY <1>0, <1>1, <2>1 DEF RestoresEnd, NoLonger, Over
  <2>2. ASSUME del[a].pc # "idle",
               SetStatus(del[a].job, "deleted") \/ SetStatus(del[a].job, "failed")
        PROVE  RestoresEnd' /\ \A k \in Job : NoLonger(k) => NoLonger(k)'
    <3>1. del[a].job \in Job /\ NoLonger(del[a].job)
      BY <1>0, <2>2 DEF InHand
    <3> QED BY <1>0, <1>1, <2>2, <3>1, StatusRetry
  <2>3. ASSUME del[a].pc # "idle", Set(del[a].job, [NewRow EXCEPT !.status = "removed"])
        PROVE  RestoresEnd' /\ \A k \in Job : NoLonger(k) => NoLonger(k)'
    <3>1. del[a].job \in Job /\ NoLonger(del[a].job)
      BY <1>0, <2>3 DEF InHand
    <3>2. /\ [NewRow EXCEPT !.status = "removed"] \in Row
          /\ [NewRow EXCEPT !.status = "removed"].status = "removed"
      BY DEF NewRow, Row, Status
    <3> QED BY <1>0, <1>1, <2>3, <3>1, <3>2, SetRetry
  <2>4. CASE ClaimStale(a)
    <3>1. PICK j \in Job : /\ jobs[j].status = "deleting"
                           /\ Set(j, [jobs[j] EXCEPT !.stale = FALSE, !.retry = @ + 1])
      BY <2>4 DEF ClaimStale, Claimable, Having
    <3> DEFINE row == [jobs[j] EXCEPT !.stale = FALSE, !.retry = @ + 1]
    <3>2. row \in Row /\ row.status = jobs[j].status /\ row.cancelReq = jobs[j].cancelReq
      <4>1. jobs[j] \in Row /\ jobs[j].retry + 1 \in Nat
        BY <1>0 DEF Row
      <4> QED BY <4>1 DEF Row
    <3>3. Set(j, row)
      BY <3>1
    <3> HIDE DEF row
    <3> QED BY <1>0, <1>1, <3>2, <3>3, SetRetry
  <2> QED BY <2>1, <2>2, <2>3, <2>4
          DEF RequestDelete, FinishRequest, LookForOwn, FinishRetry, GiveUp, AgentDies
<1>3. ASSUME \A b \in Agent \ {a} : del'[b] = del[b], InHand(a)', a \in Worker => LeavesNothing(a)'
      PROVE  RetryInv'
  BY <1>0, <1>1, <1>2, <1>3, OthersRetry DEF RetryInv
<1>4. CASE Leave(a)
  <2>1. (\A b \in Agent \ {a} : del'[b] = del[b]) /\ del'[a].pc = "idle"
    BY <1>0, <1>4, AgentLeaves
  <2> QED BY <1>3, <2>1 DEF InHand, LeavesNothing
<1>5. ASSUME a \in Client, NEW role \in {"web", "bulk"}, NEW j \in Job, RequestDelete(a, role, j)
      PROVE  RetryInv'
  <2>1. /\ \A b \in Agent \ {a} : del'[b] = del[b]
        /\ del'[a].job = j /\ NoLonger(j)
    BY <1>0, <1>5 DEF RequestDelete, NoLonger
  <2>2. a \notin Worker
    BY <1>5, DeletionAssumption
  <2> QED BY <1>2, <1>3, <2>1, <2>2 DEF InHand
<1>6. CASE ClaimStale(a)
  <2>1. PICK j \in Job : /\ jobs[j].status = "deleting"
                         /\ del' = [del EXCEPT ![a] = [IdleAgent EXCEPT !.pc = "look", !.role = "worker",
                                                  !.job = j, !.tries = jobs[j].retry + 1]]
    BY <1>6 DEF ClaimStale, Claimable, Having
  <2>2. /\ \A b \in Agent \ {a} : del'[b] = del[b]
        /\ del'[a].job = j /\ del'[a].pc = "look" /\ del'[a].role = "worker"
    BY <1>0, <2>1 DEF IdleAgent
  <2>3. NoLonger(j)
    BY <2>1 DEF NoLonger
  <2> QED BY <1>2, <1>3, <2>2, <2>3 DEF InHand, LeavesNothing
<1>7. CASE LookForOwn(a) /\ Deleting(a, "protect", "none")
  <2>1. /\ \A b \in Agent \ {a} : del'[b] = del[b]
        /\ del'[a].job = del[a].job /\ del'[a].pc = "protect" /\ del'[a].role = del[a].role
        /\ del[a].pc = "look"
    BY <1>0, <1>7 DEF LookForOwn, Deleting, AgentType
  <2> QED BY <1>0, <1>2, <1>3, <2>1 DEF InHand, LeavesNothing
<1> QED BY <1>4, <1>5, <1>6, <1>7 DEF FinishRequest, LookForOwn, FinishRetry, AgentDies

LEMMA NextRetryInv ==
    ASSUME DeletionTypeOK, RetryInv, [Anyone]_deletionVars
    PROVE  RetryInv'
<1>0. /\ jobs \in [Job -> Row] /\ RestoresEnd
      /\ \A b \in Agent : del[b].pc # "idle" => del[b].job \in Job
  BY DEF DeletionTypeOK, AgentType, RetryInv
<1>1. ASSUME UNCHANGED <<jobs, restore, del>>, db' = db \/ db' \notin Job, hostKnown' => hostKnown
      PROVE  RetryInv'
  <2>1. RestoresEnd' /\ \A b \in Agent : InHand(b)'
    BY <1>0, <1>1 DEF RetryInv, RestoresEnd, InHand, NoLonger, Over
  <2>2. \A w \in Worker : LeavesNothing(w)'
    BY <1>0, <1>1 DEF RetryInv, LeavesNothing, Agent
  <2> QED BY <2>1, <2>2 DEF RetryInv
<1>2. CASE UNCHANGED deletionVars
  BY <1>1, <1>2 DEF deletionVars
<1>3. ASSUME NEW j \in Job, LifeStep(j) \/ BecomeStale(j) PROVE RetryInv'
  <2>1. /\ RestoresEnd'
        /\ \A k \in Job : NoLonger(k) => NoLonger(k)'
        /\ \A k \in Job : NoLonger(k) /\ db' = k => db = k
        /\ UNCHANGED <<del, hostKnown>>
    BY <1>0, <1>3, LifeRetry
  <2>2. \A b \in Agent : InHand(b)'
    BY <1>0, <2>1 DEF RetryInv, InHand
  <2>3. \A w \in Worker : LeavesNothing(w)'
    BY <1>0, <2>1 DEF RetryInv, InHand, LeavesNothing, Agent
  <2> QED BY <2>1, <2>2, <2>3 DEF RetryInv
<1>4. CASE CreateByHand \/ RemoveHost
  BY <1>1, <1>4, DeletionAssumption DEF CreateByHand, RemoveHost, hostVars, agentVars
<1>5. CASE SweepStepNext
  <2>1. UNCHANGED <<restore, del, hostKnown>> /\ (db' = db \/ db' = Nothing)
    BY <1>5 DEF SweepStepNext, StartSweep, SweepNext, SweepProtect, SweepDrop, SweepRecord,
         EndSweep, SweepStep
  <2>2. UNCHANGED jobs \/ \E j \in Job : Set(j, [jobs[j] EXCEPT !.dropped = TRUE])
    <3>1. sweep.pc = "record" => sweep.job \in Job
      BY DEF DeletionTypeOK
    <3> QED BY <1>5, <3>1 DEF SweepStepNext, StartSweep, SweepNext, SweepProtect, SweepDrop,
               SweepRecord, EndSweep
  <2>3. ASSUME NEW j \in Job, Set(j, [jobs[j] EXCEPT !.dropped = TRUE])
        PROVE  RestoresEnd' /\ \A k \in Job : NoLonger(k) => NoLonger(k)'
    <3> DEFINE row == [jobs[j] EXCEPT !.dropped = TRUE]
    <3>1. row \in Row /\ row.status = jobs[j].status /\ row.cancelReq = jobs[j].cancelReq
      BY <1>0 DEF Row
    <3>2. Set(j, row)
      BY <2>3
    <3> HIDE DEF row
    <3> QED BY <1>0, <2>1, <3>1, <3>2, SetRetry
  <2>4. RestoresEnd' /\ \A k \in Job : NoLonger(k) => NoLonger(k)'
    <3>1. CASE UNCHANGED jobs
      BY <1>0, <2>1, <3>1 DEF RestoresEnd, NoLonger, Over
    <3> QED BY <2>2, <2>3, <3>1
  <2>5. \A b \in Agent : InHand(b)'
    BY <1>0, <2>1, <2>4 DEF RetryInv, InHand
  <2>6. \A w \in Worker : LeavesNothing(w)'
    BY <1>0, <2>1, DeletionAssumption DEF RetryInv, LeavesNothing, Agent
  <2> QED BY <2>4, <2>5, <2>6 DEF RetryInv
<1>6. ASSUME NEW c \in Client, ClientStep(c) PROVE RetryInv'
  BY <1>6, DropRetry, EndRetry DEF ClientStep, Agent
<1>7. ASSUME NEW w \in Worker, RetryStep(w) PROVE RetryInv'
  BY <1>7, DropRetry, EndRetry DEF RetryStep, Agent
<1>8. ASSUME NEW c \in Client, NEW role \in {"web", "bulk"}, NEW j \in Job, RequestDelete(c, role, j)
      PROVE  RetryInv'
  BY <1>8, EndRetry DEF Agent
<1>9. ASSUME NEW a \in Agent, AgentDies(a) PROVE RetryInv'
  BY <1>9, EndRetry
<1> QED BY <1>2, <1>3, <1>4, <1>5, <1>6, <1>7, <1>8, <1>9 DEF Anyone

\* A worker's hands are emptied by its own step, or by its death, which marks
\* nothing deleted.
LEMMA OnlyOwnStep ==
    ASSUME DeletionTypeOK, RetryInv, [Anyone]_deletionVars, NEW w \in Worker,
           del[w].pc # "idle", del'[w].pc = "idle", jobs' # jobs
    PROVE  LookForOwn(w) \/ FinishRetry(w)
<1>0. del \in [Agent -> AgentType] /\ w \in Agent /\ LeavesNothing(w)
  BY DEF DeletionTypeOK, RetryInv, Agent
<1>1. del' # del
  OBVIOUS
<1>2. ASSUME NEW j \in Job, LifeStep(j) \/ BecomeStale(j) PROVE FALSE
  BY <1>1, <1>2, LifeRetry DEF RetryInv
<1>3. CASE CreateByHand \/ RemoveHost \/ SweepStepNext \/ UNCHANGED deletionVars
  BY <1>1, <1>3 DEF CreateByHand, RemoveHost, SweepStepNext, StartSweep, SweepNext, SweepProtect,
        SweepDrop, SweepRecord, EndSweep, SweepStep, agentVars, deletionVars
<1>4. ASSUME NEW c \in Client, NEW role \in {"web", "bulk"}, NEW j \in Job, RequestDelete(c, role, j)
      PROVE  FALSE
  BY <1>4 DEF RequestDelete
<1>5. ASSUME NEW a \in Agent, AgentDies(a) PROVE FALSE
  BY <1>5 DEF AgentDies
<1>6. ASSUME NEW a \in Agent, a # w,
             DropStep(a) \/ FinishRequest(a) \/ ClaimStale(a) \/ LookForOwn(a) \/ FinishRetry(a)
      PROVE  FALSE
  <2>1. del'[w] = del[w]
    BY <1>0, <1>6 DEF DropStep, MarkDeleting, CheckProtection, DropStaging, DropTarget,
       FinishRequest, ClaimStale, LookForOwn, FinishRetry, Leave, Deleting
  <2> QED BY <2>1
<1>7. ASSUME DropStep(w) PROVE FALSE
  <2>1. del[w].pc \in {"protect", "staging", "target"} => UNCHANGED jobs
    BY <1>7 DEF DropStep, MarkDeleting, CheckProtection, DropStaging, DropTarget
  <2>2. del[w].pc # "mark"
    BY <1>0 DEF LeavesNothing
  <2> QED BY <1>7, <2>1, <2>2 DEF DropStep, MarkDeleting, CheckProtection, DropStaging, DropTarget
<1>8. ASSUME NEW c \in Client, ClientStep(c) PROVE FALSE
  <2>1. c \in Agent /\ c # w
    BY DeletionAssumption DEF Agent
  <2> QED BY <1>6, <1>8, <2>1 DEF ClientStep
<1>9. ASSUME NEW v \in Worker, RetryStep(v) PROVE LookForOwn(w) \/ FinishRetry(w)
  <2>1. v \in Agent
    BY DEF Agent
  <2> QED BY <1>6, <1>7, <1>9, <2>1 DEF RetryStep, ClaimStale
<1> QED BY <1>2, <1>3, <1>4, <1>5, <1>8, <1>9 DEF Anyone

\* However many workers, handlers and sweeps act on the target, with faults and
\* deaths, and however late after its check anyone drops: a retry that marks its
\* job deleted has left no target database that the job restored.  Nothing keeps
\* another agent from doing the same deletion at the same time.
THEOREM RetrySafe == DeletionSpec => RetryLeavesNoTarget
<1>1. DeletionInit => RetryInv
  BY DEF DeletionInit, RetryInv, RestoresEnd, InHand, LeavesNothing, NewRow, IdleAgent,
         NoLonger, Over, Agent
<1>2. DeletionTypeOK /\ RetryInv /\ [Anyone]_deletionVars => RetryInv'
  BY NextRetryInv
<1>3. ASSUME DeletionTypeOK, RetryInv, [Anyone]_deletionVars,
             NEW w \in Worker, del[w].pc \in {"look", "end"}, del'[w].pc = "idle", hostKnown,
             jobs[del[w].job].status # "deleted", jobs'[del[w].job].status = "deleted"
      PROVE  db # del[w].job
  <2>0. /\ jobs \in [Job -> Row] /\ del \in [Agent -> AgentType] /\ w \in Agent
        /\ LeavesNothing(w) /\ del[w].job \in Job
    BY <1>3 DEF DeletionTypeOK, AgentType, RetryInv, Agent
  <2>1. LookForOwn(w) \/ FinishRetry(w)
    BY <1>3, <2>0, OnlyOwnStep
  <2>2. ~GiveUp(w)
    <3>1. [jobs[del[w].job] EXCEPT !.status = "failed"].status = "failed"
      BY <2>0 DEF Row
    <3> QED BY <1>3, <2>0, <3>1 DEF GiveUp, SetStatus, Set
  <2>3. CASE LookForOwn(w)
    <3>1. ~Deleting(w, "protect", "none")
      BY <1>3, <2>0, AgentMoves
    <3>2. jobs' # jobs
      BY <1>3
    <3> QED BY <1>3, <2>2, <2>3, <3>1, <3>2 DEF LookForOwn, Owns
  <2>4. CASE FinishRetry(w)
    BY <1>3, <2>0, <2>2, <2>4 DEF FinishRetry, LeavesNothing
  <2> QED BY <2>1, <2>3, <2>4
<1>4. DeletionTypeOK /\ RetryInv /\ [Anyone]_deletionVars
        => [\A w \in Worker : del[w].pc \in {"look", "end"} /\ del'[w].pc = "idle" /\ hostKnown =>
              LET j == del[w].job
              IN  jobs[j].status # "deleted" /\ jobs'[j].status = "deleted"
                     => db # j]_deletionVars
  BY <1>3
<1> QED BY <1>1, <1>2, <1>4, NextIsAnyones, DeletionTypeCorrect, PTL DEF DeletionSpec, RetryLeavesNoTarget
=============================================================================
