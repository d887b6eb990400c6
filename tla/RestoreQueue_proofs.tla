------------------------- MODULE RestoreQueue_proofs -------------------------
(***************************************************************************)
(* Theorems about RestoreQueue, for every number of jobs, workers, clients, *)
(* hosts and targets, every capacity and any number of crashes.            *)
(*                                                                         *)
(* All of it holds of every deployment: the types, the capacity of a host  *)
(* and the exclusive execution of a job; then what is left of a target's   *)
(* data when sweeps, recoveries and the API give verdicts on jobs whose    *)
(* workers go on.  What only an orderly fleet has is left to TLC.          *)
(***************************************************************************)
EXTENDS RestoreQueue, FiniteSetTheorems, TLAPS

-----------------------------------------------------------------------------
(* Facts about the constants and the updates of the jobs table *)

\* Job identifiers are positive, so NoJob is not one of them.
LEMMA JobFacts == Job \subseteq Nat /\ NoJob \notin Job /\ IsFiniteSet(Job)
  BY MaxJobAssumption, FS_Interval DEF Job, NoJob

\* A new row, in any status, is a row.
LEMMA NewRowType ==
  ASSUME NEW s \in Status, NEW p \in Place
  PROVE  NewRow(s, p) \in Row
  BY DEF NewRow, Row

\* Every UPDATE of a row leaves a table of rows.
LEMMA UpdateType ==
  ASSUME NEW T \in [Job -> Row], NEW j \in Job
  PROVE  /\ MarkDeployed(T, j) \in [Job -> Row]
         /\ MarkFailed(T, j) \in [Job -> Row]
         /\ MarkCanceled(T, j) \in [Job -> Row]
         /\ MarkCanceling(T, j) \in [Job -> Row]
         /\ RequestCancellation(T, j) \in [Job -> Row]
  <1>1. MarkDeployed(T, j) \in [Job -> Row] /\ MarkFailed(T, j) \in [Job -> Row]
    BY DEF MarkDeployed, MarkFailed, Row, Status
  <1>2. MarkCanceled(T, j) \in [Job -> Row] /\ MarkCanceling(T, j) \in [Job -> Row]
    BY DEF MarkCanceled, MarkCanceling, Row, Status
  <1>3. RequestCancellation(T, j) \in [Job -> Row]
    BY DEF RequestCancellation, Row
  <1> QED BY <1>1, <1>2, <1>3

\* So does every UPDATE in which a worker writes its name.
LEMMA WorkerUpdateType ==
  ASSUME NEW T \in [Job -> Row], NEW j \in Job, NEW w \in Worker
  PROVE  /\ Claimed(T, j, w) \in [Job -> Row]
         /\ LockForRestore(T, j, w) \in [Job -> Row]
         /\ MarkStaleFailed(T, j, w) \in [Job -> Row]
  BY DEF Claimed, LockForRestore, MarkStaleFailed, Row, Status

-----------------------------------------------------------------------------
(* Type correctness *)

\* A worker's move keeps the types of its program counter and its job.
LEMMA GotoType ==
  ASSUME TypeOK, NEW w \in Worker, NEW phase \in Phase, NEW j \in Job \cup {NoJob},
         j = NoJob <=> phase \in {"down", "startup", "idle"},
         Goto(w, phase, j)
  PROVE  /\ pc' \in [Worker -> Phase]
         /\ task' \in [Worker -> Job \cup {NoJob}]
         /\ \A v \in Worker : task'[v] = NoJob <=> pc'[v] \in {"down", "startup", "idle"}
  BY DEF TypeOK, Goto

\* A worker in a phase that works on a job has one.
LEMMA TaskIsJob ==
  ASSUME TypeOK, NEW w \in Worker, pc[w] \notin {"down", "startup", "idle"}
  PROVE  task[w] \in Job
  BY DEF TypeOK

\* Dropping the orphans of a target keeps the type of staging.
LEMMA OrphansType ==
  ASSUME TypeOK, NEW p
  PROVE  WithoutOrphans(p) \in [Job -> {"none", "partial", "full"}]
  BY DEF TypeOK, WithoutOrphans

\* The initial state is well typed.
LEMMA InitType == Init => TypeOK
  <1> SUFFICES ASSUME Init PROVE TypeOK
    OBVIOUS
  <1>1. (CHOOSE p \in Place : TRUE) \in Place
    <2>1. \E p \in Place : TRUE
      <3>1. PICK n \in Name, h \in Host : TRUE
        BY PlaceAssumption
      <3>2. <<n, h>> \in Place
        BY DEF Place
      <3> QED BY <3>2
    <2> QED BY <2>1
  <1>2. jobs \in [Job -> Row]
    BY <1>1, NewRowType DEF Init, EmptyTable, Status
  <1>3. pc \in [Worker -> Phase] /\ task \in [Worker -> Job \cup {NoJob}]
    BY DEF Init, Phase
  <1>4. NoRequest \in RequestType
    BY DEF NoRequest, RequestType
  <1>5. req \in [Client -> RequestType]
    BY <1>4 DEF Init
  <1>6. \A c \in Client : req[c].stage # "read" => req[c].job # NoJob
    BY DEF Init, NoRequest
  <1>7. crashes \in 0 .. MaxCrash /\ closes \in 0 .. MaxClose
    BY BoundsAssumption DEF Init
  <1> QED BY <1>2, <1>3, <1>5, <1>6, <1>7 DEF Init, TypeOK

\* A submission, accepted or refused, keeps every type.
LEMMA SubmitKeepsType ==
  ASSUME TypeOK, NEW p \in Place, NEW overwrite \in BOOLEAN,
         Submit(p, overwrite) \/ SubmitRefused(p, overwrite)
  PROVE  TypeOK'
  <1>1. WithOldSuperseded(p, overwrite) \in [Job -> Row]
    <2>1. Supersede(jobs, Newest(Deployed(jobs, p))) \in [Job -> Row]
      BY DEF TypeOK, Supersede, Row, Status
    <2> QED BY <2>1 DEF TypeOK, WithOldSuperseded
  <1>2. jobs' \in [Job -> Row]
    <2>1. CASE Submit(p, overwrite)
      <3>1. PICK j \in Job : jobs' = InsertQueued(WithOldSuperseded(p, overwrite), j, p)
        BY <2>1 DEF Submit
      <3> QED BY <3>1, <1>1, NewRowType DEF InsertQueued, Status
    <2>2. CASE SubmitRefused(p, overwrite)
      BY <1>1, <2>2 DEF SubmitRefused
    <2> QED BY <2>1, <2>2
  <1> QED BY <1>2 DEF TypeOK, Submit, SubmitRefused, workerVars, targetVars, adminVars

\* A step of a cancel request keeps every type.
LEMMA ClientKeepsType ==
  ASSUME TypeOK, NEW c \in Client, ClientStep(c)
  PROVE  TypeOK'
  <1>1. CASE \E path \in CancelPaths, j \in Job : CancelRead(c, path, j)
    <2>1. PICK path \in CancelPaths, j \in Job : CancelRead(c, path, j)
      BY <1>1
    <2>2. /\ req' \in [Client -> RequestType]
          /\ \A d \in Client : req'[d].stage # "read" => req'[d].job # NoJob
      BY <2>1, PathsAssumption, JobFacts DEF CancelRead, TypeOK, RequestType
    <2> QED
      BY <2>1, <2>2 DEF CancelRead, TypeOK, workerVars, targetVars, adminVars
  <1>2. ASSUME NEW more \in BOOLEAN, CancelNext(c, more),
               req[c].stage # "read"
        PROVE  /\ req' \in [Client -> RequestType]
               /\ \A d \in Client : req'[d].stage # "read" => req'[d].job # NoJob
    BY <1>2 DEF CancelNext, TypeOK, RequestType, NoRequest
  <1>3. ASSUME req[c].stage # "read"
        PROVE  req[c].job \in Job
    BY <1>3 DEF TypeOK, RequestType
  <1>4. CASE WebCancel(c)
    <2>1. jobs' \in [Job -> Row]
      BY <1>3, <1>4, UpdateType DEF WebCancel, TypeOK
    <2>2. /\ req' \in [Client -> RequestType]
          /\ \A d \in Client : req'[d].stage # "read" => req'[d].job # NoJob
      BY <1>2, <1>4 DEF WebCancel
    <2> QED
      BY <1>4, <2>1, <2>2 DEF WebCancel, TypeOK, workerVars, targetVars, adminVars
  <1>5. CASE ApiCancel(c)
    <2>1. jobs' \in [Job -> Row]
      BY <1>3, <1>5, UpdateType DEF ApiCancel, TypeOK
    <2>2. /\ req' \in [Client -> RequestType]
          /\ \A d \in Client : req'[d].stage # "read" => req'[d].job # NoJob
      BY <1>2, <1>5 DEF ApiCancel
    <2> QED
      BY <1>5, <2>1, <2>2 DEF ApiCancel, TypeOK, workerVars, targetVars, adminVars
  <1>6. CASE CancelMark(c)
    <2>1. jobs' \in [Job -> Row]
      BY <1>3, <1>6, UpdateType DEF CancelMark, TypeOK
    <2>2. /\ req' \in [Client -> RequestType]
          /\ \A d \in Client : req'[d].stage # "read" => req'[d].job # NoJob
      BY <1>2, <1>6 DEF CancelMark
    <2> QED
      BY <1>6, <2>1, <2>2 DEF CancelMark, TypeOK, workerVars, targetVars, adminVars
  <1> QED BY <1>1, <1>4, <1>5, <1>6 DEF ClientStep

\* Starting, sweeping and claiming keep every type.
LEMMA ClaimKeepsType ==
  ASSUME TypeOK, NEW w \in Worker,
         \/ Start(w) \/ FailZombie(w) \/ ClaimSelect(w) \/ ClaimCommit(w)
  PROVE  TypeOK'
  <1>1. CASE Start(w)
    <2>1. zombies' \subseteq Job
      BY <1>1 DEF Start, TypeOK, InStatus
    <2>2. PICK phase \in {"idle", "startup"} : Goto(w, phase, NoJob)
      BY <1>1 DEF Start
    <2> QED
      BY <1>1, <2>1, <2>2, GotoType DEF Start, TypeOK, targetVars, adminVars, Phase
  <1>2. CASE FailZombie(w)
    <2>1. PICK j \in zombies : /\ jobs' = MarkFailed(jobs, j)
                               /\ staging' \in {staging, WithoutOrphans(jobs[j].place)}
                               /\ zombies' = zombies \ {j}
      BY <1>2 DEF FailZombie
    <2>2. j \in Job
      BY DEF TypeOK
    <2>3. jobs' \in [Job -> Row]
      BY <2>1, <2>2, UpdateType DEF TypeOK
    <2>4. staging' \in [Job -> {"none", "partial", "full"}]
      BY <2>1, OrphansType DEF TypeOK
    <2>5. PICK phase \in {"idle", "startup"} : Goto(w, phase, NoJob)
      BY <1>2 DEF FailZombie
    <2>6. zombies' \subseteq Job
      BY <2>1 DEF TypeOK
    <2> QED
      BY <1>2, <2>3, <2>4, <2>5, <2>6, GotoType DEF FailZombie, TypeOK, adminVars, Phase
  <1>3. CASE ClaimSelect(w)
    <2>1. PICK j \in Claimable : Goto(w, "claiming", j)
      BY <1>3 DEF ClaimSelect
    <2>2. j \in Job /\ j # NoJob
      BY JobFacts DEF Claimable, InStatus
    <2> QED
      BY <1>3, <2>1, <2>2, GotoType
         DEF ClaimSelect, TypeOK, targetVars, adminVars, Phase
  <1>4. CASE ClaimCommit(w)
    <2>1. task[w] \in Job /\ task[w] # NoJob
      BY <1>4, TaskIsJob, JobFacts DEF ClaimCommit
    <2>2. jobs' \in [Job -> Row]
      BY <1>4, <2>1, WorkerUpdateType DEF ClaimCommit, TypeOK
    <2> QED
      BY <1>4, <2>1, <2>2, GotoType
         DEF ClaimCommit, TypeOK, targetVars, adminVars, Phase, Execute
  <1> QED BY <1>1, <1>2, <1>3, <1>4

\* Executing a job keeps every type.
LEMMA ExecuteKeepsType ==
  ASSUME TypeOK, NEW w \in Worker,
         \/ CancelAtCheckpoint(w) \/ PassCheckpoint(w) \/ EnterRestore(w)
         \/ BeginLoad(w) \/ FinishLoad(w) \/ RenameIntoTarget(w) \/ FinishJob(w)
         \/ FailJob(w) \/ FailJobAgain(w)
  PROVE  TypeOK'
  <1>0. task[w] \in Job /\ task[w] # NoJob
    <2>1. pc[w] \notin {"down", "startup", "idle"}
      BY DEF CancelAtCheckpoint, PassCheckpoint, EnterRestore, BeginLoad, FinishLoad,
             RenameIntoTarget, FinishJob, FailJob, FailJobAgain, Execute, Restore
    <2> QED BY <2>1, TaskIsJob, JobFacts
  <1>1. CASE CancelAtCheckpoint(w)
    <2>1. jobs' \in [Job -> Row]
      BY <1>0, <1>1, UpdateType DEF CancelAtCheckpoint, TypeOK
    <2> QED
      BY <1>1, <2>1, GotoType DEF CancelAtCheckpoint, TypeOK, targetVars, adminVars, Phase
  <1>2. CASE PassCheckpoint(w)
    BY <1>0, <1>2, GotoType
       DEF PassCheckpoint, TypeOK, targetVars, adminVars, Phase, Execute
  <1>3. CASE EnterRestore(w)
    <2>1. \/ jobs' = LockForRestore(jobs, task[w], w) /\ Goto(w, "restore", task[w])
          \/ jobs' = MarkCanceled(jobs, task[w]) /\ Goto(w, "idle", NoJob)
      BY <1>3 DEF EnterRestore
    <2>2. jobs' \in [Job -> Row]
      <3>1. LockForRestore(jobs, task[w], w) \in [Job -> Row]
        BY <1>0, WorkerUpdateType DEF TypeOK
      <3>2. MarkCanceled(jobs, task[w]) \in [Job -> Row]
        BY <1>0, UpdateType DEF TypeOK
      <3> QED BY <2>1, <3>1, <3>2
    <2>3. /\ pc' \in [Worker -> Phase]
          /\ task' \in [Worker -> Job \cup {NoJob}]
          /\ \A v \in Worker : task'[v] = NoJob <=> pc'[v] \in {"down", "startup", "idle"}
      <3>1. CASE Goto(w, "restore", task[w])
        BY <1>0, <3>1, GotoType DEF Phase, Execute, Restore
      <3>2. CASE Goto(w, "idle", NoJob)
        BY <3>2, GotoType DEF Phase
      <3> QED BY <2>1, <3>1, <3>2
    <2> QED
      BY <1>3, <2>2, <2>3 DEF EnterRestore, TypeOK, targetVars, adminVars
  <1>4. CASE BeginLoad(w)
    <2>1. staging' \in [Job -> {"none", "partial", "full"}]
      BY <1>4, OrphansType DEF BeginLoad
    <2> QED
      BY <1>0, <1>4, <2>1, GotoType
         DEF BeginLoad, TypeOK, adminVars, Phase, Execute, Restore
  <1>5. CASE FinishLoad(w)
    <2>1. staging' \in [Job -> {"none", "partial", "full"}]
      BY <1>5 DEF FinishLoad, TypeOK
    <2> QED
      BY <1>0, <1>5, <2>1, GotoType
         DEF FinishLoad, TypeOK, adminVars, Phase, Execute, Restore
  <1>6. CASE RenameIntoTarget(w)
    <2>1. staging' \in [Job -> {"none", "partial", "full"}]
      BY <1>6 DEF RenameIntoTarget, TypeOK
    <2>2. db' \in [Place -> Job \cup {NoJob}]
      BY <1>0, <1>6 DEF RenameIntoTarget, TypeOK
    <2> QED
      BY <1>0, <1>6, <2>1, <2>2, GotoType
         DEF RenameIntoTarget, TypeOK, adminVars, Phase, Execute, Restore
  <1>7. CASE FinishJob(w)
    <2>1. jobs' \in [Job -> Row]
      BY <1>0, <1>7, UpdateType DEF FinishJob, TypeOK
    <2> QED
      BY <1>7, <2>1, GotoType DEF FinishJob, TypeOK, targetVars, adminVars, Phase
  <1>8. CASE FailJob(w)
    <2>1. jobs' \in [Job -> Row]
      BY <1>0, <1>8, UpdateType DEF FailJob, TypeOK
    <2>2. db' \in [Place -> Job \cup {NoJob}]
      BY <1>8 DEF FailJob, TypeOK
    <2> QED
      BY <1>0, <1>8, <2>1, <2>2, GotoType DEF FailJob, TypeOK, adminVars, Phase
  <1>9. CASE FailJobAgain(w)
    <2>1. jobs' \in [Job -> Row]
      BY <1>0, <1>9, UpdateType DEF FailJobAgain, TypeOK
    <2> QED
      BY <1>9, <2>1, GotoType DEF FailJobAgain, TypeOK, targetVars, adminVars, Phase
  <1> QED BY <1>1, <1>2, <1>3, <1>4, <1>5, <1>6, <1>7, <1>8, <1>9

\* Recovering a job keeps every type.
LEMMA RecoverKeepsType ==
  ASSUME TypeOK, NEW w \in Worker,
         \/ RecoverSelect(w) \/ RecoverConfirm(w) \/ RecoverGiveUp(w)
         \/ RecoverDrop(w) \/ RecoverMark(w)
  PROVE  TypeOK'
  <1>1. CASE RecoverSelect(w)
    <2>1. PICK j \in Job : Goto(w, "verify", j)
      BY <1>1 DEF RecoverSelect, InStatus
    <2> QED
      BY <1>1, <2>1, JobFacts, GotoType
         DEF RecoverSelect, TypeOK, targetVars, adminVars, Phase
  <1>2. CASE RecoverConfirm(w) \/ RecoverGiveUp(w)
    <2>1. task[w] \in Job /\ task[w] # NoJob
      BY <1>2, TaskIsJob, JobFacts DEF RecoverConfirm, RecoverGiveUp
    <2> QED
      BY <1>2, <2>1, GotoType
         DEF RecoverConfirm, RecoverGiveUp, TypeOK, targetVars, adminVars, Phase
  <1>3. CASE RecoverDrop(w)
    <2>1. task[w] \in Job /\ task[w] # NoJob
      BY <1>3, TaskIsJob, JobFacts DEF RecoverDrop
    <2>2. staging' \in [Job -> {"none", "partial", "full"}]
      BY <1>3 DEF RecoverDrop, TypeOK
    <2> QED
      BY <1>3, <2>1, <2>2, GotoType DEF RecoverDrop, TypeOK, adminVars, Phase
  <1>4. CASE RecoverMark(w)
    <2>1. task[w] \in Job
      BY <1>4, TaskIsJob DEF RecoverMark
    <2>2. jobs' \in [Job -> Row]
      BY <1>4, <2>1, WorkerUpdateType DEF RecoverMark, TypeOK
    <2> QED
      BY <1>4, <2>2, GotoType DEF RecoverMark, TypeOK, targetVars, adminVars, Phase
  <1> QED BY <1>1, <1>2, <1>3, <1>4

\* A crash and the opening and closing of hosts keep every type.
LEMMA EnvironmentKeepsType ==
  ASSUME TypeOK,
         \/ \E w \in Worker : Crash(w)
         \/ \E h \in Host : CloseHost(h) \/ OpenHost(h)
  PROVE  TypeOK'
  <1>1. ASSUME NEW w \in Worker, Crash(w) PROVE TypeOK'
    <2>1. crashes' \in 0 .. MaxCrash
      BY <1>1, BoundsAssumption DEF Crash, TypeOK
    <2>2. zombies' \subseteq Job
      BY <1>1 DEF Crash, TypeOK
    <2> QED
      BY <1>1, <2>1, <2>2, GotoType DEF Crash, TypeOK, targetVars, adminVars, Phase
  <1>2. ASSUME NEW h \in Host, CloseHost(h) PROVE TypeOK'
    <2>1. closes' \in 0 .. MaxClose
      BY <1>2, BoundsAssumption DEF CloseHost, TypeOK
    <2>2. open' \subseteq Host
      BY <1>2 DEF CloseHost, TypeOK
    <2> QED BY <1>2, <2>1, <2>2 DEF CloseHost, TypeOK, workerVars, targetVars
  <1>3. ASSUME NEW h \in Host, OpenHost(h) PROVE TypeOK'
    <2>1. open' \subseteq Host
      BY <1>3 DEF OpenHost, TypeOK
    <2> QED BY <1>3, <2>1 DEF OpenHost, TypeOK, workerVars, targetVars
  <1> QED BY <1>1, <1>2, <1>3

\* Type correctness: every variable keeps its type, and a worker holds a job
\* exactly in the phases that work on one.
THEOREM TypeCorrect == Spec => []TypeOK
  <1>1. TypeOK /\ [Next]_vars => TypeOK'
    <2> SUFFICES ASSUME TypeOK, [Next]_vars PROVE TypeOK'
      OBVIOUS
    <2>1. ASSUME NEW w \in Worker, WorkerStep(w) PROVE TypeOK'
      BY <2>1, ClaimKeepsType, ExecuteKeepsType, RecoverKeepsType DEF WorkerStep
    <2>2. CASE UNCHANGED vars
      BY <2>2 DEF vars, TypeOK
    <2> QED
      BY <2>1, <2>2, SubmitKeepsType, ClientKeepsType, EnvironmentKeepsType DEF Next
  <1> QED BY InitType, <1>1, PTL DEF Spec

-----------------------------------------------------------------------------
(* Capacity and exclusion *)

Waiting == {"absent", "queued"}

\* No step from table T to table U starts a job, moves a running one or puts
\* one back in the queue.
Settles(T, U) ==
    \A j \in Job :
        /\ U[j].status = "running" => T[j].status = "running" /\ U[j].place = T[j].place
        /\ T[j].status \notin Waiting => U[j].status \notin Waiting

\* A set of running jobs is finite.
LEMMA RunningFinite ==
  ASSUME NEW T, NEW h
  PROVE  /\ IsFiniteSet(RunningOn(T, h))
         /\ Cardinality(RunningOn(T, h)) \in Nat
  <1>1. RunningOn(T, h) \subseteq Job
    BY DEF RunningOn, InStatus
  <1> QED BY <1>1, JobFacts, FS_Subset, FS_CardinalityType

\* A step that starts no job leaves every host with no more running jobs.
LEMMA SettledCapacity ==
  ASSUME NEW T, NEW U, Settles(T, U), NEW h
  PROVE  Cardinality(RunningOn(U, h)) <= Cardinality(RunningOn(T, h))
  <1>1. RunningOn(U, h) \subseteq RunningOn(T, h)
    BY DEF Settles, RunningOn, InStatus, HostOf
  <1> QED BY <1>1, RunningFinite, FS_Subset

\* The UPDATEs that end, cancel or supersede a job start none.
LEMMA UpdateSettles ==
  ASSUME NEW T \in [Job -> Row], NEW j \in Job, T[j].status \notin Waiting
  PROVE  /\ Settles(T, MarkDeployed(T, j))
         /\ Settles(T, MarkFailed(T, j))
         /\ Settles(T, MarkCanceled(T, j))
         /\ \A w \in Worker : Settles(T, LockForRestore(T, j, w))
         /\ \A w \in Worker : Settles(T, MarkStaleFailed(T, j, w))
  <1>1. Settles(T, MarkDeployed(T, j)) /\ Settles(T, MarkFailed(T, j))
    BY DEF Settles, Waiting, MarkDeployed, MarkFailed, Row
  <1>2. Settles(T, MarkCanceled(T, j))
    BY DEF Settles, Waiting, MarkCanceled, Row
  <1>3. \A w \in Worker : Settles(T, LockForRestore(T, j, w))
    BY DEF Settles, Waiting, LockForRestore, Row
  <1>4. \A w \in Worker : Settles(T, MarkStaleFailed(T, j, w))
    BY DEF Settles, Waiting, MarkStaleFailed, Row
  <1> QED BY <1>1, <1>2, <1>3, <1>4

\* A cancel request settles, and moves no queued job.
LEMMA CancelSettles ==
  ASSUME NEW T \in [Job -> Row], NEW j \in Job
  PROVE  /\ Settles(T, RequestCancellation(T, j))
         /\ Settles(T, MarkCanceling(T, j))
         /\ Settles(T, MarkCanceled(T, j))
         /\ \A k \in Job : T[k].status = "queued" =>
               /\ RequestCancellation(T, j)[k].status = "queued"
               /\ RequestCancellation(T, j)[k].place = T[k].place
               /\ MarkCanceling(T, j)[k].status = "queued"
               /\ MarkCanceling(T, j)[k].place = T[k].place
  <1>1. Settles(T, RequestCancellation(T, j)) /\ Settles(T, MarkCanceling(T, j))
    BY DEF Settles, Waiting, RequestCancellation, MarkCanceling, Row
  <1>2. Settles(T, MarkCanceled(T, j))
    BY DEF Settles, Waiting, MarkCanceled, Row
  <1>3. ASSUME NEW k \in Job, T[k].status = "queued"
        PROVE  /\ RequestCancellation(T, j)[k].status = "queued"
               /\ RequestCancellation(T, j)[k].place = T[k].place
    BY <1>3 DEF RequestCancellation, Row
  <1>4. ASSUME NEW k \in Job, T[k].status = "queued"
        PROVE  /\ MarkCanceling(T, j)[k].status = "queued"
               /\ MarkCanceling(T, j)[k].place = T[k].place
    BY <1>4 DEF MarkCanceling, Row
  <1> QED BY <1>1, <1>2, <1>3, <1>4

\* A step that starts no job and lets no worker take a waiting one keeps the
\* inductive invariant.
LEMMA CalmStep ==
  ASSUME QueueInv, TypeOK', Settles(jobs, jobs'),
         \A v \in Worker : pc'[v] = "claiming" =>
             /\ pc[v] = "claiming" /\ task'[v] = task[v]
             /\ jobs'[task[v]].status = "queued"
             /\ jobs'[task[v]].place = jobs[task[v]].place,
         \A v \in Worker : task'[v] # NoJob /\ pc'[v] # "claiming" =>
             jobs[task'[v]].status \notin Waiting,
         \A j \in zombies' : jobs[j].status \notin Waiting,
         \A v \in Worker : pc'[v] \in Execute => pc[v] \in Execute /\ task'[v] = task[v]
  PROVE  QueueInv'
  <1>1. HostCapacity'
    <2> SUFFICES ASSUME NEW h \in Host
                 PROVE  Cardinality(RunningOn(jobs', h)) <= MaxRunning[h]
      BY DEF HostCapacity
    <2>1. Cardinality(RunningOn(jobs, h)) <= MaxRunning[h]
      BY DEF QueueInv, HostCapacity
    <2>2. Cardinality(RunningOn(jobs', h)) <= Cardinality(RunningOn(jobs, h))
      BY SettledCapacity
    <2> QED BY <2>1, <2>2, RunningFinite, MaxRunningAssumption
  <1>2. ClaimsHold'
    <2> SUFFICES ASSUME NEW w \in Worker, pc'[w] = "claiming"
                 PROVE  /\ jobs'[task'[w]].status = "queued"
                        /\ Cardinality(RunningOn(jobs', HostOf(jobs', task'[w])))
                              < MaxRunning[HostOf(jobs', task'[w])]
                        /\ \A v \in Others(w) : pc'[v] = "claiming" =>
                              HostOf(jobs', task'[v]) # HostOf(jobs', task'[w])
      BY DEF ClaimsHold
    <2> DEFINE h == HostOf(jobs, task[w])
    <2>1. HostOf(jobs', task'[w]) = h
      BY DEF HostOf
    <2>2. /\ Cardinality(RunningOn(jobs, h)) < MaxRunning[h]
          /\ \A v \in Others(w) : pc[v] = "claiming" => HostOf(jobs, task[v]) # h
      BY DEF QueueInv, ClaimsHold
    <2>3. Cardinality(RunningOn(jobs', h)) <= Cardinality(RunningOn(jobs, h))
      BY SettledCapacity
    <2>4. h \in Host
      <3>1. task[w] \in Job
        BY TaskIsJob DEF QueueInv
      <3> QED BY <3>1 DEF QueueInv, TypeOK, Row, Place, HostOf
    <2>5. Cardinality(RunningOn(jobs', h)) < MaxRunning[h]
      BY <2>2, <2>3, <2>4, RunningFinite, MaxRunningAssumption
    <2>6. \A v \in Others(w) : pc'[v] = "claiming" => HostOf(jobs', task'[v]) # h
      BY <2>2 DEF HostOf, Others
    <2> QED BY <2>1, <2>5, <2>6
  <1>3. TakenJobsLeftQueue'
    <2>1. \A j \in Job : jobs[j].status \notin Waiting => jobs'[j].status \notin Waiting
      BY DEF Settles
    <2>2. \A v \in Worker : task'[v] # NoJob /\ pc'[v] # "claiming" =>
              jobs'[task'[v]].status \notin Waiting
      BY <2>1 DEF TypeOK
    <2>3. \A j \in zombies' : jobs'[j].status \notin Waiting
      BY <2>1 DEF TypeOK
    <2> QED BY <2>2, <2>3 DEF TakenJobsLeftQueue, Waiting
  <1>4. OneWorkerPerJob'
    BY DEF QueueInv, OneWorkerPerJob
  <1> QED BY <1>1, <1>2, <1>3, <1>4 DEF QueueInv

\* The initial state satisfies the inductive invariant: nothing is running.
LEMMA InitInv == Init => QueueInv
  <1> SUFFICES ASSUME Init PROVE QueueInv
    OBVIOUS
  <1>1. \A j \in Job : jobs[j].status = "absent"
    BY DEF Init, EmptyTable, NewRow
  <1>2. HostCapacity
    <2> SUFFICES ASSUME NEW h \in Host
                 PROVE  Cardinality(RunningOn(jobs, h)) <= MaxRunning[h]
      BY DEF HostCapacity
    <2>1. RunningOn(jobs, h) = {}
      BY <1>1 DEF RunningOn, InStatus
    <2> QED BY <2>1, FS_EmptySet, MaxRunningAssumption
  <1>3. ClaimsHold /\ TakenJobsLeftQueue /\ OneWorkerPerJob
    BY DEF Init, ClaimsHold, TakenJobsLeftQueue, OneWorkerPerJob, Execute, Restore
  <1> QED BY <1>2, <1>3, InitType DEF QueueInv

\* Superseding deployed jobs settles, and moves no other job.
LEMMA SupersedeSettles ==
  ASSUME TypeOK, NEW p \in Place, NEW overwrite \in BOOLEAN
  PROVE  /\ WithOldSuperseded(p, overwrite) \in [Job -> Row]
         /\ Settles(jobs, WithOldSuperseded(p, overwrite))
         /\ \A k \in Job : jobs[k].status \in Waiting =>
               WithOldSuperseded(p, overwrite)[k] = jobs[k]
  <1> DEFINE S == Newest(Deployed(jobs, p))
  <1>1. \A k \in S : jobs[k].status = "deployed"
    BY DEF Newest, Deployed, InStatus
  <1> HIDE DEF S
  <1>2. /\ Supersede(jobs, S) \in [Job -> Row]
        /\ Settles(jobs, Supersede(jobs, S))
        /\ \A k \in Job : jobs[k].status \in Waiting => Supersede(jobs, S)[k] = jobs[k]
    BY <1>1 DEF TypeOK, Supersede, Settles, Waiting, Row, Status
  <1>3. CASE overwrite
    BY <1>2, <1>3 DEF WithOldSuperseded, S
  <1>4. CASE ~overwrite
    BY <1>4 DEF WithOldSuperseded, TypeOK, Settles
  <1> QED BY <1>3, <1>4

\* Submissions keep the inductive invariant.
LEMMA SubmitKeepsInv ==
  ASSUME QueueInv, NEW p \in Place, NEW overwrite \in BOOLEAN,
         Submit(p, overwrite) \/ SubmitRefused(p, overwrite)
  PROVE  QueueInv'
  <1> DEFINE T == WithOldSuperseded(p, overwrite)
  <1>1. TypeOK /\ TypeOK'
    BY SubmitKeepsType DEF QueueInv
  <1>2. /\ T \in [Job -> Row]
        /\ Settles(jobs, T)
        /\ \A k \in Job : jobs[k].status \in Waiting => T[k] = jobs[k]
    BY <1>1, SupersedeSettles
  <1> HIDE DEF T
  <1>3. /\ Settles(jobs, jobs')
        /\ \A k \in Job : jobs[k].status = "queued" => jobs'[k] = jobs[k]
    <2>1. CASE Submit(p, overwrite)
      <3>1. PICK j \in Job : /\ jobs[j].status = "absent"
                             /\ jobs' = [T EXCEPT ![j] = NewRow("queued", p)]
        BY <2>1 DEF Submit, Fresh, InsertQueued, T
      <3> QED BY <1>2, <3>1 DEF Settles, Waiting, NewRow
    <2>2. CASE SubmitRefused(p, overwrite)
      BY <1>2, <2>2 DEF SubmitRefused, Waiting, T
    <2> QED BY <2>1, <2>2
  <1>4. UNCHANGED <<pc, task, zombies>>
    BY DEF Submit, SubmitRefused, workerVars
  <1>5. \A v \in Worker : pc[v] = "claiming" =>
            task[v] \in Job /\ jobs[task[v]].status = "queued"
    BY <1>1, TaskIsJob DEF QueueInv, ClaimsHold
  <1>6. /\ \A v \in Worker : task[v] # NoJob /\ pc[v] # "claiming" =>
              jobs[task[v]].status \notin Waiting
        /\ \A j \in zombies : jobs[j].status \notin Waiting
    BY DEF QueueInv, TakenJobsLeftQueue, Waiting
  <1> QED BY <1>1, <1>3, <1>4, <1>5, <1>6, CalmStep

\* Cancel requests keep the inductive invariant: an UPDATE waits for the row
\* lock of a claim.
LEMMA ClientKeepsInv ==
  ASSUME QueueInv, NEW c \in Client, ClientStep(c)
  PROVE  QueueInv'
  <1>1. TypeOK /\ TypeOK'
    BY ClientKeepsType DEF QueueInv
  <1>2. UNCHANGED <<pc, task, zombies>>
    BY DEF ClientStep, CancelRead, WebCancel, ApiCancel, CancelMark, workerVars
  <1>3. \A v \in Worker : pc[v] = "claiming" =>
            task[v] \in Job /\ jobs[task[v]].status = "queued"
    BY <1>1, TaskIsJob DEF QueueInv, ClaimsHold
  <1>4. /\ \A v \in Worker : task[v] # NoJob /\ pc[v] # "claiming" =>
              jobs[task[v]].status \notin Waiting
        /\ \A j \in zombies : jobs[j].status \notin Waiting
    BY DEF QueueInv, TakenJobsLeftQueue, Waiting
  <1>5. /\ Settles(jobs, jobs')
        /\ \A v \in Worker : pc[v] = "claiming" =>
              jobs'[task[v]].status = "queued" /\ jobs'[task[v]].place = jobs[task[v]].place
    <2>1. CASE \E path \in CancelPaths, j \in Job : CancelRead(c, path, j)
      BY <1>3, <2>1 DEF CancelRead, Settles
    <2>2. ASSUME req[c].stage # "read" PROVE req[c].job \in Job
      BY <1>1, <2>2 DEF TypeOK, RequestType
    <2>3. CASE WebCancel(c)
      <3>1. jobs' = RequestCancellation(jobs, req[c].job) /\ req[c].job \in Job
        BY <2>2, <2>3 DEF WebCancel
      <3> QED BY <1>1, <1>3, <3>1, CancelSettles DEF TypeOK
    <2>4. CASE ApiCancel(c)
      <3>1. req[c].job \in Job
        BY <2>2, <2>4 DEF ApiCancel
      <3>2. \/ jobs' = RequestCancellation(jobs, req[c].job)
            \/ jobs' = MarkCanceling(jobs, req[c].job)
        BY <2>4 DEF ApiCancel
      <3> QED BY <1>1, <1>3, <3>1, <3>2, CancelSettles DEF TypeOK
    <2>5. CASE CancelMark(c)
      <3>1. /\ jobs' = MarkCanceled(jobs, req[c].job)
            /\ req[c].job \in Job
            /\ \A v \in Worker : pc[v] = "claiming" => task[v] # req[c].job
        BY <2>2, <2>5 DEF CancelMark, Locked
      <3>2. Settles(jobs, jobs')
        BY <1>1, <3>1, CancelSettles DEF TypeOK
      <3>3. \A v \in Worker : pc[v] = "claiming" => jobs'[task[v]] = jobs[task[v]]
        BY <1>1, <1>3, <3>1 DEF MarkCanceled, TypeOK
      <3> QED BY <1>3, <3>2, <3>3
    <2> QED BY <2>1, <2>3, <2>4, <2>5 DEF ClientStep
  <1> QED BY <1>1, <1>2, <1>3, <1>4, <1>5, CalmStep

\* A worker that keeps its job in an executing or a recovering phase, or gives
\* it up, takes no waiting job.
LEMMA CalmMove ==
  ASSUME QueueInv, TypeOK', Settles(jobs, jobs'), NEW w \in Worker, pc[w] # "claiming",
         \A v \in Worker \ {w} : pc[v] = "claiming" => jobs'[task[v]] = jobs[task[v]],
         NEW phase \in Phase \ {"claiming"}, NEW j \in Job \cup {NoJob}, Goto(w, phase, j),
         j # NoJob => jobs[j].status \notin Waiting,
         phase \in Execute => pc[w] \in Execute /\ j = task[w],
         \A k \in zombies' : jobs[k].status \notin Waiting
  PROVE  QueueInv'
  <1>1. /\ \A v \in Worker \ {w} : pc'[v] = pc[v] /\ task'[v] = task[v]
        /\ pc'[w] = phase /\ task'[w] = j
    BY DEF QueueInv, TypeOK, Goto
  <1>2. \A v \in Worker : pc'[v] = "claiming" =>
            /\ pc[v] = "claiming" /\ task'[v] = task[v]
            /\ jobs'[task[v]].status = "queued"
            /\ jobs'[task[v]].place = jobs[task[v]].place
    BY <1>1 DEF QueueInv, ClaimsHold
  <1>3. \A v \in Worker : task'[v] # NoJob /\ pc'[v] # "claiming" =>
            jobs[task'[v]].status \notin Waiting
    BY <1>1 DEF QueueInv, TakenJobsLeftQueue, Waiting
  <1>4. \A v \in Worker : pc'[v] \in Execute => pc[v] \in Execute /\ task'[v] = task[v]
    BY <1>1
  <1> QED BY <1>2, <1>3, <1>4, CalmStep

\* What the invariant says of the job a worker has in hand, and of the rows a
\* claim holds.
LEMMA TakenFacts ==
  ASSUME QueueInv, NEW w \in Worker, pc[w] \notin {"down", "startup", "idle", "claiming"}
  PROVE  /\ task[w] \in Job /\ task[w] # NoJob
         /\ jobs[task[w]].status \notin Waiting
         /\ \A v \in Worker : pc[v] = "claiming" => task[v] \in Job /\ task[v] # task[w]
  <1>1. task[w] \in Job /\ task[w] # NoJob
    BY TaskIsJob, JobFacts DEF QueueInv
  <1>2. jobs[task[w]].status \notin Waiting
    BY <1>1 DEF QueueInv, TakenJobsLeftQueue, Waiting
  <1>3. \A v \in Worker : pc[v] = "claiming" => task[v] \in Job /\ task[v] # task[w]
    BY <1>2, TaskIsJob DEF QueueInv, ClaimsHold, Waiting
  <1> QED BY <1>1, <1>2, <1>3

\* An UPDATE of one job leaves the rows of the others.
LEMMA OthersKept ==
  ASSUME NEW T \in [Job -> Row], NEW j \in Job, NEW k \in Job, k # j
  PROVE  /\ MarkDeployed(T, j)[k] = T[k]
         /\ MarkFailed(T, j)[k] = T[k]
         /\ MarkCanceled(T, j)[k] = T[k]
         /\ \A w \in Worker : LockForRestore(T, j, w)[k] = T[k]
         /\ \A w \in Worker : MarkStaleFailed(T, j, w)[k] = T[k]
  BY DEF MarkDeployed, MarkFailed, MarkCanceled, LockForRestore, MarkStaleFailed

\* Starting and the zombie sweep keep the inductive invariant.
LEMMA SweepKeepsInv ==
  ASSUME QueueInv, NEW w \in Worker, Start(w) \/ FailZombie(w)
  PROVE  QueueInv'
  <1>1. TypeOK /\ TypeOK'
    BY ClaimKeepsType DEF QueueInv
  <1>2. \A j \in zombies : j \in Job /\ jobs[j].status \notin Waiting
    BY <1>1 DEF QueueInv, TypeOK, TakenJobsLeftQueue, Waiting
  <1>3. PICK phase \in {"idle", "startup"} : Goto(w, phase, NoJob)
    BY DEF Start, FailZombie
  <1>4. phase \in Phase \ {"claiming"} /\ phase \notin Execute
    BY DEF Phase, Execute, Restore
  <1>5. CASE Start(w)
    <2>1. jobs' = jobs /\ Settles(jobs, jobs') /\ pc[w] # "claiming"
      BY <1>5 DEF Start, Settles
    <2>2. \A k \in zombies' : jobs[k].status \notin Waiting
      BY <1>2, <1>5 DEF Start, InStatus, Waiting
    <2> QED BY <1>1, <1>3, <1>4, <2>1, <2>2, CalmMove
  <1>6. CASE FailZombie(w)
    <2>1. PICK j \in zombies : jobs' = MarkFailed(jobs, j) /\ zombies' = zombies \ {j}
      BY <1>6 DEF FailZombie
    <2>2. Settles(jobs, jobs') /\ pc[w] # "claiming"
      BY <1>1, <1>2, <1>6, <2>1, UpdateSettles DEF FailZombie, TypeOK
    <2>3. \A v \in Worker \ {w} : pc[v] = "claiming" => jobs'[task[v]] = jobs[task[v]]
      <3>1. \A v \in Worker : pc[v] = "claiming" => task[v] \in Job /\ task[v] # j
        BY <1>1, <1>2, TaskIsJob DEF QueueInv, ClaimsHold, Waiting
      <3> QED BY <1>1, <1>2, <2>1, <3>1, OthersKept DEF TypeOK
    <2>4. \A k \in zombies' : jobs[k].status \notin Waiting
      BY <1>2, <2>1
    <2> QED BY <1>1, <1>3, <1>4, <2>2, <2>3, <2>4, CalmMove
  <1> QED BY <1>5, <1>6

\* A claim's SELECT keeps the inductive invariant: it skips a host whose row
\* another claim has locked, and counts the running jobs of its own.
LEMMA ClaimSelectKeepsInv ==
  ASSUME QueueInv, NEW w \in Worker, ClaimSelect(w)
  PROVE  QueueInv'
  <1>1. TypeOK /\ TypeOK'
    BY ClaimKeepsType DEF QueueInv
  <1>2. PICK j \in Claimable : Goto(w, "claiming", j)
    BY DEF ClaimSelect
  <1> DEFINE h == HostOf(jobs, j)
  <1>3. /\ j \in Job /\ jobs[j].status = "queued"
        /\ ~HostLocked(h)
        /\ Cardinality(RunningOn(jobs, h)) < MaxRunning[h]
    BY DEF Claimable, InStatus
  <1>4. /\ \A v \in Others(w) : pc'[v] = pc[v] /\ task'[v] = task[v]
        /\ pc'[w] = "claiming" /\ task'[w] = j
    BY <1>1, <1>2 DEF TypeOK, Goto, Others
  <1>5. jobs' = jobs /\ zombies' = zombies
    BY DEF ClaimSelect
  <1>6. \A v \in Worker : pc[v] = "claiming" => HostOf(jobs, task[v]) # h
    BY <1>3 DEF HostLocked
  <1>7. HostCapacity'
    BY <1>5 DEF QueueInv, HostCapacity
  <1>8. ClaimsHold'
    <2> SUFFICES ASSUME NEW u \in Worker, pc'[u] = "claiming"
                 PROVE  /\ jobs[task'[u]].status = "queued"
                        /\ Cardinality(RunningOn(jobs, HostOf(jobs, task'[u])))
                              < MaxRunning[HostOf(jobs, task'[u])]
                        /\ \A v \in Others(u) : pc'[v] = "claiming" =>
                              HostOf(jobs, task'[v]) # HostOf(jobs, task'[u])
      BY <1>5 DEF ClaimsHold
    <2>1. CASE u = w
      BY <1>3, <1>4, <1>6, <2>1 DEF Others
    <2>2. CASE u # w
      <3>1. pc[u] = "claiming" /\ task'[u] = task[u]
        BY <1>4, <2>2 DEF Others
      <3>2. /\ jobs[task[u]].status = "queued"
            /\ Cardinality(RunningOn(jobs, HostOf(jobs, task[u])))
                  < MaxRunning[HostOf(jobs, task[u])]
            /\ \A v \in Others(u) : pc[v] = "claiming" =>
                  HostOf(jobs, task[v]) # HostOf(jobs, task[u])
        BY <3>1 DEF QueueInv, ClaimsHold
      <3>3. \A v \in Others(u) : pc'[v] = "claiming" =>
                HostOf(jobs, task'[v]) # HostOf(jobs, task[u])
        BY <1>4, <1>6, <3>1, <3>2 DEF Others
      <3> QED BY <3>1, <3>2, <3>3
    <2> QED BY <2>1, <2>2
  <1>9. TakenJobsLeftQueue'
    BY <1>4, <1>5 DEF QueueInv, TakenJobsLeftQueue, Others
  <1>10. OneWorkerPerJob'
    BY <1>4 DEF QueueInv, OneWorkerPerJob, Others, Execute, Restore
  <1> QED BY <1>1, <1>7, <1>8, <1>9, <1>10 DEF QueueInv

\* A claim's UPDATE keeps the inductive invariant: it adds one running job to a
\* host that had room and that no other claim is adding to.
LEMMA ClaimCommitKeepsInv ==
  ASSUME QueueInv, NEW w \in Worker, ClaimCommit(w)
  PROVE  QueueInv'
  <1> DEFINE j == task[w]
             h == HostOf(jobs, j)
  <1>1. TypeOK /\ TypeOK'
    BY ClaimKeepsType DEF QueueInv
  <1>2. /\ j \in Job /\ j # NoJob
        /\ jobs[j].status = "queued"
        /\ Cardinality(RunningOn(jobs, h)) < MaxRunning[h]
        /\ \A v \in Others(w) : pc[v] = "claiming" => HostOf(jobs, task[v]) # h
    BY <1>1, TaskIsJob, JobFacts DEF ClaimCommit, QueueInv, ClaimsHold
  <1>3. /\ \A k \in Job \ {j} : jobs'[k] = jobs[k]
        /\ jobs'[j].status = "running" /\ jobs'[j].place = jobs[j].place
    BY <1>1, <1>2 DEF ClaimCommit, Claimed, TypeOK, Row
  <1>4. /\ \A v \in Others(w) : pc'[v] = pc[v] /\ task'[v] = task[v]
        /\ pc'[w] = "prep" /\ task'[w] = j
        /\ zombies' = zombies
    BY <1>1 DEF ClaimCommit, TypeOK, Goto, Others
  <1>5. h \in Host
    BY <1>1, <1>2 DEF TypeOK, Row, Place, HostOf
  <1>6. RunningOn(jobs', h) = RunningOn(jobs, h) \cup {j}
    BY <1>2, <1>3 DEF RunningOn, InStatus, HostOf
  <1>7. \A g \in Host \ {h} : RunningOn(jobs', g) = RunningOn(jobs, g)
    BY <1>2, <1>3 DEF RunningOn, InStatus, HostOf
  <1>8. HostCapacity'
    <2> SUFFICES ASSUME NEW g \in Host
                 PROVE  Cardinality(RunningOn(jobs', g)) <= MaxRunning[g]
      BY DEF HostCapacity
    <2>1. CASE g = h
      <3>1. j \notin RunningOn(jobs, h)
        BY <1>2 DEF RunningOn, InStatus
      <3>2. Cardinality(RunningOn(jobs', h)) = Cardinality(RunningOn(jobs, h)) + 1
        BY <1>6, <3>1, RunningFinite, FS_AddElement
      <3> QED BY <1>2, <1>5, <2>1, <3>2, RunningFinite, MaxRunningAssumption
    <2>2. CASE g # h
      BY <1>7, <2>2 DEF QueueInv, HostCapacity
    <2> QED BY <2>1, <2>2
  <1>9. ClaimsHold'
    <2> SUFFICES ASSUME NEW u \in Worker, pc'[u] = "claiming"
                 PROVE  /\ jobs'[task'[u]].status = "queued"
                        /\ Cardinality(RunningOn(jobs', HostOf(jobs', task'[u])))
                              < MaxRunning[HostOf(jobs', task'[u])]
                        /\ \A v \in Others(u) : pc'[v] = "claiming" =>
                              HostOf(jobs', task'[v]) # HostOf(jobs', task'[u])
      BY DEF ClaimsHold
    <2> DEFINE g == HostOf(jobs, task[u])
    <2>1. u \in Others(w) /\ pc[u] = "claiming" /\ task'[u] = task[u]
      BY <1>4 DEF Others
    <2>2. /\ jobs[task[u]].status = "queued"
          /\ Cardinality(RunningOn(jobs, g)) < MaxRunning[g]
          /\ \A v \in Others(u) : pc[v] = "claiming" => HostOf(jobs, task[v]) # g
      BY <2>1 DEF QueueInv, ClaimsHold
    <2>3. task[u] \in Job /\ g # h
      BY <1>1, <1>2, <2>1, TaskIsJob
    <2>4. jobs'[task[u]] = jobs[task[u]] /\ g \in Host
      BY <1>1, <1>3, <2>3 DEF TypeOK, Row, Place, HostOf
    <2>5. RunningOn(jobs', g) = RunningOn(jobs, g) /\ HostOf(jobs', task'[u]) = g
      BY <1>7, <2>1, <2>3, <2>4 DEF HostOf
    <2>6. ASSUME NEW v \in Others(u), pc'[v] = "claiming"
          PROVE  HostOf(jobs', task'[v]) # g
      <3>1. v \in Others(w) /\ pc[v] = "claiming" /\ task'[v] = task[v]
        BY <1>4, <2>6 DEF Others
      <3>2. task[v] \in Job \ {j}
        BY <1>1, <1>2, <3>1, TaskIsJob DEF Others
      <3> QED BY <1>3, <2>2, <2>6, <3>1, <3>2 DEF HostOf
    <2> QED BY <2>1, <2>2, <2>4, <2>5, <2>6
  <1>10. \A k \in Job : jobs[k].status \notin Waiting => jobs'[k].status \notin Waiting
    BY <1>3 DEF Waiting
  <1>11. TakenJobsLeftQueue'
    <2>1. ASSUME NEW v \in Worker, task'[v] # NoJob, pc'[v] # "claiming"
          PROVE  jobs'[task'[v]].status \notin Waiting
      <3>1. CASE v = w
        BY <1>3, <1>4, <3>1 DEF Waiting
      <3>2. CASE v # w
        BY <1>1, <1>4, <1>10, <2>1, <3>2
           DEF Others, QueueInv, TypeOK, TakenJobsLeftQueue, Waiting
      <3> QED BY <3>1, <3>2
    <2>2. \A k \in zombies' : jobs'[k].status \notin Waiting
      BY <1>1, <1>4, <1>10 DEF QueueInv, TypeOK, TakenJobsLeftQueue, Waiting
    <2> QED BY <2>1, <2>2 DEF TakenJobsLeftQueue, Waiting
  <1>12. OneWorkerPerJob'
    <2>1. \A v \in Others(w) : pc[v] \in Execute => task[v] # j
      BY <1>1, <1>2
         DEF Others, QueueInv, TypeOK, TakenJobsLeftQueue, Execute, Restore
    <2> QED BY <1>4, <2>1 DEF Others, QueueInv, OneWorkerPerJob
  <1> QED BY <1>1, <1>8, <1>9, <1>11, <1>12 DEF QueueInv

\* Executing a job keeps the inductive invariant.
LEMMA ExecuteKeepsInv ==
  ASSUME QueueInv, NEW w \in Worker,
         \/ CancelAtCheckpoint(w) \/ PassCheckpoint(w) \/ EnterRestore(w)
         \/ BeginLoad(w) \/ FinishLoad(w) \/ RenameIntoTarget(w) \/ FinishJob(w)
         \/ FailJob(w) \/ FailJobAgain(w)
  PROVE  QueueInv'
  <1> DEFINE j == task[w]
  <1>1. TypeOK /\ TypeOK'
    BY ExecuteKeepsType DEF QueueInv
  <1>2. pc[w] \in Execute \cup {"raise"}
    BY DEF CancelAtCheckpoint, PassCheckpoint, EnterRestore, BeginLoad, FinishLoad,
           RenameIntoTarget, FinishJob, FailJob, FailJobAgain, Execute, Restore
  <1>3. /\ j \in Job /\ j # NoJob /\ jobs[j].status \notin Waiting
        /\ \A v \in Worker : pc[v] = "claiming" => task[v] \in Job /\ task[v] # j
    BY <1>2, TakenFacts DEF Execute, Restore
  <1>4. \/ jobs' = jobs
        \/ jobs' = MarkCanceled(jobs, j)
        \/ jobs' = LockForRestore(jobs, j, w)
        \/ jobs' = MarkDeployed(jobs, j)
        \/ jobs' = MarkFailed(jobs, j)
    BY DEF CancelAtCheckpoint, PassCheckpoint, EnterRestore, BeginLoad, FinishLoad,
           RenameIntoTarget, FinishJob, FailJob, FailJobAgain
  <1>5. Settles(jobs, jobs')
    <2>1. Settles(jobs, jobs)
      BY DEF Settles
    <2> QED BY <1>1, <1>3, <1>4, <2>1, UpdateSettles DEF TypeOK
  <1>6. \A v \in Worker : pc[v] = "claiming" => jobs'[task[v]] = jobs[task[v]]
    BY <1>1, <1>3, <1>4, OthersKept DEF TypeOK
  <1>7. \A k \in zombies' : jobs[k].status \notin Waiting
    <2>1. zombies' = zombies
      BY DEF CancelAtCheckpoint, PassCheckpoint, EnterRestore, BeginLoad, FinishLoad,
             RenameIntoTarget, FinishJob, FailJob, FailJobAgain
    <2> QED BY <2>1 DEF QueueInv, TakenJobsLeftQueue, Waiting
  <1>8. \/ Goto(w, "idle", NoJob)
        \/ Goto(w, "raise", j)
        \/ pc[w] # "raise" /\ \E phase \in Execute : Goto(w, phase, j)
    BY DEF CancelAtCheckpoint, PassCheckpoint, EnterRestore, BeginLoad, FinishLoad,
           RenameIntoTarget, FinishJob, FailJob, FailJobAgain, Execute, Restore
  <1>9. PICK phase \in Phase \ {"claiming"}, k \in {j, NoJob} :
           /\ Goto(w, phase, k)
           /\ phase \in Execute => pc[w] \in Execute /\ k = j
    BY <1>2, <1>8 DEF Phase, Execute, Restore
  <1>10. pc[w] # "claiming"
    BY <1>2 DEF Execute, Restore
  <1> QED BY <1>1, <1>3, <1>5, <1>6, <1>7, <1>9, <1>10, CalmMove

\* Recovering a job keeps the inductive invariant.
LEMMA RecoverKeepsInv ==
  ASSUME QueueInv, NEW w \in Worker,
         \/ RecoverSelect(w) \/ RecoverConfirm(w) \/ RecoverGiveUp(w)
         \/ RecoverDrop(w) \/ RecoverMark(w)
  PROVE  QueueInv'
  <1>1. TypeOK /\ TypeOK'
    BY RecoverKeepsType DEF QueueInv
  <1>2. zombies' = zombies /\ \A k \in zombies' : jobs[k].status \notin Waiting
    BY DEF RecoverSelect, RecoverConfirm, RecoverGiveUp, RecoverDrop, RecoverMark,
           QueueInv, TakenJobsLeftQueue, Waiting
  <1>3. CASE RecoverSelect(w)
    <2>1. PICK j \in Job : jobs[j].status = "running" /\ Goto(w, "verify", j)
      BY <1>3 DEF RecoverSelect, InStatus
    <2>2. jobs' = jobs /\ Settles(jobs, jobs') /\ pc[w] # "claiming"
      BY <1>3 DEF RecoverSelect, Settles
    <2>3. "verify" \in Phase \ {"claiming"} /\ "verify" \notin Execute
      BY DEF Phase, Execute, Restore
    <2>4. jobs[j].status \notin Waiting
      BY <2>1 DEF Waiting
    <2> QED BY <1>1, <1>2, <2>1, <2>2, <2>3, <2>4, CalmMove
  <1>4. CASE \/ RecoverConfirm(w) \/ RecoverGiveUp(w)
             \/ RecoverDrop(w) \/ RecoverMark(w)
    <2>1. pc[w] \in {"verify", "drop", "recover"}
      BY <1>4 DEF RecoverConfirm, RecoverGiveUp, RecoverDrop, RecoverMark
    <2>2. /\ task[w] \in Job /\ task[w] # NoJob /\ jobs[task[w]].status \notin Waiting
          /\ \A v \in Worker : pc[v] = "claiming" => task[v] \in Job /\ task[v] # task[w]
      BY <2>1, TakenFacts
    <2>3. jobs' = jobs \/ jobs' = MarkStaleFailed(jobs, task[w], w)
      BY <1>4 DEF RecoverConfirm, RecoverGiveUp, RecoverDrop, RecoverMark
    <2>4. Settles(jobs, jobs')
      <3>1. Settles(jobs, jobs)
        BY DEF Settles
      <3> QED BY <1>1, <2>2, <2>3, <3>1, UpdateSettles DEF TypeOK
    <2>5. \A v \in Worker : pc[v] = "claiming" => jobs'[task[v]] = jobs[task[v]]
      BY <1>1, <2>2, <2>3, OthersKept DEF TypeOK
    <2>6. PICK phase \in {"drop", "recover", "idle"}, k \in {task[w], NoJob} :
             Goto(w, phase, k)
      BY <1>4 DEF RecoverConfirm, RecoverGiveUp, RecoverDrop, RecoverMark
    <2>7. phase \in Phase \ {"claiming"} /\ phase \notin Execute
      BY DEF Phase, Execute, Restore
    <2> QED BY <1>1, <1>2, <2>1, <2>2, <2>4, <2>5, <2>6, <2>7, CalmMove
  <1> QED BY <1>3, <1>4

\* Crashes and the opening and closing of hosts keep the inductive invariant.
LEMMA EnvironmentKeepsInv ==
  ASSUME QueueInv,
         \/ \E w \in Worker : Crash(w)
         \/ \E h \in Host : CloseHost(h) \/ OpenHost(h)
  PROVE  QueueInv'
  <1>1. TypeOK /\ TypeOK'
    BY EnvironmentKeepsType DEF QueueInv
  <1>2. jobs' = jobs
    BY DEF Crash, CloseHost, OpenHost
  <1>3. /\ \A v \in Worker : \/ pc'[v] = pc[v] /\ task'[v] = task[v]
                             \/ pc'[v] = "down" /\ task'[v] = NoJob
        /\ zombies' \subseteq zombies
    BY <1>1 DEF Crash, Goto, CloseHost, OpenHost, workerVars, TypeOK
  <1>4. HostCapacity'
    BY <1>2 DEF QueueInv, HostCapacity
  <1>5. ClaimsHold'
    BY <1>2, <1>3 DEF QueueInv, ClaimsHold, Others
  <1>6. TakenJobsLeftQueue'
    BY <1>2, <1>3 DEF QueueInv, TakenJobsLeftQueue
  <1>7. OneWorkerPerJob'
    BY <1>3 DEF QueueInv, OneWorkerPerJob, Execute, Restore
  <1> QED BY <1>1, <1>4, <1>5, <1>6, <1>7 DEF QueueInv

\* Every step keeps the inductive invariant.
LEMMA QueueStep ==
  ASSUME QueueInv, [Next]_vars
  PROVE  QueueInv'
  <1>1. ASSUME NEW w \in Worker, WorkerStep(w) PROVE QueueInv'
    BY <1>1, SweepKeepsInv, ClaimSelectKeepsInv, ClaimCommitKeepsInv,
       ExecuteKeepsInv, RecoverKeepsInv DEF WorkerStep
  <1>2. CASE UNCHANGED vars
    BY <1>2 DEF vars, QueueInv, TypeOK, HostCapacity, ClaimsHold,
                TakenJobsLeftQueue, OneWorkerPerJob
  <1> QED
    BY <1>1, <1>2, SubmitKeepsInv, ClientKeepsInv, EnvironmentKeepsInv DEF Next

\* The inductive invariant holds of every reachable state.
THEOREM InvHolds == Spec => []QueueInv
  <1>1. QueueInv /\ [Next]_vars => QueueInv'
    BY QueueStep
  <1> QED BY InitInv, <1>1, PTL DEF Spec

\* However many workers claim at once, crash and recover, no host runs more
\* jobs than its max_running_jobs.
THEOREM CapacityRespected == Spec => []HostCapacity
  <1>1. QueueInv => HostCapacity
    BY DEF QueueInv
  <1> QED BY InvHolds, <1>1, PTL

\* No two live workers ever execute the same job.
THEOREM Exclusive == Spec => []OneWorkerPerJob
  <1>1. QueueInv => OneWorkerPerJob
    BY DEF QueueInv
  <1> QED BY InvHolds, <1>1, PTL
-----------------------------------------------------------------------------
(* What the rows say of the targets *)

\* A target is occupied by one job at a time, and a superseded job by none.
OneAtPlace ==
    /\ OneJobPerTarget
    /\ \A j \in Job : jobs[j].status \in Occupying => ~jobs[j].superseded

Ended == {"failed", "canceled"}

\* What becomes of a job that was claimed, other than going live.
LeftOver == {"running", "canceling"} \cup Ended

\* A request that the web pages may carry out, or an ended job.
Recorded(r) == \/ r.cancelReq /\ r.status \in Active
               \/ r.status \in Ended

WebMarksRecorded ==
    \A c \in Client : req[c].path = "web" /\ req[c].stage = "mark" => Recorded(jobs[req[c].job])

\* Past the gate, and not asked to cancel.
Shut(r) == ~r.cancelReq /\ ~r.canCancel

\* The row of a job that a worker executes: failed or cancelled behind its back,
\* or, past the gate, out of reach; and at the end, its restore in place.
RowInHand ==
    \A w \in Worker, j \in Job : Executing(w, j) =>
        LET r == jobs[j]
        IN  /\ r.status \in LeftOver
            /\ pc[w] \in Restore /\ r.status = "running" => Shut(r)
            /\ pc[w] = "finish" /\ r.status = "running" => HoldsUnlessOverrun(j)

OverrunInv ==
    /\ QueueInv
    /\ OneAtPlace
    /\ WebMarksRecorded
    /\ RowInHand
    /\ LiveUnlessOverrun

\* No step from table T to table U makes a job live, gives it a target or takes
\* it back from its end.
Orderly(T, U) ==
    \A j \in Job :
        /\ U[j].place = T[j].place
        /\ U[j].status \in Occupying => /\ T[j].status \in Occupying
                                        /\ U[j].superseded = T[j].superseded
        /\ U[j].status = "deployed" => T[j].status = "deployed"
        /\ U[j].status = "running" => T[j].status \in {"queued", "running"}
        /\ T[j].status \in LeftOver => U[j].status \in LeftOver
        /\ T[j].status \in Ended => U[j].status \in Ended
        /\ Recorded(T[j]) => Recorded(U[j])
        /\ T[j].status = "running" /\ Shut(T[j]) => Shut(U[j]) \/ U[j].status # "running"

LEMMA UpdateOrderly ==
  ASSUME NEW T \in [Job -> Row], NEW j \in Job
  PROVE  /\ Orderly(T, T)
         /\ Orderly(T, MarkFailed(T, j))
         /\ Orderly(T, MarkCanceled(T, j))
         /\ Orderly(T, MarkCanceling(T, j))
         /\ Orderly(T, RequestCancellation(T, j))
         /\ \A w \in Worker : Orderly(T, LockForRestore(T, j, w))
         /\ \A w \in Worker : Orderly(T, MarkStaleFailed(T, j, w))
         /\ T[j].status = "queued" => \A w \in Worker : Orderly(T, Claimed(T, j, w))
  <1> USE DEF Orderly, Row, Recorded, Shut, LeftOver, Ended, Occupying, Active
  <1>1. Orderly(T, T)
    OBVIOUS
  <1>2. Orderly(T, MarkFailed(T, j))
    BY DEF MarkFailed
  <1>3. Orderly(T, MarkCanceled(T, j))
    BY DEF MarkCanceled
  <1>4. Orderly(T, MarkCanceling(T, j))
    BY DEF MarkCanceling
  <1>5. Orderly(T, RequestCancellation(T, j))
    BY DEF RequestCancellation, CanRequestCancel
  <1>6. \A w \in Worker : Orderly(T, LockForRestore(T, j, w))
    BY DEF LockForRestore, CanLockForRestore
  <1>7. \A w \in Worker : Orderly(T, MarkStaleFailed(T, j, w))
    BY DEF MarkStaleFailed
  <1>8. T[j].status = "queued" => \A w \in Worker : Orderly(T, Claimed(T, j, w))
    BY DEF Claimed
  <1> QED BY <1>1, <1>2, <1>3, <1>4, <1>5, <1>6, <1>7, <1>8

\* What the invariant says of a worker's job.
LEMMA ExecuteFacts ==
  ASSUME OverrunInv, NEW w \in Worker, pc[w] \in Execute
  PROVE  /\ task[w] \in Job /\ jobs \in [Job -> Row]
         /\ jobs[task[w]].status \in LeftOver
         /\ jobs[task[w]].place \in Place
         /\ \A v \in Worker : v # w /\ pc[v] \in Execute => task[v] # task[w]
  <1>1. task[w] \in Job /\ jobs \in [Job -> Row]
    BY TakenFacts DEF OverrunInv, QueueInv, TypeOK, Execute, Restore
  <1>2. jobs[task[w]].place \in Place
    BY <1>1 DEF Row
  <1>3. jobs[task[w]].status \in LeftOver
    BY <1>1 DEF OverrunInv, RowInHand, Executing
  <1> QED BY <1>1, <1>2, <1>3 DEF OverrunInv, QueueInv, OneWorkerPerJob

\* A job that occupies its target holds it across a step in which no other worker
\* than w, which has another job, renames: w's job cannot occupy the target, too.
LEMMA HoldsStep ==
  ASSUME OverrunInv, Orderly(jobs, jobs'), NEW w, NEW j \in Job,
         \A p \in Place : db'[p] # db[p] =>
             /\ w \in Worker /\ pc[w] = "staged" /\ p = jobs[task[w]].place
             /\ db'[p] \in {task[w], NoJob},
         w \in Worker /\ pc[w] = "staged" => task[w] # j,
         jobs[j].status \in Occupying, HoldsUnlessOverrun(j)
  PROVE  HoldsUnlessOverrun(j)'
  <1> DEFINE p == jobs[j].place
  <1>1. p \in Place /\ jobs'[j].place = p /\ jobs \in [Job -> Row]
    BY DEF OverrunInv, QueueInv, TypeOK, Row, Orderly
  <1>2. CASE db'[p] = db[p]
    <2>1. CASE db[p] = j
      BY <1>1, <1>2, <2>1 DEF HoldsUnlessOverrun
    <2>2. ASSUME NEW k \in Job \ {j}, jobs[k].status \in Ended, jobs[k].place = p, db[p] \in {k, NoJob}
          PROVE  HoldsUnlessOverrun(j)'
      <3>1. jobs'[k].status \in Ended /\ jobs'[k].place = p
        BY <2>2 DEF Orderly
      <3> QED BY <1>1, <1>2, <2>2, <3>1 DEF HoldsUnlessOverrun, InStatus, Ended
    <2> QED BY <2>1, <2>2 DEF HoldsUnlessOverrun, InStatus, Ended
  <1>3. CASE db'[p] # db[p]
    <2> DEFINE k == task[w]
    <2>1. /\ w \in Worker /\ pc[w] = "staged" /\ p = jobs[k].place /\ k # j
          /\ db'[p] \in {k, NoJob}
      BY <1>1, <1>3
    <2>2. k \in Job /\ jobs[k].status \in LeftOver
      BY <2>1, ExecuteFacts DEF Execute, Restore
    <2>3. jobs[k].status \notin Occupying
      BY <2>1, <2>2 DEF OverrunInv, OneAtPlace, OneJobPerTarget
    <2>4. jobs[k].status \in Ended
      BY <2>2, <2>3 DEF LeftOver, Occupying, Active
    <2>5. jobs'[k].status \in Ended /\ jobs'[k].place = p
      BY <2>1, <2>2, <2>4 DEF Orderly
    <2> HIDE DEF k
    <2> QED BY <1>1, <2>1, <2>2, <2>5 DEF HoldsUnlessOverrun, InStatus, Ended
  <1> QED BY <1>2, <1>3

\* A step that leaves the requests, and its rows in order, keeps them recorded.
LEMMA MarksKept ==
  ASSUME OverrunInv, Orderly(jobs, jobs'), req' = req
  PROVE  WebMarksRecorded'
  <1>1. \A c \in Client : req[c].stage = "mark" => req[c].job \in Job
    BY DEF OverrunInv, QueueInv, TypeOK, RequestType
  <1> QED BY <1>1 DEF OverrunInv, WebMarksRecorded, Orderly

\* An orderly step of one worker w, or of nobody.
LEMMA OrderlyStep ==
  ASSUME OverrunInv, QueueInv', WebMarksRecorded', Orderly(jobs, jobs'), NEW w,
         \A v \in Worker \ {w} : pc'[v] = pc[v] /\ task'[v] = task[v],
         \A p \in Place : db'[p] # db[p] =>
             /\ w \in Worker /\ pc[w] = "staged" /\ p = jobs[task[w]].place
             /\ db'[p] \in {task[w], NoJob},
         w \in Worker /\ pc'[w] \in Execute =>
             /\ \/ pc[w] \in Execute /\ task'[w] = task[w]
                \/ jobs'[task'[w]].status = "running"
             /\ pc'[w] \in Restore /\ jobs'[task'[w]].status = "running" => Shut(jobs'[task'[w]])
             /\ pc'[w] = "finish" => db'[jobs'[task'[w]].place] = task'[w]
  PROVE  OverrunInv'
  <1>1. OneAtPlace'
    BY DEF OverrunInv, OneAtPlace, OneJobPerTarget, Orderly
  <1>2. RowInHand'
    <2> SUFFICES ASSUME NEW v \in Worker, NEW j \in Job, pc'[v] \in Execute, task'[v] = j
                 PROVE  /\ jobs'[j].status \in LeftOver
                        /\ pc'[v] \in Restore /\ jobs'[j].status = "running" => Shut(jobs'[j])
                        /\ pc'[v] = "finish" /\ jobs'[j].status = "running"
                              => HoldsUnlessOverrun(j)'
      BY DEF RowInHand, Executing
    <2>1. CASE v = w
      <3>1. jobs'[j].status \in LeftOver
        <4>1. CASE pc[w] \in Execute /\ task'[w] = task[w]
          BY <2>1, <4>1, ExecuteFacts DEF Orderly
        <4> QED BY <2>1, <4>1 DEF LeftOver
      <3>2. pc'[v] = "finish" => HoldsUnlessOverrun(j)'
        BY <2>1 DEF HoldsUnlessOverrun
      <3> QED BY <2>1, <3>1, <3>2
    <2>2. CASE v # w
      <3>1. pc'[v] = pc[v] /\ task[v] = j /\ pc[v] \in Execute
        BY <2>2
      <3>2. /\ j \in Job /\ jobs[j].status \in LeftOver
            /\ \A u \in Worker : u # v /\ pc[u] \in Execute => task[u] # j
        BY <3>1, ExecuteFacts
      <3>3. jobs'[j].status \in LeftOver /\ (jobs'[j].status = "running" => jobs[j].status = "running")
        BY <3>2 DEF Orderly, LeftOver, Ended
      <3>4. pc[v] \in Restore /\ jobs'[j].status = "running" => Shut(jobs'[j])
        <4>1. pc[v] \in Restore /\ jobs[j].status = "running" => Shut(jobs[j])
          BY <3>1 DEF OverrunInv, RowInHand, Executing
        <4> QED BY <3>2, <3>3, <4>1 DEF Orderly
      <3>5. pc[v] = "finish" /\ jobs'[j].status = "running" => HoldsUnlessOverrun(j)'
        <4> SUFFICES ASSUME pc[v] = "finish", jobs'[j].status = "running"
                     PROVE  HoldsUnlessOverrun(j)'
          OBVIOUS
        <4>1. HoldsUnlessOverrun(j) /\ jobs[j].status \in Occupying
          BY <3>1, <3>3 DEF OverrunInv, RowInHand, Executing, Occupying, Active
        <4>2. w \in Worker /\ pc[w] = "staged" => task[w] # j
          BY <2>2, <3>2 DEF Execute, Restore
        <4> QED BY <3>2, <4>1, <4>2, HoldsStep
      <3> QED BY <3>1, <3>3, <3>4, <3>5
    <2> QED BY <2>1, <2>2
  <1>3. LiveUnlessOverrun'
    <2> SUFFICES ASSUME NEW j \in Job, jobs'[j].status = "deployed" PROVE HoldsUnlessOverrun(j)'
      BY DEF LiveUnlessOverrun, InStatus
    <2>1. jobs[j].status = "deployed"
      BY DEF Orderly
    <2>2. HoldsUnlessOverrun(j) /\ jobs[j].status \in Occupying
      BY <2>1 DEF OverrunInv, LiveUnlessOverrun, InStatus, Occupying
    <2>3. w \in Worker /\ pc[w] = "staged" => task[w] # j
      BY <2>1, ExecuteFacts DEF Execute, Restore, LeftOver, Ended
    <2> QED BY <2>2, <2>3, HoldsStep
  <1> QED BY <1>1, <1>2, <1>3 DEF OverrunInv

\* Where a worker's step leaves the workers.
LEMMA GotoFacts ==
  ASSUME TypeOK, NEW w \in Worker, NEW phase, NEW j, Goto(w, phase, j)
  PROVE  /\ pc'[w] = phase /\ task'[w] = j
         /\ \A v \in Worker \ {w} : pc'[v] = pc[v] /\ task'[v] = task[v]
  BY DEF TypeOK, Goto

\* A worker's step on the row of its own job, or of none.
LEMMA WorkerRowStep ==
  ASSUME OverrunInv, NEW w \in Worker, WorkerStep(w), ~FinishJob(w)
  PROVE  /\ Orderly(jobs, jobs')
         /\ req' = req
         /\ \A v \in Worker \ {w} : pc'[v] = pc[v] /\ task'[v] = task[v]
  <1>1. TypeOK /\ jobs \in [Job -> Row] /\ zombies \subseteq Job
    BY DEF OverrunInv, QueueInv, TypeOK
  <1>2. pc[w] \notin {"down", "startup", "idle"} => task[w] \in Job
    BY <1>1, TaskIsJob
  <1>3. Orderly(jobs, jobs')
    <2>1. CASE Start(w) \/ ClaimSelect(w) \/ PassCheckpoint(w) \/ BeginLoad(w) \/ FinishLoad(w)
               \/ RenameIntoTarget(w) \/ RecoverSelect(w) \/ RecoverConfirm(w) \/ RecoverGiveUp(w)
               \/ RecoverDrop(w)
      <3>1. jobs' = jobs
        BY <2>1 DEF Start, ClaimSelect, PassCheckpoint, BeginLoad, FinishLoad, RenameIntoTarget,
               RecoverSelect, RecoverConfirm, RecoverGiveUp, RecoverDrop
      <3> QED BY <1>1, <3>1, MaxJobAssumption DEF Orderly
    <2>2. CASE FailZombie(w)
      BY <1>1, <2>2, UpdateOrderly DEF FailZombie
    <2>3. CASE ClaimCommit(w)
      <3>1. task[w] \in Job /\ jobs[task[w]].status = "queued"
        BY <1>2, <2>3 DEF ClaimCommit, OverrunInv, QueueInv, ClaimsHold
      <3> QED BY <1>1, <2>3, <3>1, UpdateOrderly DEF ClaimCommit
    <2>4. CASE CancelAtCheckpoint(w) \/ FailJob(w) \/ FailJobAgain(w) \/ RecoverMark(w)
      <3>1. task[w] \in Job
        BY <1>2, <2>4 DEF CancelAtCheckpoint, FailJob, FailJobAgain, RecoverMark, Execute, Restore
      <3> QED BY <1>1, <2>4, <3>1, UpdateOrderly
              DEF CancelAtCheckpoint, FailJob, FailJobAgain, RecoverMark
    <2>5. CASE EnterRestore(w)
      <3>1. task[w] \in Job
        BY <1>2, <2>5 DEF EnterRestore
      <3>2. jobs' = LockForRestore(jobs, task[w], w) \/ jobs' = MarkCanceled(jobs, task[w])
        BY <2>5 DEF EnterRestore
      <3> QED BY <1>1, <3>1, <3>2, UpdateOrderly
    <2> QED BY <2>1, <2>2, <2>3, <2>4, <2>5 DEF WorkerStep
  <1>4. req' = req
    BY DEF WorkerStep, Start, FailZombie, ClaimSelect, ClaimCommit, CancelAtCheckpoint, PassCheckpoint,
           EnterRestore, BeginLoad, FinishLoad, RenameIntoTarget, FinishJob, FailJob, FailJobAgain,
           RecoverSelect, RecoverConfirm, RecoverGiveUp, RecoverDrop, RecoverMark
  <1>5. \E phase, j : Goto(w, phase, j)
    BY DEF WorkerStep, Start, FailZombie, ClaimSelect, ClaimCommit, CancelAtCheckpoint, PassCheckpoint,
           EnterRestore, BeginLoad, FinishLoad, RenameIntoTarget, FinishJob, FailJob, FailJobAgain,
           RecoverSelect, RecoverConfirm, RecoverGiveUp, RecoverDrop, RecoverMark
  <1> QED BY <1>1, <1>3, <1>4, <1>5, GotoFacts

\* The steps of a worker that has no job in the restore afterwards.
LEMMA ApartKeepsOverrun ==
  ASSUME OverrunInv, QueueInv', NEW w \in Worker, WorkerStep(w), ~FinishJob(w), db' = db,
         pc'[w] \notin Restore,
         pc'[w] \in Execute => \/ pc[w] \in Execute /\ task'[w] = task[w]
                               \/ jobs'[task'[w]].status = "running"
  PROVE  OverrunInv'
  <1>1. /\ Orderly(jobs, jobs') /\ req' = req
        /\ \A v \in Worker \ {w} : pc'[v] = pc[v] /\ task'[v] = task[v]
    BY WorkerRowStep
  <1>2. WebMarksRecorded' /\ pc'[w] # "finish"
    BY <1>1, MarksKept DEF Restore
  <1> QED BY <1>1, <1>2, OrderlyStep

\* A worker outside the restore, the sweep and the recovery among them.
LEMMA PrepareKeepsOverrun ==
  ASSUME OverrunInv, QueueInv', NEW w \in Worker,
         \/ Start(w) \/ FailZombie(w) \/ ClaimSelect(w) \/ ClaimCommit(w)
         \/ CancelAtCheckpoint(w) \/ PassCheckpoint(w) \/ FailJobAgain(w)
         \/ RecoverSelect(w) \/ RecoverConfirm(w) \/ RecoverGiveUp(w)
         \/ RecoverDrop(w) \/ RecoverMark(w)
  PROVE  OverrunInv'
  <1>1. TypeOK /\ jobs \in [Job -> Row]
    BY DEF OverrunInv, QueueInv, TypeOK
  <1>2. WorkerStep(w) /\ db' = db
    BY DEF WorkerStep, Start, FailZombie, ClaimSelect, ClaimCommit, CancelAtCheckpoint, PassCheckpoint,
           FailJobAgain, RecoverSelect, RecoverConfirm, RecoverGiveUp, RecoverDrop, RecoverMark, targetVars
  <1>3. ~FinishJob(w)
    BY DEF FinishJob, Start, FailZombie, ClaimSelect, ClaimCommit, CancelAtCheckpoint, PassCheckpoint,
           FailJobAgain, RecoverSelect, RecoverConfirm, RecoverGiveUp, RecoverDrop, RecoverMark
  <1>4. CASE ClaimCommit(w)
    <2>1. task[w] \in Job /\ jobs[task[w]].status = "queued"
      BY <1>1, <1>4, TaskIsJob DEF ClaimCommit, OverrunInv, QueueInv, ClaimsHold
    <2>2. jobs'[task[w]].status = "running"
      BY <1>1, <1>4, <2>1 DEF ClaimCommit, Claimed, Row
    <2>3. pc'[w] = "prep" /\ task'[w] = task[w]
      BY <1>1, <1>4, GotoFacts DEF ClaimCommit
    <2> QED BY <1>2, <1>3, <2>2, <2>3, ApartKeepsOverrun DEF Restore
  <1>5. CASE PassCheckpoint(w)
    <2>1. pc[w] = "prep" /\ pc'[w] = "gate" /\ task'[w] = task[w]
      BY <1>1, <1>5, GotoFacts DEF PassCheckpoint
    <2> QED BY <1>2, <1>3, <2>1, ApartKeepsOverrun DEF Execute, Restore
  <1>6. CASE ~ClaimCommit(w) /\ ~PassCheckpoint(w)
    <2>1. PICK phase \in {"idle", "startup", "claiming", "verify", "drop", "recover"} :
               \E j : Goto(w, phase, j)
      BY <1>6 DEF Start, FailZombie, ClaimSelect, CancelAtCheckpoint, FailJobAgain, RecoverSelect,
             RecoverConfirm, RecoverGiveUp, RecoverDrop, RecoverMark
    <2>2. pc'[w] = phase
      BY <1>1, <2>1, GotoFacts
    <2>3. pc'[w] \notin Execute /\ pc'[w] \notin Restore
      BY <2>2 DEF Execute, Restore
    <2> QED BY <1>2, <1>3, <2>3, ApartKeepsOverrun
  <1> QED BY <1>4, <1>5, <1>6

\* The gate shuts: a running job is past it only while nobody has asked to cancel it.
LEMMA GateKeepsOverrun ==
  ASSUME OverrunInv, QueueInv', NEW w \in Worker, EnterRestore(w)
  PROVE  OverrunInv'
  <1> DEFINE j == task[w]
  <1>1. TypeOK /\ pc[w] = "gate" /\ pc[w] \in Execute
    BY DEF OverrunInv, QueueInv, EnterRestore, Execute
  <1>2. j \in Job /\ jobs \in [Job -> Row]
    BY <1>1, ExecuteFacts
  <1>3. WorkerStep(w) /\ ~FinishJob(w) /\ db' = db
    BY <1>1 DEF WorkerStep, FinishJob, EnterRestore, targetVars
  <1>4. CASE ~CanLockForRestore(jobs, j)
    <2>1. pc'[w] = "idle"
      BY <1>1, <1>4, GotoFacts DEF EnterRestore
    <2> QED BY <1>3, <2>1, ApartKeepsOverrun DEF Execute, Restore
  <1>5. CASE CanLockForRestore(jobs, j)
    <2>1. jobs' = LockForRestore(jobs, j, w) /\ Goto(w, "restore", j)
      BY <1>5 DEF EnterRestore
    <2>2. pc'[w] = "restore" /\ task'[w] = j
      BY <1>1, <2>1, GotoFacts
    <2>3. Shut(jobs'[j])
      BY <1>2, <1>5, <2>1 DEF LockForRestore, CanLockForRestore, Row, Shut
    <2>4. WebMarksRecorded'
      BY <1>3, WorkerRowStep, MarksKept
    <2>5. /\ Orderly(jobs, jobs')
          /\ \A v \in Worker \ {w} : pc'[v] = pc[v] /\ task'[v] = task[v]
      BY <1>3, WorkerRowStep
    <2> HIDE DEF j
    <2> QED BY <1>1, <1>3, <2>2, <2>3, <2>4, <2>5, OrderlyStep DEF j
  <1> QED BY <1>4, <1>5

\* Loading and the rename: a job that is overrun by it is not running any more.
LEMMA LoadKeepsOverrun ==
  ASSUME OverrunInv, QueueInv', NEW w \in Worker,
         BeginLoad(w) \/ FinishLoad(w) \/ RenameIntoTarget(w)
  PROVE  OverrunInv'
  <1> DEFINE j == task[w]
  <1>1. TypeOK /\ pc[w] \in {"restore", "load", "staged"} /\ pc[w] \in Execute /\ pc[w] \in Restore
    BY DEF OverrunInv, QueueInv, BeginLoad, FinishLoad, RenameIntoTarget, Execute, Restore
  <1>2. j \in Job /\ jobs \in [Job -> Row] /\ jobs[j].place \in Place
    BY <1>1, ExecuteFacts
  <1>3. WorkerStep(w) /\ ~FinishJob(w) /\ jobs' = jobs
    BY <1>1 DEF WorkerStep, FinishJob, BeginLoad, FinishLoad, RenameIntoTarget
  <1>4. PICK phase \in {"load", "staged", "finish"} :
            Goto(w, phase, j) /\ (phase = "finish" => RenameIntoTarget(w))
    BY DEF BeginLoad, FinishLoad, RenameIntoTarget
  <1>5. pc'[w] = phase /\ task'[w] = j
    BY <1>1, <1>4, GotoFacts
  <1>6. \A p \in Place : db'[p] # db[p] =>
            pc[w] = "staged" /\ p = jobs[j].place /\ db'[p] \in {j, NoJob}
    BY <1>1 DEF BeginLoad, FinishLoad, RenameIntoTarget, TypeOK
  <1>7. phase = "finish" => db'[jobs'[j].place] = j
    BY <1>1, <1>2, <1>3, <1>4 DEF RenameIntoTarget, TypeOK
  <1>8. jobs'[j].status = "running" => Shut(jobs'[j])
    BY <1>1, <1>2, <1>3 DEF OverrunInv, RowInHand, Executing
  <1>9. WebMarksRecorded'
    BY <1>3, WorkerRowStep, MarksKept
  <1>10. /\ Orderly(jobs, jobs')
         /\ \A v \in Worker \ {w} : pc'[v] = pc[v] /\ task'[v] = task[v]
    BY <1>3, WorkerRowStep
  <1> HIDE DEF j
  <1> QED BY <1>1, <1>5, <1>6, <1>7, <1>8, <1>9, <1>10, OrderlyStep DEF j

\* A failure, which may have dropped the target on its way.
LEMMA FailKeepsOverrun ==
  ASSUME OverrunInv, QueueInv', NEW w \in Worker, FailJob(w)
  PROVE  OverrunInv'
  <1>1. TypeOK /\ pc[w] \in Execute
    BY DEF OverrunInv, QueueInv, FailJob
  <1>2. WorkerStep(w) /\ ~FinishJob(w)
    <2>1. pc'[w] = "raise"
      BY <1>1, GotoFacts DEF FailJob
    <2>2. FinishJob(w) => pc'[w] = "idle"
      BY <1>1, GotoFacts DEF FinishJob
    <2> QED BY <2>1, <2>2 DEF WorkerStep
  <1>3. pc'[w] = "raise" /\ pc'[w] \notin Execute
    BY <1>1, GotoFacts DEF FailJob, Execute, Restore
  <1>4. \A p \in Place : db'[p] # db[p] =>
            pc[w] = "staged" /\ p = jobs[task[w]].place /\ db'[p] \in {task[w], NoJob}
    BY <1>1 DEF FailJob, TypeOK
  <1>5. WebMarksRecorded'
    BY <1>2, WorkerRowStep, MarksKept
  <1>6. /\ Orderly(jobs, jobs')
        /\ \A v \in Worker \ {w} : pc'[v] = pc[v] /\ task'[v] = task[v]
    BY <1>2, WorkerRowStep
  <1> QED BY <1>3, <1>4, <1>5, <1>6, OrderlyStep

\* Going live: the row still says running, so that the target holds the restore or
\* was overrun, and nobody is about to cancel the job through the web pages.
LEMMA FinishKeepsOverrun ==
  ASSUME OverrunInv, QueueInv', NEW w \in Worker, FinishJob(w)
  PROVE  OverrunInv'
  <1> DEFINE j == task[w]
  <1>1. TypeOK /\ pc[w] = "finish" /\ pc[w] \in Execute /\ pc[w] \in Restore
    BY DEF OverrunInv, QueueInv, FinishJob, Execute, Restore
  <1>2. /\ j \in Job /\ jobs \in [Job -> Row]
        /\ \A v \in Worker : v # w /\ pc[v] \in Execute => task[v] # j
    BY <1>1, ExecuteFacts
  <1>3. req' = req /\ db' = db /\ jobs' = MarkDeployed(jobs, j)
    BY DEF FinishJob, targetVars
  <1>4. pc'[w] = "idle" /\ \A v \in Worker \ {w} : pc'[v] = pc[v] /\ task'[v] = task[v]
    BY <1>1, GotoFacts DEF FinishJob
  <1>5. CASE jobs[j].status # "running"
    <2>1. Orderly(jobs, jobs')
      BY <1>2, <1>3, <1>5, UpdateOrderly DEF MarkDeployed
    <2>2. WebMarksRecorded'
      BY <1>3, <2>1, MarksKept
    <2>3. pc'[w] \notin Execute
      BY <1>4 DEF Execute, Restore
    <2> QED BY <1>3, <1>4, <2>1, <2>2, <2>3, OrderlyStep
  <1>6. CASE jobs[j].status = "running"
    <2>1. Shut(jobs[j]) /\ HoldsUnlessOverrun(j)
      BY <1>1, <1>2, <1>6 DEF OverrunInv, RowInHand, Executing
    <2>2. /\ \A k \in Job \ {j} : jobs'[k] = jobs[k]
          /\ jobs'[j].status = "deployed" /\ jobs'[j].place = jobs[j].place
          /\ jobs'[j].superseded = jobs[j].superseded
      BY <1>2, <1>3, <1>6 DEF MarkDeployed, Row
    <2>3. OneAtPlace'
      BY <1>2, <1>6, <2>2 DEF OverrunInv, OneAtPlace, OneJobPerTarget, Occupying, Active
    <2>4. WebMarksRecorded'
      <3>1. ~Recorded(jobs[j])
        BY <1>6, <2>1 DEF Recorded, Shut, Ended
      <3>2. \A c \in Client : req[c].stage = "mark" => req[c].job \in Job
        BY <1>1 DEF TypeOK, RequestType
      <3> QED BY <1>3, <2>2, <3>1, <3>2 DEF OverrunInv, WebMarksRecorded
    <2>5. \A k \in Job : HoldsUnlessOverrun(k) => HoldsUnlessOverrun(k)'
      <3> SUFFICES ASSUME NEW k \in Job, HoldsUnlessOverrun(k) PROVE HoldsUnlessOverrun(k)'
        OBVIOUS
      <3>1. \A i \in Job : jobs'[i].place = jobs[i].place
        BY <2>2
      <3>2. \A i \in Job : jobs[i].status \in Ended => jobs'[i].status = jobs[i].status
        BY <1>6, <2>2 DEF Ended
      <3> QED BY <1>3, <3>1, <3>2 DEF HoldsUnlessOverrun, InStatus, Ended
    <2>6. RowInHand'
      <3> SUFFICES ASSUME NEW v \in Worker, NEW k \in Job, pc'[v] \in Execute, task'[v] = k
                   PROVE  /\ jobs'[k].status \in LeftOver
                          /\ pc'[v] \in Restore /\ jobs'[k].status = "running" => Shut(jobs'[k])
                          /\ pc'[v] = "finish" /\ jobs'[k].status = "running" => HoldsUnlessOverrun(k)'
        BY DEF RowInHand, Executing
      <3>1. v # w /\ pc'[v] = pc[v] /\ task[v] = k /\ k # j /\ jobs'[k] = jobs[k]
        BY <1>2, <1>4, <2>2 DEF Execute, Restore
      <3> QED BY <2>5, <3>1 DEF OverrunInv, RowInHand, Executing
    <2>7. LiveUnlessOverrun'
      <3> SUFFICES ASSUME NEW k \in Job, jobs'[k].status = "deployed" PROVE HoldsUnlessOverrun(k)'
        BY DEF LiveUnlessOverrun, InStatus
      <3>1. HoldsUnlessOverrun(k)
        BY <2>1, <2>2 DEF OverrunInv, LiveUnlessOverrun, InStatus
      <3> QED BY <2>5, <3>1
    <2> QED BY <2>3, <2>4, <2>6, <2>7 DEF OverrunInv
  <1> QED BY <1>5, <1>6

\* Enqueueing supersedes the one live job of the target, and no other row.
LEMMA SupersedeFacts ==
  ASSUME OverrunInv, NEW p \in Place, NEW overwrite \in BOOLEAN, Admissible(p, overwrite)
  PROVE  LET U == WithOldSuperseded(p, overwrite)
         IN  \A k \in Job :
                IF jobs[k].status = "deployed" /\ jobs[k].place = p
                THEN U[k] = [jobs[k] EXCEPT !.status = "superseded", !.superseded = TRUE]
                ELSE U[k] = jobs[k]
  <1>1. \A k \in Job : k \in Deployed(jobs, p) <=> jobs[k].status = "deployed" /\ jobs[k].place = p
    BY DEF Deployed, InStatus, At, OverrunInv, OneAtPlace, OneJobPerTarget, Occupying
  <1>2. \A k \in Newest(Deployed(jobs, p)) : k \in Deployed(jobs, p)
    BY DEF Newest
  <1>3. \A k \in Deployed(jobs, p) : k \in Newest(Deployed(jobs, p))
    <2>1. \A k, m \in Deployed(jobs, p) : k = m
      BY <1>1 DEF Deployed, InStatus, OverrunInv, OneAtPlace, OneJobPerTarget, Occupying
    <2>2. \A k \in Deployed(jobs, p) : k \in Nat
      BY JobFacts DEF Deployed, InStatus
    <2> TAKE k \in Deployed(jobs, p)
    <2>3. \A m \in Deployed(jobs, p) : m <= k
      BY <2>1, <2>2
    <2> QED BY <2>3 DEF Newest
  <1>4. CASE overwrite
    BY <1>1, <1>2, <1>3, <1>4 DEF WithOldSuperseded, Supersede
  <1>5. CASE ~overwrite
    <2>1. Deployed(jobs, p) = {} /\ WithOldSuperseded(p, overwrite) = jobs
      BY <1>5 DEF Admissible, WithOldSuperseded
    <2> QED BY <1>1, <2>1
  <1> QED BY <1>4, <1>5

\* What a submission, accepted or refused, does to the rows: the live job of
\* the target makes way, and a new row is alone in occupying the target.
LEMMA SubmitFacts ==
  ASSUME OverrunInv, NEW p \in Place, NEW overwrite \in BOOLEAN,
         Submit(p, overwrite) \/ SubmitRefused(p, overwrite)
  PROVE  /\ UNCHANGED <<pc, task, zombies, req, db>>
         /\ \E new \in Job \cup {NoJob} :
               /\ new # NoJob => jobs[new].status = "absent" /\ jobs'[new] = NewRow("queued", p)
               /\ \A k \in Job \ {new} :
                     IF jobs[k].place = p /\ jobs[k].status = "deployed"
                     THEN jobs'[k] = [jobs[k] EXCEPT !.status = "superseded", !.superseded = TRUE]
                     ELSE jobs'[k] = jobs[k]
         /\ \A k \in Job : jobs[k].place = p => jobs[k].status \notin Active
  <1> DEFINE U == WithOldSuperseded(p, overwrite)
  <1>1. Admissible(p, overwrite) /\ UNCHANGED <<pc, task, zombies, req, db>>
    BY DEF Submit, SubmitRefused, workerVars, targetVars
  <1>2. \A k \in Job : jobs[k].place = p => jobs[k].status \notin Active
    BY <1>1 DEF Admissible, HasActive, InStatus, At, Active
  <1>3. \A k \in Job :
           IF jobs[k].place = p /\ jobs[k].status = "deployed"
           THEN U[k] = [jobs[k] EXCEPT !.status = "superseded", !.superseded = TRUE]
           ELSE U[k] = jobs[k]
    BY <1>1, SupersedeFacts
  <1>4. DOMAIN U = Job
    BY DEF WithOldSuperseded, Supersede, OverrunInv, QueueInv, TypeOK
  <1>5. CASE Submit(p, overwrite)
    <2>1. PICK new \in Job : Fresh(new) /\ jobs' = [U EXCEPT ![new] = NewRow("queued", p)]
      BY <1>5 DEF Submit, InsertQueued
    <2>2. jobs[new].status = "absent" /\ jobs'[new] = NewRow("queued", p)
      BY <1>4, <2>1 DEF Fresh
    <2>3. \A k \in Job \ {new} : jobs'[k] = U[k]
      BY <1>4, <2>1
    <2>4. /\ new \in Job \cup {NoJob}
          /\ \A k \in Job \ {new} :
                IF jobs[k].place = p /\ jobs[k].status = "deployed"
                THEN jobs'[k] = [jobs[k] EXCEPT !.status = "superseded", !.superseded = TRUE]
                ELSE jobs'[k] = jobs[k]
      BY <1>3, <2>3
    <2> QED BY <1>1, <1>2, <2>2, <2>4
  <1>6. CASE SubmitRefused(p, overwrite)
    <2>1. jobs' = U
      BY <1>6 DEF SubmitRefused
    <2>2. \A k \in Job \ {NoJob} :
             IF jobs[k].place = p /\ jobs[k].status = "deployed"
             THEN jobs'[k] = [jobs[k] EXCEPT !.status = "superseded", !.superseded = TRUE]
             ELSE jobs'[k] = jobs[k]
      BY <1>3, <2>1
    <2> QED BY <1>1, <1>2, <2>2
  <1> QED BY <1>5, <1>6

\* A submission: the new row is alone in occupying its target.
LEMMA SubmitKeepsOverrun ==
  ASSUME OverrunInv, QueueInv', NEW p \in Place, NEW overwrite \in BOOLEAN,
         Submit(p, overwrite) \/ SubmitRefused(p, overwrite)
  PROVE  OverrunInv'
  <1>1. /\ UNCHANGED <<pc, task, zombies, req, db>>
        /\ \A k \in Job : jobs[k].place = p => jobs[k].status \notin Active
    BY SubmitFacts
  <1>2. PICK new \in Job \cup {NoJob} :
           /\ new # NoJob => jobs[new].status = "absent" /\ jobs'[new] = NewRow("queued", p)
           /\ \A k \in Job \ {new} :
                 IF jobs[k].place = p /\ jobs[k].status = "deployed"
                 THEN jobs'[k] = [jobs[k] EXCEPT !.status = "superseded", !.superseded = TRUE]
                 ELSE jobs'[k] = jobs[k]
    BY SubmitFacts
  <1>3. jobs \in [Job -> Row] /\ NoJob \notin Job
    BY JobFacts DEF OverrunInv, QueueInv, TypeOK
  <1>4. \A k \in Job : jobs[k].status \notin {"absent", "deployed"} => jobs'[k] = jobs[k]
    BY <1>2, <1>3
  <1>5. new \in Job => /\ jobs'[new].status = "queued" /\ jobs'[new].place = p
                        /\ ~jobs'[new].superseded
    <2>1. new \in Job => jobs'[new] = NewRow("queued", p)
      BY <1>2, <1>3
    <2> QED BY <2>1 DEF NewRow
  <1>6. \A k \in Job \ {new} : jobs'[k].status \in Occupying =>
            jobs'[k] = jobs[k] /\ jobs[k].place # p
    BY <1>1, <1>2, <1>3 DEF Occupying, Active, Row
  <1>7. OneAtPlace'
    <2>1. \A j, k \in Job :
             {jobs'[j].status, jobs'[k].status} \subseteq Occupying /\ j # k
                 => jobs'[j].place # jobs'[k].place
      <3> TAKE j, k \in Job
      <3>1. CASE j = new
        BY <1>5, <1>6, <3>1
      <3>2. CASE k = new
        BY <1>5, <1>6, <3>2
      <3>3. CASE j # new /\ k # new
        BY <1>6, <3>3 DEF OverrunInv, OneAtPlace, OneJobPerTarget
      <3> QED BY <3>1, <3>2, <3>3
    <2>2. \A j \in Job : jobs'[j].status \in Occupying => ~jobs'[j].superseded
      <3> TAKE j \in Job
      <3>1. CASE j = new
        BY <1>5, <3>1
      <3>2. CASE j # new
        BY <1>6, <3>2 DEF OverrunInv, OneAtPlace
      <3> QED BY <3>1, <3>2
    <2> QED BY <2>1, <2>2 DEF OneAtPlace, OneJobPerTarget
  <1>8. WebMarksRecorded'
    <2>1. \A c \in Client : req[c].path = "web" /\ req[c].stage = "mark" =>
             req[c].job \in Job /\ jobs[req[c].job].status \notin {"absent", "deployed"}
      BY <1>3 DEF OverrunInv, QueueInv, TypeOK, RequestType, WebMarksRecorded, Recorded, Active, Ended
    <2> QED BY <1>1, <1>4, <2>1 DEF OverrunInv, WebMarksRecorded
  <1>9. \A k \in Job : jobs[k].status \notin {"absent"} /\ HoldsUnlessOverrun(k) /\ jobs'[k].status \in Occupying
           => HoldsUnlessOverrun(k)'
    <2> SUFFICES ASSUME NEW k \in Job, jobs[k].status # "absent", HoldsUnlessOverrun(k),
                        jobs'[k].status \in Occupying
                 PROVE  HoldsUnlessOverrun(k)'
      OBVIOUS
    <2>1. jobs'[k].place = jobs[k].place
      BY <1>2, <1>3, <1>6
    <2>2. \A i \in Job : jobs[i].status \in Ended => jobs'[i] = jobs[i]
      BY <1>4 DEF Ended
    <2> QED BY <1>1, <2>1, <2>2 DEF HoldsUnlessOverrun, InStatus, Ended
  <1>10. RowInHand'
    <2> SUFFICES ASSUME NEW v \in Worker, NEW k \in Job, pc[v] \in Execute, task[v] = k
                 PROVE  /\ jobs'[k].status \in LeftOver
                        /\ pc[v] \in Restore /\ jobs'[k].status = "running" => Shut(jobs'[k])
                        /\ pc[v] = "finish" /\ jobs'[k].status = "running" => HoldsUnlessOverrun(k)'
      BY <1>1 DEF RowInHand, Executing
    <2>1. jobs[k].status \in LeftOver
      BY ExecuteFacts
    <2>2. jobs'[k] = jobs[k]
      BY <1>4, <2>1 DEF LeftOver, Ended
    <2> QED BY <1>9, <2>1, <2>2 DEF OverrunInv, RowInHand, Executing, LeftOver, Ended, Occupying, Active
  <1>11. LiveUnlessOverrun'
    <2> SUFFICES ASSUME NEW k \in Job, jobs'[k].status = "deployed" PROVE HoldsUnlessOverrun(k)'
      BY DEF LiveUnlessOverrun, InStatus
    <2>1. k # new
      BY <1>5
    <2>2. jobs'[k] = jobs[k]
      BY <1>6, <2>1 DEF Occupying
    <2>3. HoldsUnlessOverrun(k)
      BY <2>2 DEF OverrunInv, LiveUnlessOverrun, InStatus
    <2> QED BY <1>9, <2>2, <2>3 DEF Occupying
  <1> QED BY <1>7, <1>8, <1>10, <1>11 DEF OverrunInv

\* Cancel requests: the web pages mark only what they have recorded.
LEMMA ClientKeepsOverrun ==
  ASSUME OverrunInv, QueueInv', NEW c \in Client, ClientStep(c)
  PROVE  OverrunInv'
  <1> DEFINE j == req[c].job
  <1>1. TypeOK /\ jobs \in [Job -> Row] /\ req \in [Client -> RequestType]
    BY DEF OverrunInv, QueueInv, TypeOK
  <1>2. UNCHANGED <<pc, task, zombies, db>>
    BY DEF ClientStep, CancelRead, WebCancel, ApiCancel, CancelMark, workerVars, targetVars
  <1>3. \A k \in Client : req[k].stage # "read" => req[k].job \in Job
    BY <1>1 DEF TypeOK, RequestType
  <1>4. Orderly(jobs, jobs')
    <2>1. CASE \E path \in CancelPaths, k \in Job : CancelRead(c, path, k)
      <3>1. jobs' = jobs
        BY <2>1 DEF CancelRead
      <3> QED BY <3>1, <1>1 DEF Orderly
    <2>2. CASE WebCancel(c) \/ ApiCancel(c) \/ CancelMark(c)
      <3>1. j \in Job
        BY <1>3, <2>2 DEF WebCancel, ApiCancel, CancelMark
      <3>2. \/ jobs' = RequestCancellation(jobs, j)
            \/ jobs' = MarkCanceling(jobs, j)
            \/ jobs' = MarkCanceled(jobs, j)
        BY <2>2 DEF WebCancel, ApiCancel, CancelMark
      <3> QED BY <1>1, <3>1, <3>2, UpdateOrderly
    <2> QED BY <2>1, <2>2 DEF ClientStep
  <1>5. \A k \in Client \ {c} : req'[k] = req[k]
    BY <1>1 DEF ClientStep, CancelRead, WebCancel, ApiCancel, CancelMark, CancelNext
  <1>6. req'[c].path = "web" /\ req'[c].stage = "mark" => Recorded(jobs'[req'[c].job])
    <2>1. CASE \E path \in CancelPaths, k \in Job : CancelRead(c, path, k)
      BY <1>1, <2>1 DEF CancelRead
    <2>2. CASE WebCancel(c)
      <3>1. j \in Job
        BY <1>3, <2>2 DEF WebCancel
      <3>2. CASE CanRequestCancel(jobs, j) /\ req[c].seen = "queued"
        <4>1. req'[c].job = j
          BY <1>1, <2>2, <3>2 DEF WebCancel, CancelNext, RequestType
        <4>2. jobs'[j].cancelReq /\ jobs'[j].status = jobs[j].status
          BY <1>1, <2>2, <3>1, <3>2 DEF WebCancel, RequestCancellation, Row
        <4> QED BY <3>2, <4>1, <4>2 DEF CanRequestCancel, Recorded, Active
      <3>3. CASE ~(CanRequestCancel(jobs, j) /\ req[c].seen = "queued")
        BY <1>1, <2>2, <3>3 DEF WebCancel, CancelNext, NoRequest
      <3> QED BY <3>2, <3>3
    <2>3. CASE ApiCancel(c)
      BY <1>1, <2>3 DEF ApiCancel, CancelNext, NoRequest, RequestType
    <2>4. CASE CancelMark(c)
      BY <1>1, <2>4 DEF CancelMark, CancelNext, NoRequest
    <2> QED BY <2>1, <2>2, <2>3, <2>4 DEF ClientStep
  <1>7. WebMarksRecorded'
    <2> SUFFICES ASSUME NEW k \in Client, req'[k].path = "web", req'[k].stage = "mark"
                 PROVE  Recorded(jobs'[req'[k].job])
      BY DEF WebMarksRecorded
    <2>1. CASE k # c
      <3>1. Recorded(jobs[req[k].job]) /\ req[k].job \in Job /\ req'[k] = req[k]
        BY <1>3, <1>5, <2>1 DEF OverrunInv, WebMarksRecorded
      <3> QED BY <1>4, <3>1 DEF Orderly
    <2> QED BY <1>6, <2>1
  <1> QED BY <1>2, <1>4, <1>7, NobodyAssumption, OrderlyStep

\* Crashes, and hosts that close and open.
LEMMA EnvironmentKeepsOverrun ==
  ASSUME OverrunInv, QueueInv',
         \/ \E w \in Worker : Crash(w)
         \/ \E h \in Host : CloseHost(h) \/ OpenHost(h)
         \/ UNCHANGED vars
  PROVE  OverrunInv'
  <1>1. jobs' = jobs /\ req' = req /\ db' = db
    BY DEF Crash, CloseHost, OpenHost, vars, targetVars
  <1>2. Orderly(jobs, jobs')
    BY <1>1 DEF Orderly
  <1>3. WebMarksRecorded'
    BY <1>1, <1>2, MarksKept
  <1>4. CASE \E w \in Worker : Crash(w)
    <2>1. PICK w \in Worker : Crash(w)
      BY <1>4
    <2>2. pc'[w] = "down" /\ \A v \in Worker \ {w} : pc'[v] = pc[v] /\ task'[v] = task[v]
      BY <2>1, GotoFacts DEF Crash, OverrunInv, QueueInv
    <2>3. pc'[w] \notin Execute
      BY <2>2 DEF Execute, Restore
    <2> QED BY <1>1, <1>2, <1>3, <2>2, <2>3, OrderlyStep
  <1>5. CASE ~\E w \in Worker : Crash(w)
    <2>1. pc' = pc /\ task' = task
      BY <1>5 DEF CloseHost, OpenHost, vars, workerVars
    <2> QED BY <1>1, <1>2, <1>3, <2>1, NobodyAssumption, OrderlyStep
  <1> QED BY <1>4, <1>5

LEMMA OverrunStep == OverrunInv /\ QueueInv' /\ [Next]_vars => OverrunInv'
  <1> SUFFICES ASSUME OverrunInv, QueueInv', [Next]_vars PROVE OverrunInv'
    OBVIOUS
  <1>1. ASSUME NEW p \in Place, NEW overwrite \in BOOLEAN,
               Submit(p, overwrite) \/ SubmitRefused(p, overwrite)
        PROVE  OverrunInv'
    BY <1>1, SubmitKeepsOverrun
  <1>2. ASSUME NEW c \in Client, ClientStep(c) PROVE OverrunInv'
    BY <1>2, ClientKeepsOverrun
  <1>3. ASSUME NEW w \in Worker, WorkerStep(w) PROVE OverrunInv'
    <2>1. CASE EnterRestore(w)
      BY <2>1, GateKeepsOverrun
    <2>2. CASE BeginLoad(w) \/ FinishLoad(w) \/ RenameIntoTarget(w)
      BY <2>2, LoadKeepsOverrun
    <2>3. CASE FailJob(w)
      BY <2>3, FailKeepsOverrun
    <2>4. CASE FinishJob(w)
      BY <2>4, FinishKeepsOverrun
    <2>5. CASE \/ Start(w) \/ FailZombie(w) \/ ClaimSelect(w) \/ ClaimCommit(w)
               \/ CancelAtCheckpoint(w) \/ PassCheckpoint(w) \/ FailJobAgain(w)
               \/ RecoverSelect(w) \/ RecoverConfirm(w) \/ RecoverGiveUp(w)
               \/ RecoverDrop(w) \/ RecoverMark(w)
      BY <2>5, PrepareKeepsOverrun
    <2> QED BY <1>3, <2>1, <2>2, <2>3, <2>4, <2>5 DEF WorkerStep
  <1>4. CASE \/ \E w \in Worker : Crash(w)
             \/ \E h \in Host : CloseHost(h) \/ OpenHost(h)
             \/ UNCHANGED vars
    BY <1>4, EnvironmentKeepsOverrun
  <1> QED BY <1>1, <1>2, <1>3, <1>4 DEF Next

LEMMA InitOverrun == Init => OverrunInv
  <1> SUFFICES ASSUME Init PROVE OverrunInv
    OBVIOUS
  <1>1. QueueInv
    BY InitInv
  <1>2. \A j \in Job : jobs[j].status = "absent"
    BY DEF Init, EmptyTable, NewRow
  <1>3. \A w \in Worker : pc[w] \notin Execute
    BY DEF Init, Execute, Restore
  <1>4. \A c \in Client : req[c].stage # "mark"
    BY DEF Init, NoRequest
  <1>5. OneAtPlace /\ LiveUnlessOverrun
    BY <1>2 DEF OneAtPlace, OneJobPerTarget, LiveUnlessOverrun, InStatus, Occupying, Active
  <1> QED BY <1>1, <1>3, <1>4, <1>5 DEF OverrunInv, RowInHand, WebMarksRecorded, Executing

\* The rows and the targets agree up to overrun restores, with any number of
\* stalls, sweeps of live workers and cancellations by the API.
THEOREM OverrunInvHolds == Spec => []OverrunInv
  <1>1. Init => OverrunInv
    BY InitOverrun
  <1>2. OverrunInv /\ QueueInv' /\ [Next]_vars => OverrunInv'
    BY OverrunStep
  <1>3. Spec => []QueueInv
    BY InvHolds
  <1> QED BY <1>1, <1>2, <1>3, PTL DEF Spec

\* A target has one job at a time that is under way or live.
THEOREM OneJobAtATarget == Spec => []OneJobPerTarget
  <1>1. OverrunInv => OneJobPerTarget
    BY DEF OverrunInv, OneAtPlace
  <1> QED BY <1>1, OverrunInvHolds, PTL

\* A deployed job's database is there, unless a restore that was failed or
\* cancelled behind its worker's back has overrun it.
THEOREM LiveOrOverrun == Spec => []LiveUnlessOverrun
  <1>1. OverrunInv => LiveUnlessOverrun
    BY DEF OverrunInv
  <1> QED BY <1>1, OverrunInvHolds, PTL

\* The web pages cancel no restore past the gate, whatever the API, a sweep or
\* a recovery does beside them.
THEOREM WebStopsAtTheGate == Spec => WebRespectsGate
  <1>1. OverrunInv /\ [Next]_vars =>
          [\A c \in Client, w \in Worker :
              req[c].path = "web" /\ req'[c] # req[c] /\ Restoring(w)
              /\ task[w] = req[c].job /\ jobs[task[w]].status = "running"
                  => jobs'[task[w]] = jobs[task[w]]]_vars
    <2> SUFFICES ASSUME OverrunInv, Next, NEW c \in Client, NEW w \in Worker,
                        req[c].path = "web", req'[c] # req[c], pc[w] \in Restore,
                        task[w] = req[c].job, jobs[task[w]].status = "running"
                 PROVE  jobs'[task[w]] = jobs[task[w]]
      BY DEF Restoring
    <2> DEFINE j == task[w]
    <2>1. /\ j \in Job /\ req \in [Client -> RequestType]
          /\ Shut(jobs[j])
      <3>1. pc[w] \in Execute
        BY DEF Execute
      <3> QED BY <3>1, ExecuteFacts DEF OverrunInv, QueueInv, TypeOK, RowInHand, Executing
    <2>2. PICK d \in Client : ClientStep(d)
      BY DEF Next, Submit, SubmitRefused, WorkerStep, Start, FailZombie, ClaimSelect, ClaimCommit,
             CancelAtCheckpoint, PassCheckpoint, EnterRestore, BeginLoad, FinishLoad,
             RenameIntoTarget, FinishJob, FailJob, FailJobAgain, RecoverSelect, RecoverConfirm,
             RecoverGiveUp, RecoverDrop, RecoverMark, Crash, CloseHost, OpenHost
    <2>3. d = c
      BY <2>1, <2>2 DEF ClientStep, CancelRead, WebCancel, ApiCancel, CancelMark, CancelNext
    <2>4. CASE \E path \in CancelPaths, k \in Job : CancelRead(c, path, k)
      BY <2>4 DEF CancelRead
    <2>5. CASE WebCancel(c)
      BY <2>1, <2>5 DEF WebCancel, RequestCancellation, CanRequestCancel, Shut
    <2>6. CASE ApiCancel(c)
      BY <2>6 DEF ApiCancel
    <2>7. CASE CancelMark(c)
      BY <2>1, <2>7 DEF CancelMark, OverrunInv, WebMarksRecorded, Recorded, Shut, Ended
    <2> QED BY <2>2, <2>3, <2>4, <2>5, <2>6, <2>7 DEF ClientStep
  <1> QED BY <1>1, OverrunInvHolds, PTL DEF Spec, WebRespectsGate

=============================================================================
