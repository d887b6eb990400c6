---------------------------- MODULE RestoreQueue ----------------------------
(***************************************************************************)
(* The restore queue: workers that claim jobs, restore them into a target  *)
(* database and report the outcome, the users who submit and cancel jobs,  *)
(* worker crashes, and the two recoveries of a crashed worker's jobs (the  *)
(* zombie sweep of a starting worker and the stale-running recovery of an  *)
(* idle one).                                                              *)
(*                                                                         *)
(* A step is one statement on the service database or one operation on the *)
(* target host, so everything a handler reads before a statement may be    *)
(* out of date when the statement runs.                                    *)
(***************************************************************************)
EXTENDS JobsTable

CONSTANTS
    Client,         \* concurrent cancel requests (HTTP handlers)
    CancelPaths,    \* which handlers users reach: "web", "api"
    StartWhenIdle,  \* deployment: a worker starts only while the others are idle
    Stalls,         \* a live worker may write no event for 15 minutes
    MaxCrash,       \* bound: worker crashes
    MaxClose        \* bound: times a host is disabled or maintenance turned on

ASSUME PathsAssumption == CancelPaths \subseteq {"web", "api"}
ASSUME FlagsAssumption == StartWhenIdle \in BOOLEAN /\ Stalls \in BOOLEAN
ASSUME BoundsAssumption == MaxCrash \in Nat /\ MaxClose \in Nat

VARIABLES
    jobs,     \* the jobs table
    pc,       \* where each worker is in its poll loop
    task,     \* the job each worker has in hand, NoJob if none
    zombies,  \* the running jobs a starting worker's sweep has still to fail
    req,      \* the cancel request each client has in progress
    staging,  \* the staging database of each job
    db,       \* the job whose restore each target database holds
    open,     \* hosts that are enabled, outside maintenance mode
    crashes,  \* worker crashes so far
    closes    \* host closings so far

vars == <<jobs, pc, task, zombies, req, staging, db, open, crashes, closes>>

workerVars == <<pc, task, zombies>>
targetVars == <<staging, db>>
adminVars  == <<open, closes>>

NoJob == 0

NoRequest == [path |-> "none", job |-> NoJob, seen |-> "queued", stage |-> "read"]

RequestType == [path : {"none", "web", "api"}, job : Job \cup {NoJob},
                seen : {"queued", "running"}, stage : {"read", "request", "mark"}]

-----------------------------------------------------------------------------
(* Worker phases *)

\* From lock_for_restore to mark_job_deployed: the job is past the point of
\* no return.
Restore == {"restore", "load", "staged", "finish"}

Execute == {"prep", "gate"} \cup Restore

Phase == {"down", "startup", "idle", "claiming", "raise", "verify", "drop",
          "recover"} \cup Execute

Executing(w, j) == pc[w] \in Execute /\ task[w] = j

Restoring(w) == pc[w] \in Restore

\* myloader holds connections to the staging database while it loads.
Connected(j) == \E w \in Worker : pc[w] = "load" /\ task[w] = j

\* A claim holds the row locks of its job and of the job's host.
Locked(j) == \E w \in Worker : pc[w] = "claiming" /\ task[w] = j

HostLocked(h) == \E w \in Worker : pc[w] = "claiming" /\ HostOf(jobs, task[w]) = h

Goto(w, phase, j) ==
    /\ pc' = [pc EXCEPT ![w] = phase]
    /\ task' = [task EXCEPT ![w] = j]

Init ==
    /\ jobs = EmptyTable
    /\ pc = [w \in Worker |-> "down"]
    /\ task = [w \in Worker |-> NoJob]
    /\ zombies = {}
    /\ req = [c \in Client |-> NoRequest]
    /\ staging = [j \in Job |-> "none"]
    /\ db = [p \in Place |-> NoJob]
    /\ open = Host
    /\ crashes = 0
    /\ closes = 0

-----------------------------------------------------------------------------
(* Submission: enqueue_job with every check it makes, as one step *)

Fresh(j) ==
    /\ jobs[j].status = "absent"
    /\ \A k \in Job : k < j => jobs[k].status # "absent"

Admissible(p, overwrite) ==
    /\ ~HasActive(jobs, p)
    /\ LockedAt(jobs, p) = {}
    /\ Deployed(jobs, p) # {} \/ db[p] # NoJob => overwrite

WithOldSuperseded_Faulty(p, overwrite) == jobs

\* The owner's deployed job is superseded before the limits are checked and
\* before the new row is inserted.
WithOldSuperseded(p, overwrite) ==
    IF overwrite THEN Supersede(jobs, Newest(Deployed(jobs, p))) ELSE jobs

Submit(p, overwrite) ==
    /\ Admissible(p, overwrite)
    /\ \E j \in Job :
          /\ Fresh(j)
          /\ jobs' = InsertQueued(WithOldSuperseded(p, overwrite), j, p)
    /\ UNCHANGED <<workerVars, req, targetVars, adminVars, crashes>>

\* A concurrency limit or the host's capacity refuses the job.
SubmitRefused(p, overwrite) ==
    /\ Admissible(p, overwrite)
    /\ \E j \in Job : Fresh(j)
    /\ jobs' = WithOldSuperseded(p, overwrite)
    /\ UNCHANGED <<workerVars, req, targetVars, adminVars, crashes>>

-----------------------------------------------------------------------------
(* Cancellation: the handler reads the job, then acts on what it read *)

CancelRead(c, path, j) ==
    /\ req[c] = NoRequest
    /\ path \in CancelPaths
    /\ jobs[j].status \in {"queued", "running"}
    /\ jobs[j].canCancel
    /\ req' = [req EXCEPT ![c] = [path |-> path, job |-> j,
                                  seen |-> jobs[j].status, stage |-> "request"]]
    /\ UNCHANGED <<jobs, workerVars, targetVars, adminVars, crashes>>

CancelNext(c, more) ==
    req' = [req EXCEPT ![c] = IF more THEN [req[c] EXCEPT !.stage = "mark"]
                                      ELSE NoRequest]

\* The web pages and the bulk cancel go on only if the request was recorded.
WebCancel(c) ==
    LET j == req[c].job
    IN  /\ req[c].path = "web"
        /\ req[c].stage = "request"
        /\ ~Locked(j)
        /\ jobs' = RequestCancellation(jobs, j)
        /\ CancelNext(c, CanRequestCancel(jobs, j) /\ req[c].seen = "queued")
        /\ UNCHANGED <<workerVars, targetVars, adminVars, crashes>>

\* The API moves a running job to canceling; for a job it read as queued it
\* ignores whether the request was recorded.
ApiCancel(c) ==
    LET j == req[c].job
    IN  /\ req[c].path = "api"
        /\ req[c].stage = "request"
        /\ ~Locked(j)
        /\ jobs' = IF req[c].seen = "running" THEN MarkCanceling(jobs, j)
                                              ELSE RequestCancellation(jobs, j)
        /\ CancelNext(c, req[c].seen = "queued")
        /\ UNCHANGED <<workerVars, targetVars, adminVars, crashes>>

CancelMark(c) ==
    /\ req[c].stage = "mark"
    /\ ~Locked(req[c].job)
    /\ jobs' = MarkCanceled(jobs, req[c].job)
    /\ CancelNext(c, FALSE)
    /\ UNCHANGED <<workerVars, targetVars, adminVars, crashes>>

-----------------------------------------------------------------------------
(* Worker start-up and the zombie sweep *)

Others(w) == Worker \ {w}

\* cleanup_orphaned_staging drops every staging database of the target that
\* has no connection.
WithoutOrphans(p) ==
    [k \in Job |-> IF jobs[k].place = p /\ ~Connected(k) THEN "none" ELSE staging[k]]

\* The sweep runs under an advisory lock; a worker that finds it held skips it.
Start(w) ==
    /\ pc[w] = "down"
    /\ StartWhenIdle => \A v \in Others(w) : pc[v] \in {"down", "idle"}
    /\ LET running == InStatus(jobs, {"running"})
           held    == \E v \in Others(w) : pc[v] = "startup"
       IN  IF held \/ running = {}
           THEN Goto(w, "idle", NoJob) /\ UNCHANGED zombies
           ELSE Goto(w, "startup", NoJob) /\ zombies' = running
    /\ UNCHANGED <<jobs, req, targetVars, adminVars, crashes>>

\* One job of the sweep, oldest first.  Dropping staging databases is best
\* effort; the job is failed whatever its status has become.
FailZombie(w) ==
    /\ pc[w] = "startup"
    /\ \E j \in zombies :
          /\ \A k \in zombies : j <= k
          /\ jobs' = MarkFailed(jobs, j)
          /\ staging' \in {staging, WithoutOrphans(jobs[j].place)}
          /\ zombies' = zombies \ {j}
    /\ Goto(w, IF zombies' = {} THEN "idle" ELSE "startup", NoJob)
    /\ UNCHANGED <<req, db, adminVars, crashes>>

-----------------------------------------------------------------------------
(* Claiming: SELECT ... FOR UPDATE SKIP LOCKED, then the UPDATE and commit *)

Claimable_FaultyNoLock ==
    {j \in InStatus(jobs, {"queued"}) :
        LET h == HostOf(jobs, j)
        IN  h \in open /\ Cardinality(RunningOn(jobs, h)) < MaxRunning[h]}

Claimable_FaultyJobLockOnly ==
    {j \in Claimable_FaultyNoLock : ~Locked(j)}

Claimable_FaultyCountsQueued ==
    {j \in InStatus(jobs, {"queued"}) :
        LET h == HostOf(jobs, j)
        IN  /\ h \in open
            /\ ~HostLocked(h)
            /\ Cardinality({k \in InStatus(jobs, Active) : HostOf(jobs, k) = h})
                  < MaxRunning[h]}

Claimable ==
    {j \in InStatus(jobs, {"queued"}) :
        LET h == HostOf(jobs, j)
        IN  /\ h \in open
            /\ ~HostLocked(h)
            /\ Cardinality(RunningOn(jobs, h)) < MaxRunning[h]}

ClaimSelect(w) ==
    /\ pc[w] = "idle"
    /\ \E j \in Claimable :
          /\ \A k \in Claimable : j <= k
          /\ Goto(w, "claiming", j)
    /\ UNCHANGED <<jobs, zombies, req, targetVars, adminVars, crashes>>

ClaimCommit(w) ==
    /\ pc[w] = "claiming"
    /\ jobs' = Claimed(jobs, task[w], w)
    /\ Goto(w, "prep", task[w])
    /\ UNCHANGED <<zombies, req, targetVars, adminVars, crashes>>

-----------------------------------------------------------------------------
(* Executing a job *)

\* Pre-flight, discovery, download and extraction poll should_abort_job; the
\* last checkpoint before the restore reads only the cancellation request.
CancelAtCheckpoint(w) ==
    /\ pc[w] = "prep"
    /\ ShouldAbort(jobs, task[w])
    /\ jobs' = MarkCanceled(jobs, task[w])
    /\ Goto(w, "idle", NoJob)
    /\ UNCHANGED <<zombies, req, targetVars, adminVars, crashes>>

PassCheckpoint(w) ==
    /\ pc[w] = "prep"
    /\ ~IsCancellationRequested(jobs, task[w])
    /\ Goto(w, "gate", task[w])
    /\ UNCHANGED <<jobs, zombies, req, targetVars, adminVars, crashes>>

\* lock_for_restore, the point of no return.
EnterRestore(w) ==
    /\ pc[w] = "gate"
    /\ LET j == task[w]
       IN  IF CanLockForRestore(jobs, j)
           THEN /\ jobs' = LockForRestore(jobs, j, w)
                /\ Goto(w, "restore", j)
           ELSE /\ jobs' = MarkCanceled(jobs, j)
                /\ Goto(w, "idle", NoJob)
    /\ UNCHANGED <<zombies, req, targetVars, adminVars, crashes>>

\* Orphans of the target are dropped, then the job's own staging database is
\* created with its metadata table.
BeginLoad(w) ==
    /\ pc[w] = "restore"
    /\ staging' = [WithoutOrphans(jobs[task[w]].place) EXCEPT ![task[w]] = "partial"]
    /\ Goto(w, "load", task[w])
    /\ UNCHANGED <<jobs, zombies, req, db, adminVars, crashes>>

\* myloader may finish before its output is polled again, so a job that
\* should abort may still be loaded.
FinishLoad(w) ==
    /\ pc[w] = "load"
    /\ staging[task[w]] = "partial"
    /\ staging' = [staging EXCEPT ![task[w]] = "full"]
    /\ Goto(w, "staged", task[w])
    /\ UNCHANGED <<jobs, zombies, req, db, adminVars, crashes>>

\* Post-SQL and metadata, then the rename of the staging database's tables
\* into a new target database.
RenameIntoTarget(w) ==
    /\ pc[w] = "staged"
    /\ staging[task[w]] = "full"
    /\ db' = [db EXCEPT ![jobs[task[w]].place] = task[w]]
    /\ staging' = [staging EXCEPT ![task[w]] = "none"]
    /\ Goto(w, "finish", task[w])
    /\ UNCHANGED <<jobs, zombies, req, adminVars, crashes>>

\* The result of mark_job_deployed is ignored.
FinishJob(w) ==
    /\ pc[w] = "finish"
    /\ jobs' = MarkDeployed(jobs, task[w])
    /\ Goto(w, "idle", NoJob)
    /\ UNCHANGED <<zombies, req, targetVars, adminVars, crashes>>

\* Any phase may raise: the executor fails the job and re-raises.  myloader is
\* aborted this way too.  The rename may already have dropped the old target.
FailJob(w) ==
    /\ pc[w] \in Execute
    /\ jobs' = MarkFailed(jobs, task[w])
    /\ db' \in IF pc[w] = "staged"
               THEN {db, [db EXCEPT ![jobs[task[w]].place] = NoJob]}
               ELSE {db}
    /\ Goto(w, "raise", task[w])
    /\ UNCHANGED <<zombies, req, staging, adminVars, crashes>>

\* The poll loop catches the exception and fails the job a second time.
FailJobAgain(w) ==
    /\ pc[w] = "raise"
    /\ jobs' = MarkFailed(jobs, task[w])
    /\ Goto(w, "idle", NoJob)
    /\ UNCHANGED <<zombies, req, targetVars, adminVars, crashes>>

-----------------------------------------------------------------------------
(* Stale-running recovery, when there is nothing to claim *)

Silent_FaultyTooSoon(j) == TRUE

Silent_FaultyAsksProcess(j) == \A w \in Worker : jobs[j].worker = w => pc[w] = "down"

Silent(j) == Stalls \/ ~\E w \in Worker : Executing(w, j)

RecoverSelect(w) ==
    /\ pc[w] = "idle"
    /\ Claimable = {}
    /\ \E j \in InStatus(jobs, {"running"}) :
          /\ Silent(j)
          /\ NewestForName(jobs, j)
          /\ Goto(w, "verify", j)
    /\ UNCHANGED <<jobs, zombies, req, targetVars, adminVars, crashes>>

\* The process list shows no activity on the staging database.
RecoverConfirm(w) ==
    /\ pc[w] = "verify"
    /\ ~Connected(task[w])
    /\ Goto(w, "drop", task[w])
    /\ UNCHANGED <<jobs, zombies, req, targetVars, adminVars, crashes>>

\* It shows activity, or it cannot be read: the job is left for later.
RecoverGiveUp(w) ==
    /\ pc[w] = "verify"
    /\ Goto(w, "idle", NoJob)
    /\ UNCHANGED <<jobs, zombies, req, targetVars, adminVars, crashes>>

\* A drop that fails does not stop the recovery.
RecoverDrop(w) ==
    /\ pc[w] = "drop"
    /\ staging' \in {staging, [staging EXCEPT ![task[w]] = "none"]}
    /\ Goto(w, "recover", task[w])
    /\ UNCHANGED <<jobs, zombies, req, db, adminVars, crashes>>

RecoverMark(w) ==
    /\ pc[w] = "recover"
    /\ jobs' = MarkStaleFailed(jobs, task[w], w)
    /\ Goto(w, "idle", NoJob)
    /\ UNCHANGED <<zombies, req, targetVars, adminVars, crashes>>

-----------------------------------------------------------------------------
(* The environment *)

\* A crash rolls back an open claim, closes the worker's connections and
\* releases the advisory lock.
Crash(w) ==
    /\ pc[w] # "down"
    /\ crashes < MaxCrash
    /\ crashes' = crashes + 1
    /\ zombies' = IF pc[w] = "startup" THEN {} ELSE zombies
    /\ Goto(w, "down", NoJob)
    /\ UNCHANGED <<jobs, req, targetVars, adminVars>>

\* An administrator disables the host or turns maintenance mode on.
CloseHost(h) ==
    /\ h \in open
    /\ closes < MaxClose
    /\ open' = open \ {h}
    /\ closes' = closes + 1
    /\ UNCHANGED <<jobs, workerVars, req, targetVars, crashes>>

OpenHost(h) ==
    /\ h \notin open
    /\ open' = open \cup {h}
    /\ UNCHANGED <<jobs, workerVars, req, targetVars, closes, crashes>>

-----------------------------------------------------------------------------

\* The steps of a running worker; which of them are failures is the
\* environment's choice.
WorkerStep(w) ==
    \/ Start(w) \/ FailZombie(w)
    \/ ClaimSelect(w) \/ ClaimCommit(w)
    \/ CancelAtCheckpoint(w) \/ PassCheckpoint(w) \/ EnterRestore(w)
    \/ BeginLoad(w) \/ FinishLoad(w) \/ RenameIntoTarget(w) \/ FinishJob(w)
    \/ FailJob(w) \/ FailJobAgain(w)
    \/ RecoverSelect(w) \/ RecoverConfirm(w) \/ RecoverGiveUp(w)
    \/ RecoverDrop(w) \/ RecoverMark(w)

ClientStep(c) ==
    \/ \E path \in CancelPaths, j \in Job : CancelRead(c, path, j)
    \/ WebCancel(c) \/ ApiCancel(c) \/ CancelMark(c)

Next ==
    \/ \E p \in Place, overwrite \in BOOLEAN :
          Submit(p, overwrite) \/ SubmitRefused(p, overwrite)
    \/ \E c \in Client : ClientStep(c)
    \/ \E w \in Worker : WorkerStep(w) \/ Crash(w)
    \/ \E h \in Host : CloseHost(h) \/ OpenHost(h)

Spec == Init /\ [][Next]_vars

\* systemd restarts a failed worker and its poll loop never stops, hosts are
\* reopened, and the process list of a host is readable now and again.  Users
\* and crashes are under no obligation.
Fairness ==
    /\ \A w \in Worker : WF_vars(WorkerStep(w)) /\ SF_vars(RecoverConfirm(w))
    /\ \A h \in Host : WF_vars(OpenHost(h))

FairSpec == Spec /\ Fairness

-----------------------------------------------------------------------------
(* Invariants *)

\* Every variable keeps its type; a worker holds a job exactly in the phases
\* that work on one.
TypeOK ==
    /\ jobs \in [Job -> Row]
    /\ pc \in [Worker -> Phase]
    /\ task \in [Worker -> Job \cup {NoJob}]
    /\ \A w \in Worker : task[w] = NoJob <=> pc[w] \in {"down", "startup", "idle"}
    /\ zombies \subseteq Job
    /\ req \in [Client -> RequestType]
    /\ \A c \in Client : req[c].stage # "read" => req[c].job # NoJob
    /\ staging \in [Job -> {"none", "partial", "full"}]
    /\ db \in [Place -> Job \cup {NoJob}]
    /\ open \subseteq Host
    /\ crashes \in 0 .. MaxCrash
    /\ closes \in 0 .. MaxClose

\* However many workers claim at once, the running jobs of a host never exceed
\* its max_running_jobs (claim_next_job counts them under row locks).
HostCapacity ==
    \A h \in Host : Cardinality(RunningOn(jobs, h)) <= MaxRunning[h]

\* No two live workers execute the same job, across crashes and recoveries.
OneWorkerPerJob ==
    \A v, w \in Worker :
        v # w /\ pc[v] \in Execute /\ pc[w] \in Execute => task[v] # task[w]

\* The limit holds of the restores really in progress on a host, and not only
\* of the rows that say running.
LoadCapacity ==
    \A h \in Host :
        Cardinality({w \in Worker : Restoring(w) /\ HostOf(jobs, task[w]) = h})
            <= MaxRunning[h]

\* Two workers never restore into the same target database at once.
TargetExclusive ==
    \A v, w \in Worker :
        v # w /\ Restoring(v) /\ Restoring(w)
            => jobs[task[v]].place # jobs[task[w]].place

\* The target database of a deployed job holds that job's restore.
DeployedIsLive ==
    \A j \in InStatus(jobs, {"deployed"}) : db[jobs[j].place] = j

\* A target has one job at a time that is under way or live, whoever reports the
\* end of a restore that was failed or cancelled behind its worker's back.
Occupying == Active \cup {"deployed"}

OneJobPerTarget ==
    \A j, k \in Job :
        j # k /\ {jobs[j].status, jobs[k].status} \subseteq Occupying
            => jobs[j].place # jobs[k].place

\* The target of a job holds its restore, or was overrun by another job of the
\* target that has no success to report.
HoldsUnlessOverrun(j) ==
    LET p == jobs[j].place
    IN  \/ db[p] = j
        \/ \E k \in InStatus(jobs, {"failed", "canceled"}) \ {j} :
              jobs[k].place = p /\ db[p] \in {k, NoJob}

\* A deployed job's database is there, unless another job of the target was
\* failed or cancelled while its worker went on with the rename.
LiveUnlessOverrun ==
    \A j \in InStatus(jobs, {"deployed"}) : HoldsUnlessOverrun(j)

\* A failed job that no worker has in hand holds no lock: mark_job_failed
\* documents that failed jobs "should be deletable and no longer need
\* protection".
FailedIsUnlocked ==
    \A j \in InStatus(jobs, {"failed"}) :
        (\A w \in Worker : task[w] # j) => jobs[j].lockedBy = Nobody

\* The invariant that makes HostCapacity and OneWorkerPerJob inductive.
\* A claim in progress holds a queued job, on a host with room to run it, and
\* no other claim is in progress on that host.
ClaimsHold ==
    \A w \in Worker : pc[w] = "claiming" =>
        /\ jobs[task[w]].status = "queued"
        /\ LET h == HostOf(jobs, task[w])
           IN  /\ Cardinality(RunningOn(jobs, h)) < MaxRunning[h]
               /\ \A v \in Others(w) : pc[v] = "claiming" => HostOf(jobs, task[v]) # h

\* A job that a worker has in hand after its claim, or that a sweep will fail,
\* never goes back to waiting.
TakenJobsLeftQueue ==
    /\ \A w \in Worker : task[w] # NoJob /\ pc[w] # "claiming"
          => jobs[task[w]].status \notin {"absent", "queued"}
    /\ \A j \in zombies : jobs[j].status \notin {"absent", "queued"}

QueueInv ==
    /\ TypeOK
    /\ HostCapacity
    /\ ClaimsHold
    /\ TakenJobsLeftQueue
    /\ OneWorkerPerJob

-----------------------------------------------------------------------------
(* Action properties *)

\* A target database is replaced only by a job that is still running and that
\* nobody asked to cancel, whatever was cancelled, failed or recovered since
\* the worker last looked at the row.
ReplaceOnlyWhileRunning ==
    [][\A p \in Place :
          db'[p] \notin {db[p], NoJob}
              => jobs[db'[p]].status = "running" /\ ~jobs[db'[p]].cancelReq]_vars

\* Once a worker is past the gate, no step asks to cancel its job or cancels
\* it: the API documents "RUNNING (restore started): Reject".
RestoreIsNotCanceled ==
    [][\A w \in Worker : Restoring(w) =>
          LET old == jobs[task[w]]
              new == jobs'[task[w]]
          IN  /\ new.cancelReq => old.cancelReq
              /\ new.status \in {"canceling", "canceled"} => new.status = old.status]_vars

\* The web pages cancel no restore past the gate, however old the row is that
\* the handler read, and whatever the API, a sweep or a recovery does beside
\* it: a row that still says running is left as it is.
WebRespectsGate ==
    [][\A c \in Client, w \in Worker :
          req[c].path = "web" /\ req'[c] # req[c] /\ Restoring(w)
          /\ task[w] = req[c].job /\ jobs[task[w]].status = "running"
              => jobs'[task[w]] = jobs[task[w]]]_vars

\* The zombie sweep fails only jobs whose worker is gone: "Any jobs marked
\* 'running' when cleanup runs are zombies from a previous crash".
ZombieIsDead ==
    [][\A w \in Worker : pc[w] = "startup" /\ pc'[w] # "down" =>
          \A j \in zombies \ zombies', v \in Worker : ~Executing(v, j)]_vars

-----------------------------------------------------------------------------
(* The abstract life cycle *)

PhaseOf(status) ==
    CASE status = "absent" -> "absent"
      [] status = "queued" -> "waiting"
      [] status \in {"running", "canceling"} -> "working"
      [] status = "deployed" -> "live"
      [] status \in {"failed", "canceled"} -> "ended"
      [] status = "superseded" -> "replaced"

Lifecycle == INSTANCE JobLifecycle
                WITH phase <- [j \in Job |-> PhaseOf(jobs[j].status)],
                     at    <- [j \in Job |-> jobs[j].place]

\* A worker fleet started while idle, with cancellation through the web pages,
\* implements the documented life cycle: no recovery, cancellation or late
\* UPDATE takes a verdict back.
FollowsLifecycle == Lifecycle!LifecycleSpec

-----------------------------------------------------------------------------
(* Liveness *)

\* Every queued job is eventually claimed or cancelled.
QueuedEnds == \A j \in Job : jobs[j].status = "queued" ~> jobs[j].status # "queued"

\* Every running job eventually gets a verdict, whoever crashes.
RunningEnds == \A j \in Job : jobs[j].status = "running" ~> jobs[j].status # "running"

=============================================================================
