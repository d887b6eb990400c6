------------------------------ MODULE Deletion ------------------------------
(***************************************************************************)
(* The end of a database's life: users delete jobs through the web pages   *)
(* or in bulk, workers retry deletions that got stuck, and the retention   *)
(* sweep drops expired databases, while restores of the same target go on  *)
(* and users lock, extend and complete what they have.                     *)
(*                                                                         *)
(* One target database and its owner's jobs, restored or claimed: nothing  *)
(* that happens to another target has a part in a guard here.  A step is   *)
(* one statement on the service database or one operation on the host.     *)
(* A restore is seen only by what deletion reads of it: RestoreQueue and   *)
(* AtomicRename have the detail.                                           *)
(*                                                                         *)
(* An operator with _Faulty in its name is the one after it with a         *)
(* plausible mistake, which no specification uses.                         *)
(***************************************************************************)
EXTENDS Naturals, FiniteSets

CONSTANTS
    Job,         \* jobs of one target, restored or claimed
    Client,      \* web handlers and bulk tasks that delete
    Worker,      \* workers that retry deletions
    External,    \* a target database without the pullDB table
    Nothing,     \* no target database; no job
    AtFirst,     \* what there may be before the first job; with External, an
                 \* administrator may put a database there later, too
    MaxRetry,    \* MAX_DELETE_RETRY_COUNT, 5 in the code
    MaxRequest,  \* bound: delete requests
    MaxCrash,    \* bound: deaths of a handler or a worker in a deletion
    Faults,      \* a query or a connection may fail, the host may be removed
    Expiry,      \* databases expire in this instance
    Retention    \* the process that sweeps expired databases

ASSUME DeletionAssumption ==
    /\ MaxRetry \in Nat \ {0} /\ MaxRequest \in Nat /\ MaxCrash \in Nat
    /\ {Faults, Expiry} \subseteq BOOLEAN
    /\ AtFirst \subseteq {External, Nothing}
    /\ External # Nothing /\ {External, Nothing} \cap Job = {}
    /\ Client \cap Worker = {} /\ Retention \notin Client \cup Worker

VARIABLES
    jobs,       \* the rows of the target's jobs
    db,         \* whose restore the target database holds, by its pullDB table
    staging,    \* each job's staging database: none, bare, or marked as the
                \* job's by its pullDB table
    restore,    \* how far the worker of each job is
    del,        \* the deletion each agent has in hand
    sweep,      \* the retention sweep
    hostKnown,  \* the host still has its row in db_hosts
    requests,   \* delete requests so far
    crashes,    \* deaths so far
    overtaken   \* history: who has made a check that no longer holds, since
                \* somebody deployed, claimed, locked or replaced the database

deletionVars == <<jobs, db, staging, restore, del, sweep, hostKnown, requests, crashes>>
allVars == <<deletionVars, overtaken>>

hostVars  == <<db, staging>>
agentVars == <<del, sweep, requests, crashes>>

Agent == Client \cup Worker

Status == {"absent", "queued", "running", "canceling", "deployed", "complete",
           "expired", "failed", "canceled", "superseded", "deleting", "deleted",
           "removed"}

Row == [status : Status,
        retry : Nat,           \* retry_count
        locked : BOOLEAN,      \* locked_at IS NOT NULL
        cancelReq : BOOLEAN,   \* cancel_requested_at IS NOT NULL
        superseded : BOOLEAN,  \* superseded_at and superseded_by_job_id
        dropped : BOOLEAN,     \* db_dropped_at IS NOT NULL
        lapsed : BOOLEAN,      \* expires_at and the days of grace are over
        stale : BOOLEAN,       \* started_at is more than 5 minutes ago
        claimed : BOOLEAN]     \* origin is claim or assign

NewRow == [status |-> "absent", retry |-> 0, locked |-> FALSE, cancelReq |-> FALSE,
           superseded |-> FALSE, dropped |-> FALSE, lapsed |-> FALSE, stale |-> FALSE,
           claimed |-> FALSE]

IdleAgent == [pc |-> "idle", role |-> "web", job |-> Nothing, hard |-> FALSE,
              error |-> "none", tries |-> 0]

AgentType == [pc : {"idle", "mark", "look", "protect", "staging", "target", "end"},
              role : {"web", "bulk", "worker"}, job : Job \cup {Nothing},
              hard : BOOLEAN,
              error : {"none", "blocked", "raised", "failed"},
              tries : 0 .. MaxRetry]   \* retry_count as the worker claimed the job

IdleSweep == [pc |-> "idle", todo |-> {}, job |-> Nothing]

DeletionInit ==
    /\ jobs = [j \in Job |-> NewRow]
    /\ db \in AtFirst
    /\ staging = [j \in Job |-> "none"]
    /\ restore = [j \in Job |-> "none"]
    /\ del = [a \in Agent |-> IdleAgent]
    /\ sweep = IdleSweep
    /\ hostKnown = TRUE
    /\ requests = 0
    /\ crashes = 0
    /\ overtaken = {}

-----------------------------------------------------------------------------
(* The jobs table *)

Having(s) == {j \in Job : jobs[j].status \in s}

\* An UPDATE of one row; a row that was removed stays removed.
Set(j, row) == jobs' = [jobs EXCEPT ![j] = IF @.status = "removed" THEN @ ELSE row]

SetStatus(j, s) == Set(j, [jobs[j] EXCEPT !.status = s])

IsDeployed(j) == jobs[j].status = "deployed" /\ ~jobs[j].superseded /\ ~jobs[j].dropped

IsLocked(j) == jobs[j].locked /\ ~jobs[j].dropped

IsProtected_FaultyLocksOnly == \E j \in Job : IsLocked(j)

\* is_target_database_protected: a deployed or a locked job of any user.
IsProtected == \E j \in Job : IsDeployed(j) \/ IsLocked(j)

\* Who has made a check of the target and has not dropped yet.
InWindow(x) ==
    IF x = Retention THEN sweep.pc \in {"protect", "drop"}
                     ELSE del[x].pc \in {"staging", "target"}

Checked == {x \in Agent \cup {Retention} : InWindow(x)}

-----------------------------------------------------------------------------
(* Restores and users *)

\* A submission that may overwrite supersedes the deployed job first, and may
\* then be refused; it is, if the target does not carry the pullDB table.
Submit(j) ==
    /\ jobs[j].status = "absent"
    /\ Having({"queued", "running", "canceling"}) = {}
    /\ \A k \in Job : /\ ~(IsLocked(k) /\ ~jobs[k].superseded)
                      /\ ~(IsDeployed(k) /\ jobs[k].claimed)
    /\ \E accepted \in {FALSE, db # External} :
          jobs' = [k \in Job |->
              IF k = j /\ accepted THEN [NewRow EXCEPT !.status = "queued"]
              ELSE IF IsDeployed(k)
                   THEN [jobs[k] EXCEPT !.status = "superseded", !.superseded = TRUE,
                                        !.dropped = TRUE]
                   ELSE jobs[k]]
    /\ UNCHANGED <<hostVars, restore, agentVars, hostKnown>>

\* Database Discovery registers an existing database as a deployed job.
ClaimDatabase(j) ==
    /\ jobs[j].status = "absent"
    /\ db # Nothing
    /\ \A k \in Job : ~IsDeployed(k)
    /\ Set(j, [NewRow EXCEPT !.status = "deployed", !.claimed = TRUE])
    /\ UNCHANGED <<hostVars, restore, agentVars, hostKnown>>

StartJob(j) ==
    /\ jobs[j].status = "queued"
    /\ SetStatus(j, "running")
    /\ restore' = [restore EXCEPT ![j] = "prep"]
    /\ UNCHANGED <<hostVars, agentVars, hostKnown>>

\* A queued job is canceled at once, a running one when its worker looks.
Cancel(j) ==
    /\ \/ jobs[j].status = "queued"
       \/ jobs[j].status = "running" /\ restore[j] = "prep"
    /\ Set(j, [jobs[j] EXCEPT !.cancelReq = TRUE,
                  !.status = IF @ = "queued" THEN "canceled" ELSE "canceling"])
    /\ UNCHANGED <<hostVars, restore, agentVars, hostKnown>>

\* lock_for_restore does not look at the status, but it needs the row; a
\* refusal cancels the job, whatever its status has become.
PassGate(j) ==
    /\ restore[j] = "prep"
    /\ IF jobs[j].cancelReq \/ jobs[j].status = "removed"
       THEN /\ SetStatus(j, "canceled")
            /\ restore' = [restore EXCEPT ![j] = "none"]
            /\ UNCHANGED staging
       ELSE /\ Set(j, [jobs[j] EXCEPT !.locked = TRUE])
            /\ restore' = [restore EXCEPT ![j] = "load"]
            /\ staging' = [staging EXCEPT ![j] = "bare"]
    /\ UNCHANGED <<db, agentVars, hostKnown>>

\* The pullDB table is written before the load begins.
WriteMetadata(j) ==
    /\ restore[j] = "load"
    /\ staging[j] = "bare"
    /\ staging' = [staging EXCEPT ![j] = "marked"]
    /\ restore' = [restore EXCEPT ![j] = "loaded"]
    /\ UNCHANGED <<jobs, db, agentVars, hostKnown>>

CutOver(j) ==
    /\ restore[j] = "loaded"
    /\ db # External
    /\ staging[j] = "marked"
    /\ db' = j
    /\ staging' = [staging EXCEPT ![j] = "none"]
    /\ restore' = [restore EXCEPT ![j] = "finish"]
    /\ UNCHANGED <<jobs, agentVars, hostKnown>>

Deploy(j) ==
    /\ restore[j] = "finish"
    /\ IF jobs[j].status = "running"
       THEN Set(j, [jobs[j] EXCEPT !.status = "deployed", !.locked = FALSE])
       ELSE UNCHANGED jobs
    /\ restore' = [restore EXCEPT ![j] = "none"]
    /\ UNCHANGED <<hostVars, agentVars, hostKnown>>

\* The executor fails the job, then the poll loop fails it again.
FailRestore(j) ==
    /\ restore[j] # "none"
    /\ Set(j, [jobs[j] EXCEPT !.status = "failed", !.locked = FALSE])
    /\ restore' = [restore EXCEPT ![j] = IF @ = "again" THEN "none" ELSE "again"]
    /\ UNCHANGED <<hostVars, agentVars, hostKnown>>

LockDatabase(j) ==
    /\ jobs[j].status \in {"deployed", "complete"}
    /\ ~jobs[j].locked
    /\ Set(j, [jobs[j] EXCEPT !.locked = TRUE])
    /\ UNCHANGED <<hostVars, restore, agentVars, hostKnown>>

UnlockDatabase(j) ==
    /\ jobs[j].locked
    /\ Set(j, [jobs[j] EXCEPT !.locked = FALSE])
    /\ UNCHANGED <<hostVars, restore, agentVars, hostKnown>>

Complete(j) ==
    /\ jobs[j].status = "deployed"
    /\ SetStatus(j, "complete")
    /\ UNCHANGED <<hostVars, restore, agentVars, hostKnown>>

\* Time passes, or the user marks the database for removal.
Lapse(j) ==
    /\ Expiry
    /\ jobs[j].status \in {"deployed", "complete", "expired"}
    /\ Set(j, [jobs[j] EXCEPT !.lapsed = TRUE])
    /\ UNCHANGED <<hostVars, restore, agentVars, hostKnown>>

Extend(j) ==
    /\ jobs[j].status \in {"deployed", "complete"}
    /\ Set(j, [jobs[j] EXCEPT !.lapsed = FALSE])
    /\ UNCHANGED <<hostVars, restore, agentVars, hostKnown>>

\* Only a page that shows the job does this.
MarkExpired(j) ==
    /\ jobs[j].status = "deployed"
    /\ jobs[j].lapsed
    /\ SetStatus(j, "expired")
    /\ UNCHANGED <<hostVars, restore, agentVars, hostKnown>>

ForceComplete(j) ==
    /\ jobs[j].status \in {"deleting", "failed"}
    /\ Set(j, [jobs[j] EXCEPT !.status = "deleted", !.dropped = TRUE])
    /\ UNCHANGED <<hostVars, restore, agentVars, hostKnown>>

\* An administrator of the host creates a database by hand, under a name that
\* pullDB has used, but not in the moments between a check and its drop.
CreateByHand ==
    /\ External \in AtFirst
    /\ db = Nothing
    /\ Checked = {}
    /\ db' = External
    /\ UNCHANGED <<jobs, staging, restore, agentVars, hostKnown>>

RemoveHost ==
    /\ Faults
    /\ hostKnown
    /\ hostKnown' = FALSE
    /\ UNCHANGED <<jobs, hostVars, restore, agentVars>>

-----------------------------------------------------------------------------
(* A deletion *)

Deleting(a, pc, error) ==
    del' = [del EXCEPT ![a] = [del[a] EXCEPT !.pc = pc, !.error = error]]

Leave(a) == del' = [del EXCEPT ![a] = IdleAgent]

\* Superseded and claimed jobs own no database: the row is all there is.  A
\* deleted job can only be removed, by a bulk task without looking for databases.
\* The refusal of a job whose error begins with "Delete failed" is never met:
\* whoever gives a deletion up records another error.
RequestDelete(a, role, j) ==
    LET row == jobs[j]
        nothingToDrop == \/ row.status = "superseded" \/ row.superseded \/ row.claimed
                         \/ role = "bulk" /\ row.status = "deleted"
    IN  /\ del[a].pc = "idle"
        /\ requests < MaxRequest
        /\ row.status \notin {"absent", "removed", "queued", "running", "deleting"}
        /\ del' = [del EXCEPT ![a] =
              [pc |-> IF nothingToDrop THEN "end" ELSE "mark", role |-> role, job |-> j,
               hard |-> row.status = "deleted", error |-> "none", tries |-> 0]]
        /\ requests' = requests + 1
        /\ UNCHANGED <<jobs, hostVars, restore, sweep, hostKnown, crashes>>

\* The row may have changed since the handler read it; if it was removed, its
\* event has no job to refer to, and the deletion ends with the error.  The
\* user may have asked to leave the databases alone.
MarkDeleting(a) ==
    /\ del[a].pc = "mark"
    /\ Set(del[a].job, [jobs[del[a].job] EXCEPT !.status = "deleting", !.stale = FALSE,
                                               !.retry = @ + 1])
    /\ IF jobs[del[a].job].status = "removed"
       THEN Leave(a)
       ELSE \E skip \in BOOLEAN : Deleting(a, IF skip THEN "end" ELSE "protect", "none")
    /\ UNCHANGED <<hostVars, restore, sweep, hostKnown, requests, crashes>>

\* A check that raises is noted as an error, but only "Cannot drop target
\* database" keeps the deletion from the target.
CheckProtection(a) ==
    /\ del[a].pc = "protect"
    /\ \/ Deleting(a, "staging", IF IsProtected THEN "blocked" ELSE "none")
       \/ Faults /\ Deleting(a, "staging", "raised")
    /\ UNCHANGED <<jobs, hostVars, restore, sweep, hostKnown, requests, crashes>>

\* A host without a row counts as success; a failure to drop is only logged.
DropStaging(a) ==
    /\ del[a].pc = "staging"
    /\ \/ /\ hostKnown
          /\ staging' = [staging EXCEPT ![del[a].job] = "none"]
          /\ Deleting(a, "target", del[a].error)
       \/ /\ ~hostKnown
          /\ Deleting(a, "end", "none")
          /\ UNCHANGED staging
       \/ /\ Faults
          /\ \/ Deleting(a, "end", "failed")
             \/ hostKnown /\ Deleting(a, "target", del[a].error)
          /\ UNCHANGED staging
    /\ UNCHANGED <<jobs, db, restore, sweep, hostKnown, requests, crashes>>

MayDrop_FaultyAny == db # Nothing

\* Any restore, not only the job's own, carries the pullDB table.
MayDrop == db \in Job

DropTarget(a) ==
    /\ del[a].pc = "target"
    /\ \/ /\ del[a].error = "blocked"
          /\ Deleting(a, "end", "blocked")
          /\ UNCHANGED db
       \/ /\ del[a].error # "blocked"
          /\ db' = IF MayDrop THEN Nothing ELSE db
          /\ Deleting(a, "end", IF MayDrop \/ db = Nothing \/ del[a].error # "none"
                                THEN del[a].error ELSE "failed")
       \/ /\ Faults /\ del[a].error # "blocked"
          /\ Deleting(a, "end", IF del[a].error = "none" THEN "failed" ELSE del[a].error)
          /\ UNCHANGED db
    /\ UNCHANGED <<jobs, staging, restore, sweep, hostKnown, requests, crashes>>

\* The web page marks or removes the row, as the user chose, whatever the errors
\* were; a bulk task leaves it deleting for a worker to retry.
FinishRequest(a) ==
    /\ del[a].pc = "end"
    /\ del[a].role \in {"web", "bulk"}
    /\ IF del[a].role = "bulk" /\ del[a].error # "none"
       THEN UNCHANGED jobs
       ELSE \/ Set(del[a].job, [NewRow EXCEPT !.status = "removed"])
            \/ ~del[a].hard /\ SetStatus(del[a].job, "deleted")
    /\ Leave(a)
    /\ UNCHANGED <<hostVars, restore, sweep, hostKnown, requests, crashes>>

-----------------------------------------------------------------------------
(* A worker retries: claim_stale_deleting_job and execute_delete_job *)

\* Five minutes pass.
BecomeStale(j) ==
    /\ jobs[j].status = "deleting"
    /\ Set(j, [jobs[j] EXCEPT !.stale = TRUE])
    /\ UNCHANGED <<hostVars, restore, agentVars, hostKnown>>

Claimable_FaultyNoNewerJob ==
    {j \in Having({"deleting"}) : /\ jobs[j].stale /\ jobs[j].retry < MaxRetry
                                  /\ Having(Status \ {"absent"}) \subseteq {j}}

Claimable_FaultyNoLimit ==
    {j \in Having({"deleting"}) : jobs[j].stale /\ ~jobs[j].superseded}

Claimable ==
    {j \in Having({"deleting"}) : /\ jobs[j].stale /\ jobs[j].retry < MaxRetry
                                  /\ ~jobs[j].superseded}

ClaimStale(w) ==
    /\ del[w].pc = "idle"
    /\ \E j \in Claimable :
          /\ Set(j, [jobs[j] EXCEPT !.stale = FALSE, !.retry = @ + 1])
          /\ del' = [del EXCEPT ![w] = [IdleAgent EXCEPT !.pc = "look", !.role = "worker",
                                            !.job = j, !.tries = jobs[j].retry + 1]]
    /\ UNCHANGED <<hostVars, restore, sweep, hostKnown, requests, crashes>>

\* An error at the last attempt fails the job.
GiveUp(w) ==
    IF del[w].tries >= MaxRetry THEN SetStatus(del[w].job, "failed") ELSE UNCHANGED jobs

Owns_FaultyStagingOnly(j) == staging[j] = "marked"

Owns(j) == staging[j] = "marked" \/ db = j

\* A job with no database of its own is deleted already.  A query that fails
\* escapes from execute_delete_job, and nothing is recorded.
LookForOwn(w) ==
    LET j == del[w].job
    IN  /\ del[w].pc = "look"
        /\ \/ /\ hostKnown => ~Owns(j)
              /\ SetStatus(j, "deleted")
              /\ Leave(w)
           \/ /\ hostKnown /\ Owns(j)
              /\ Deleting(w, "protect", "none")
              /\ UNCHANGED jobs
           \/ /\ Faults
              /\ UNCHANGED jobs \/ GiveUp(w)
              /\ Leave(w)
        /\ UNCHANGED <<hostVars, restore, sweep, hostKnown, requests, crashes>>

FinishRetry(w) ==
    /\ del[w].pc = "end"
    /\ del[w].role = "worker"
    /\ IF del[w].error = "none" THEN SetStatus(del[w].job, "deleted") ELSE GiveUp(w)
    /\ Leave(w)
    /\ UNCHANGED <<hostVars, restore, sweep, hostKnown, requests, crashes>>

\* A handler or a worker dies in the middle of a deletion.
AgentDies(a) ==
    /\ del[a].pc # "idle"
    /\ crashes < MaxCrash
    /\ crashes' = crashes + 1
    /\ Leave(a)
    /\ UNCHANGED <<jobs, hostVars, restore, sweep, hostKnown, requests>>

-----------------------------------------------------------------------------
(* The retention sweep: run_retention_cleanup *)

Candidates ==
    {j \in Having({"deployed", "expired"}) :
        /\ jobs[j].lapsed
        /\ ~jobs[j].locked /\ ~jobs[j].dropped /\ ~jobs[j].superseded}

SweepStep == UNCHANGED <<staging, restore, del, hostKnown, requests, crashes>>

StartSweep ==
    /\ sweep.pc = "idle"
    /\ hostKnown
    /\ Having({"queued", "running"}) = {}
    /\ Candidates # {}
    /\ sweep' = [pc |-> "next", todo |-> Candidates, job |-> Nothing]
    /\ UNCHANGED <<jobs, db>> /\ SweepStep

IsOwn_FaultyAny(j) == db \in Job

IsOwn(j) == db = j

\* A claimed job is recorded as dropped, and its database left alone.
SweepNext(j) ==
    /\ sweep.pc = "next"
    /\ j \in sweep.todo
    /\ IF jobs[j].claimed
       THEN Set(j, [jobs[j] EXCEPT !.dropped = TRUE])
       ELSE UNCHANGED jobs
    /\ sweep' = [pc |-> IF ~jobs[j].claimed /\ IsOwn(j) THEN "protect" ELSE "next",
                 todo |-> sweep.todo \ {j}, job |-> j]
    /\ UNCHANGED db /\ SweepStep

\* The candidate itself blocks its drop as long as it is deployed.
Blocks(j) == IsProtected

\* A check that raises skips the database.
SweepProtect ==
    /\ sweep.pc = "protect"
    /\ \/ sweep' = [sweep EXCEPT !.pc = IF Blocks(sweep.job) THEN "next" ELSE "drop"]
       \/ Faults /\ sweep' = [sweep EXCEPT !.pc = "next"]
    /\ UNCHANGED <<jobs, db>> /\ SweepStep

SweepDrop ==
    /\ sweep.pc = "drop"
    /\ db' = Nothing
    /\ sweep' = [sweep EXCEPT !.pc = "record"]
    /\ UNCHANGED jobs /\ SweepStep

SweepRecord ==
    /\ sweep.pc = "record"
    /\ Set(sweep.job, [jobs[sweep.job] EXCEPT !.dropped = TRUE])
    /\ sweep' = [sweep EXCEPT !.pc = "next"]
    /\ UNCHANGED db /\ SweepStep

\* The list is done, or the process dies.
EndSweep ==
    /\ sweep.pc # "idle"
    /\ \/ sweep.pc = "next" /\ sweep.todo = {}
       \/ Faults
    /\ sweep' = IdleSweep
    /\ UNCHANGED <<jobs, db>> /\ SweepStep

-----------------------------------------------------------------------------

LifeStep(j) ==
    \/ Submit(j) \/ ClaimDatabase(j) \/ StartJob(j) \/ Cancel(j) \/ PassGate(j)
    \/ WriteMetadata(j) \/ CutOver(j) \/ Deploy(j) \/ FailRestore(j)
    \/ LockDatabase(j) \/ UnlockDatabase(j) \/ Complete(j) \/ Lapse(j) \/ Extend(j)
    \/ MarkExpired(j) \/ ForceComplete(j)

DropStep(a) ==
    \/ MarkDeleting(a) \/ CheckProtection(a) \/ DropStaging(a)
    \/ DropTarget(a)

ClientStep(c) == DropStep(c) \/ FinishRequest(c)

RetryStep(w) == ClaimStale(w) \/ LookForOwn(w) \/ DropStep(w) \/ FinishRetry(w)

SweepStepNext ==
    \/ StartSweep \/ (\E j \in Job : SweepNext(j)) \/ SweepProtect \/ SweepDrop
    \/ SweepRecord \/ EndSweep

Anyone ==
    \/ \E j \in Job : LifeStep(j) \/ BecomeStale(j)
    \/ CreateByHand
    \/ RemoveHost
    \/ \E c \in Client, role \in {"web", "bulk"}, j \in Job :
          RequestDelete(c, role, j)
    \/ \E c \in Client : ClientStep(c)
    \/ \E w \in Worker : RetryStep(w)
    \/ \E a \in Agent : AgentDies(a)
    \/ SweepStepNext

\* The steps after which a check of the target may not hold any more.
Overtakes ==
    \E j \in Job : ClaimDatabase(j) \/ CutOver(j) \/ Deploy(j) \/ LockDatabase(j)

DeletionNext ==
    /\ Anyone
    /\ overtaken' = {x \in Checked' : x \in overtaken \/ Overtakes}

DeletionSpec == DeletionInit /\ [][DeletionNext]_allVars

\* Workers poll for ever and time passes; users are under no obligation.
FairDeletionSpec ==
    /\ DeletionSpec
    /\ \A c \in Client : WF_deletionVars(ClientStep(c))
    /\ \A w \in Worker : WF_deletionVars(RetryStep(w))
    /\ \A j \in Job : WF_deletionVars(BecomeStale(j) /\ jobs' # jobs)

-----------------------------------------------------------------------------
(* Properties *)

\* Every variable keeps its type; an agent has a job in hand exactly while it
\* deletes.
DeletionTypeOK ==
    /\ jobs \in [Job -> Row]
    /\ db \in Job \cup {External, Nothing}
    /\ staging \in [Job -> {"none", "bare", "marked"}]
    /\ restore \in [Job -> {"none", "prep", "load", "loaded", "finish", "again"}]
    /\ del \in [Agent -> AgentType]
    /\ \A a \in Agent : del[a].job = Nothing <=> del[a].pc = "idle"
    /\ sweep \in [pc : {"idle", "next", "protect", "drop", "record"},
                 todo : SUBSET Job, job : Job \cup {Nothing}]
    /\ sweep.pc \in {"protect", "drop", "record"} => sweep.job # Nothing
    /\ hostKnown \in BOOLEAN
    /\ requests \in 0 .. MaxRequest /\ crashes \in 0 .. MaxCrash
    /\ overtaken \subseteq Checked

\* x, whose check nobody has overtaken, takes the target database away.
Takes(x) ==
    /\ InWindow(x) /\ ~InWindow(x)' /\ x \notin overtaken
    /\ db # Nothing /\ db' = Nothing

\* Whoever deletes, retries or sweeps, and however many of them at once: unless
\* somebody deploys, claims, locks or replaces the database after its very own
\* check, it takes it only while no job of any user is deployed on the target
\* and nobody has locked the job that restored it: "we must never drop a
\* database that ANY user has deployed".  Another's check does not count.  An
\* agent whose check raised is left to FailSafe.
LiveDataKept ==
    [][\A x \in Agent \cup {Retention} :
          Takes(x) /\ (x # Retention => del[x].error # "raised")
              => /\ \A j \in Job : ~IsDeployed(j)
                 /\ db \in Job => ~IsLocked(db)]_deletionVars

\* A database that pullDB did not create is never dropped, even after it was
\* claimed and its job deleted or expired.
ExternalKept == [][db = External => db' = External]_deletionVars

\* The retention sweep, unless overtaken after it has looked, drops only what
\* the candidate itself restored, however old its list is: not the database of
\* a later restore that its user has since completed.
RetentionDropsOwn == [][Takes(Retention) => db = sweep.job]_deletionVars

\* A worker that reports a stuck deletion as done leaves no target database
\* that the job restored, on a host that pullDB still knows.  Its staging
\* database may be left: a failure to drop that one is only logged.
RetryLeavesNoTarget ==
    [][\A w \in Worker : del[w].pc \in {"look", "end"} /\ del'[w].pc = "idle" /\ hostKnown =>
          LET j == del[w].job
          IN  jobs[j].status # "deleted" /\ jobs'[j].status = "deleted"
                 => db # j]_deletionVars

\* A deletion that was cut short is tried again as long as it has attempts
\* left, whatever newer jobs the target has.
RetriesHappen ==
    \A j \in Job :
        jobs[j].status = "deleting" /\ jobs[j].retry < MaxRetry /\ ~jobs[j].superseded
            ~> \/ jobs[j].status # "deleting"
               \/ jobs[j].retry = MaxRetry \/ jobs[j].superseded

\* "FAIL-SAFE: Protection check failed - BLOCK target deletion": an agent whose
\* check raised drops no target database.
FailSafe ==
    [][\A a \in Agent : del[a].pc = "target" /\ del[a].error = "raised" /\ del'[a].pc = "end"
          => db' = db]_deletionVars

=============================================================================
