----------------------------- MODULE Submission -----------------------------
(***************************************************************************)
(* enqueue_job as a series of statements: the checks of a submission, the  *)
(* supersession of the database's current job, the limits, and the insert. *)
(* Nothing holds between two statements, so submissions of several users   *)
(* overlap, and only the unique index on the target stops the second of    *)
(* two.  RestoreQueue has the same handler as one step, for one user.      *)
(*                                                                         *)
(* An operator with _Faulty in its name is the one after it with a         *)
(* plausible mistake, which no specification uses.                         *)
(***************************************************************************)
EXTENDS Naturals, FiniteSets

CONSTANTS
    User, Database,
    Row,         \* the rows of jobs, claimed databases included
    Thread,      \* threads of the API and the web
    None,        \* no user, no job, no database
    External,    \* the owner of a database without the pullDB table
    Consent,     \* the choices of overwrite and ack_ownership_transfer
    AtFirst,     \* None, External or both: what a target may be before
    Limit,       \* the global limit of active jobs; 0 is no limit
    UserLimit    \* max_active_jobs of every user; 0 is no limit

ASSUME SubmissionAssumption ==
    /\ IsFiniteSet(Row) /\ IsFiniteSet(Thread) /\ Limit \in Nat /\ UserLimit \in Nat
    /\ None \notin User \cup Database \cup Row /\ Consent \subseteq BOOLEAN \X BOOLEAN
    /\ External \notin User \cup {None} /\ AtFirst \subseteq {None, External}

VARIABLES
    jobs,        \* the rows
    db,          \* the owner in the pullDB table of each target database
    sub,         \* the submission each thread runs
    disturbed    \* history: targets at which something ended during a submission

submitVars == <<jobs, db, sub, disturbed>>

JobStatus == {"none", "queued", "running", "canceling", "deployed", "complete", "superseded"}
Pending == {"queued", "running", "canceling"}
Check == {"idle", "lock", "own", "exists", "owner", "limits", "user", "insert", "after"}

\* Every variable keeps its type; one target has one active job at a time, and
\* a thread keeps nothing of a submission that has ended.
SubmitTypeOK ==
    /\ jobs \in [Row -> [status : JobStatus, user : User \cup {None}, target : Database \cup {None},
                         locked : BOOLEAN, claimed : BOOLEAN]]
    /\ db \in [Database -> User \cup {None, External}]
    /\ sub \in [Thread -> [at : Check, user : User \cup {None}, target : Database \cup {None},
                           overwrite : BOOLEAN, ack : BOOLEAN, old : Row \cup {None}]]
    /\ \A i, j \in Row : i # j /\ jobs[i].target = jobs[j].target
          => ~(jobs[i].status \in Pending /\ jobs[j].status \in Pending)
    /\ \A s \in Thread : sub[s].at = "idle" <=> sub[s].user = None

Unused == [status |-> "none", user |-> None, target |-> None, locked |-> FALSE, claimed |-> FALSE]
Free == [at |-> "idle", user |-> None, target |-> None, overwrite |-> FALSE, ack |-> FALSE, old |-> None]

SubmitInit ==
    /\ jobs = [j \in Row |-> Unused]
    /\ db \in [Database -> AtFirst]
    /\ sub = [s \in Thread |-> Free]
    /\ disturbed = {}

Of(u, t, states) == {j \in Row : jobs[j].user = u /\ jobs[j].target = t /\ jobs[j].status \in states}
Active == {j \in Row : jobs[j].status \in {"queued", "running"}}
ActiveOf(u) == {j \in Active : jobs[j].user = u}

\* active_target_key.
Occupied(t) == \E j \in Row : jobs[j].target = t /\ jobs[j].status \in Pending
HasRoom(active, limit) == limit = 0 \/ Cardinality(active) < limit

Goto(s, at) == sub' = [sub EXCEPT ![s].at = at]
Refuse(s) == sub' = [sub EXCEPT ![s] = Free]
SupersedeJob(j) == jobs' = [jobs EXCEPT ![j].status = "superseded"]

\* has_active_jobs_for_target.
Submit(s) ==
    /\ sub[s].at = "idle"
    /\ \E u \in User, t \in Database, c \in Consent :
          /\ ~Occupied(t)
          /\ sub' = [sub EXCEPT ![s] = [at |-> "lock", user |-> u, target |-> t,
                                        overwrite |-> c[1], ack |-> c[2], old |-> None]]
    /\ UNCHANGED <<jobs, db>>

\* get_locked_by_target: the submitter's own locks.
CheckLock(s) ==
    LET own == Of(sub[s].user, sub[s].target, JobStatus \ {"superseded"})
    IN  /\ sub[s].at = "lock"
        /\ IF \E j \in own : jobs[j].locked THEN Refuse(s) ELSE Goto(s, "own")
        /\ UNCHANGED <<jobs, db>>

\* The submitter's deployed job: a claimed one blocks, another one needs the
\* overwrite option and is superseded now, whatever comes of the submission.
CheckOwn(s) ==
    LET own == Of(sub[s].user, sub[s].target, {"deployed"})
    IN  /\ sub[s].at = "own"
        /\ \/ own = {} /\ Goto(s, "exists") /\ UNCHANGED jobs
           \/ \E j \in own :
                 /\ jobs[j].claimed \/ ~sub[s].overwrite
                 /\ Refuse(s) /\ UNCHANGED jobs
           \/ \E j \in own :
                 /\ ~jobs[j].claimed /\ sub[s].overwrite
                 /\ IF jobs[j].locked THEN UNCHANGED jobs ELSE SupersedeJob(j)
                 /\ Goto(s, "exists")
        /\ UNCHANGED db

\* database_exists, get_pulldb_metadata_owner, and the job of another owner.
\* A host that does not answer, an external database, a lock and a missing
\* consent refuse the submission.
CheckDatabase(s) ==
    LET owner == db[sub[s].target]
        theirs == Of(owner, sub[s].target, {"deployed"})
    IN  /\ sub[s].at = "exists"
        /\ \/ Refuse(s)
           \/ owner = None /\ Goto(s, "limits")
           \/ owner = sub[s].user /\ (sub[s].overwrite \/ sub[s].ack) /\ Goto(s, "limits")
           \/ /\ owner \in User \ {sub[s].user} /\ sub[s].ack
              /\ IF theirs = {} THEN Goto(s, "limits")
                 ELSE \E j \in theirs : ~jobs[j].locked /\ sub' = [sub EXCEPT ![s].at = "owner", ![s].old = j]
        /\ UNCHANGED <<jobs, db>>

Transferred_Faulty(s) == UNCHANGED jobs
Transferred(s) == SupersedeJob(sub[s].old)

TransferOwnership(s) ==
    /\ sub[s].at = "owner"
    /\ Transferred(s)
    /\ sub' = [sub EXCEPT ![s].at = "limits", ![s].old = None]
    /\ UNCHANGED db

\* check_concurrency_limits.
CheckGlobal(s) ==
    /\ sub[s].at = "limits"
    /\ IF HasRoom(Active, Limit) THEN Goto(s, "user") ELSE Refuse(s)
    /\ UNCHANGED <<jobs, db>>

HasUserRoom_Faulty(s) == UserLimit = 0 \/ Cardinality(ActiveOf(sub[s].user)) <= UserLimit
HasUserRoom(s) == HasRoom(ActiveOf(sub[s].user), UserLimit)

CheckUser(s) ==
    /\ sub[s].at = "user"
    /\ IF HasUserRoom(s) THEN Goto(s, "insert") ELSE Refuse(s)
    /\ UNCHANGED <<jobs, db>>

\* The INSERT, or the conflict; check_host_active_capacity may refuse, too.
Insert(s) ==
    LET new == [Unused EXCEPT !.status = "queued", !.user = sub[s].user, !.target = sub[s].target]
    IN  /\ sub[s].at = "insert"
        /\ \/ Refuse(s) /\ UNCHANGED jobs
           \/ /\ ~Occupied(sub[s].target)
              /\ \E j \in Row : jobs[j] = Unused /\ jobs' = [jobs EXCEPT ![j] = new]
              /\ Goto(s, "after")
        /\ UNCHANGED db

\* The submitter's latest completed job, if it is not locked.
SupersedeCompleted(s) ==
    LET old == {j \in Of(sub[s].user, sub[s].target, {"complete"}) : ~jobs[j].locked}
    IN  /\ sub[s].at = "after"
        /\ \/ old = {} /\ UNCHANGED jobs
           \/ \E j \in old : SupersedeJob(j)
        /\ Refuse(s)
        /\ UNCHANGED db

(***************************************************************************)
(* The rest of a job's life, as far as the checks see it.                  *)
(***************************************************************************)

Start(j) ==
    /\ jobs[j].status = "queued"
    /\ jobs' = [jobs EXCEPT ![j].status = "running"]
    /\ UNCHANGED <<db, sub>>

Deploy(j) ==
    /\ jobs[j].status = "running"
    /\ jobs' = [jobs EXCEPT ![j].status = "deployed"]
    /\ db' = [db EXCEPT ![jobs[j].target] = jobs[j].user]
    /\ UNCHANGED sub

\* A failed or canceled job is of no interest to any check.  The cut-over may
\* have dropped the target before it failed.
Fail(j) ==
    /\ jobs[j].status \in Pending
    /\ jobs' = [jobs EXCEPT ![j] = Unused]
    /\ \/ UNCHANGED db
       \/ jobs[j].status # "queued" /\ db' = [db EXCEPT ![jobs[j].target] = None]
    /\ UNCHANGED sub

Cancel(j) ==
    /\ jobs[j].status = "running"
    /\ jobs' = [jobs EXCEPT ![j].status = "canceling"]
    /\ UNCHANGED <<db, sub>>

LockOrComplete(j) ==
    /\ jobs[j].status = "deployed"
    /\ jobs' \in {[jobs EXCEPT ![j].locked = ~@], [jobs EXCEPT ![j].status = "complete"]}
    /\ UNCHANGED <<db, sub>>

\* Database Discovery claims a database for a user, one with the pullDB table
\* too; the insert is refused when any job is deployed at the target.
ClaimDatabase(j) ==
    /\ jobs[j] = Unused
    /\ \E u \in User, t \in Database :
          /\ db[t] # None /\ \A k \in Row : jobs[k].target = t => jobs[k].status # "deployed"
          /\ jobs' = [jobs EXCEPT ![j] = [status |-> "deployed", user |-> u, target |-> t,
                                          locked |-> FALSE, claimed |-> TRUE]]
    /\ UNCHANGED <<db, sub>>

SubmitStep(s) ==
    \/ Submit(s) \/ CheckLock(s) \/ CheckOwn(s) \/ CheckDatabase(s) \/ TransferOwnership(s)
    \/ CheckGlobal(s) \/ CheckUser(s) \/ Insert(s) \/ SupersedeCompleted(s)
JobStep(j) ==
    Start(j) \/ Deploy(j) \/ Fail(j) \/ Cancel(j) \/ LockOrComplete(j) \/ ClaimDatabase(j)

\* A job ends, or a row is locked, unlocked, completed or claimed, while a
\* submission for the target is between its checks and its insert; or the
\* target is claimed while a restore of it is under way.
Disturbs(j, t) ==
    /\ t \in {jobs[j].target, jobs'[j].target} /\ jobs'[j].status \notin Pending
    /\ \/ \E s \in Thread : sub[s].target = t /\ sub[s].at # "after"
       \/ jobs[j] = Unused /\ Occupied(t)

SubmitNext ==
    \/ \E s \in Thread : SubmitStep(s) /\ UNCHANGED disturbed
    \/ \E j \in Row : JobStep(j) /\ disturbed' = disturbed \cup {t \in Database : Disturbs(j, t)}
SubmitSpec == SubmitInit /\ [][SubmitNext]_submitVars

-----------------------------------------------------------------------------
(* Properties.                                                             *)

\* The limits are read before the insert: overlapping submissions overrun
\* them, but never by more than one job for each thread beside the first.
LimitsNearlyHold ==
    /\ Limit > 0 => Cardinality(Active) <= Limit - 1 + Cardinality(Thread)
    /\ UserLimit > 0 => \A u \in User : Cardinality(ActiveOf(u)) <= UserLimit - 1 + Cardinality(Thread)

\* A restored job that is listed as deployed is the one its owner finds in
\* the database, however submissions overlap and whoever claims the target: a
\* transfer of ownership has superseded the previous owner's.  Nothing holds
\* between a submission's checks, so a target at which something ended then
\* is excepted from there on.
DeployedIsOwners ==
    \A j \in Row :
        jobs[j].status = "deployed" /\ ~jobs[j].claimed /\ jobs[j].target \notin disturbed
            => db[jobs[j].target] = jobs[j].user
=============================================================================
