# A TLA+ model of pullDB

pullDB restores production backups into development databases. Users ask for a
restore through a REST API, a web interface or a command line; the request becomes
a row of the `jobs` table of a *service database*; worker processes claim rows,
download a backup, load it into a *staging database* on a *target host* with
`myloader`, and replace the *target database* by it. Later the database is locked,
extended, completed, deleted or expired.

There is no message bus and no leader. Handlers, workers and the retention service
are separate processes that share the service database and the target hosts, and
every one of them reads rows, decides, and writes rows later. What can go wrong is
therefore almost always the same thing: something is read, something else happens,
and then something is done because of what was read.

This directory models that. Sources are cited as paths under `src/`; the file
`PROJECT.json` maps every definition to the lines it translates.

## 1. The system

### 1.1 Components, their state and their operations

| Component | Sources | State | Operations |
|---|---|---|---|
| Restore queue | `pulldb/infra/mysql_jobs.py`, `schema/pulldb_service/00_tables/020_jobs.sql` | rows of `jobs`: status, worker, lock, cancel flags, retry count, expiry, supersession | enqueue, claim, mark deployed/failed/canceled/canceling, gate (`lock_for_restore`), supersede, recover |
| Worker | `pulldb/worker/{service,loop,executor}.py` | phase of its poll loop, job in hand | zombie sweep at start, claim and execute, recover a stale running job, retry a stale deletion, admin tasks, backfill |
| Restore workflow | `pulldb/worker/{restore,staging,metadata,post_sql}.py` | staging database, its pullDB table | orphan cleanup, create, load, post-SQL, metadata, cut-over |
| Atomic rename | `pulldb/worker/atomic_rename.py`, `docs/hca/features/atomic_rename_procedure.sql` | tables of staging and target, the stored procedure, an advisory lock | deploy the procedure, call it, validate before and after |
| Enqueue | `pulldb/worker/enqueue.py` | none of its own | validate, check locks, limits, capacity and ownership, supersede, insert |
| Cancellation | `pulldb/api/main.py`, `pulldb/web/features/jobs/routes.py` | what a handler has read | read the job, request cancellation, mark canceling |
| Deletion | `pulldb/worker/cleanup.py`, web routes, `pulldb/worker/admin_tasks.py`, `loop.py` | progress of a deletion, retry count | mark deleting, check protection, drop staging, drop target, mark deleted or remove, retry |
| Retention | `pulldb/worker/{retention,cleanup}.py`, `packaging/systemd/pulldb-retention.timer` | list of candidates | lock, unlock, extend, complete, mark expired, sweep |
| Database Discovery | `pulldb/web/features/admin/database_discovery_routes.py` | synthetic deployed jobs | claim, assign, remove |
| Hosts and settings | `pulldb/infra/{mysql_hosts,mysql_settings}.py` | capacity, enabled, maintenance mode | enable, disable, edit, delete |
| Admin tasks | `pulldb/worker/admin_tasks.py`, `pulldb/infra/mysql_admin.py` | rows of `admin_tasks` | claim, reclaim, bulk delete, force-delete a user, scheduled cleanups |
| Overlord | `pulldb/worker/overlord_manager.py`, `pulldb/infra/overlord.py` | tracking rows, snapshots, rows of a foreign database | claim, sync, release, clean up on deletion |
| Secret rotation | `pulldb/worker/secret_rotation.py` | a password in two stores | rotate, verify, roll back |
| Provisioning | `pulldb/domain/services/provisioning.py` | accounts and procedures on a host | provision, test, remove |
| Progress | `pulldb/worker/{heartbeat,restore_progress,processlist_monitor,early_analyze}.py` | threads, a queue, counters, a budget, the tracker's lock | heartbeat, poll the process list, ANALYZE tables as they finish, wait, stop |
| Backups | `pulldb/worker/{discovery,downloader,backup_metadata}.py`, `pulldb/infra/s3.py` | work directory | find, check space, download, unpack |
| History | `pulldb/worker/history_backfill.py` | rows of `restore_history` | backfill from events |
| Small infrastructure | `pulldb/infra/{mysql_pool,rate_limit,distinct_cache}.py` | pool, buckets, cached lists | borrow, check, get and refresh |
| Users | `pulldb/auth/*`, `pulldb/domain/permissions.py` | sessions, roles | log in, authorize |
| The rest | CLI, logging, metrics, bootstrap, configuration, feature requests, simulation | | see `components` in `PROJECT.json` |

### 1.2 How they interact, and where it is hard

* **Handlers and workers through rows.** A cancellation reads a job, sets
  `cancel_requested_at`, then sets `canceling`, while the worker passes the gate
  after which nothing may cancel. The gate looks at two columns, the verdicts at
  none: `mark_job_failed` and `mark_job_canceled` overwrite whatever is there.
* **Workers through claims.** The capacity of a host is a count inside the claiming
  statement. Recovery of a dead worker's job is a decision made by others, from the
  age of the job's last event and from connections on the target host, or, at the
  start of a worker, from nothing but the status.
* **Workers through the target host.** Two workers may restore the same target when
  a sweep has failed a job that is still running. The stored procedure that cuts
  over drops the target and fills a new one, statement by statement, and goes on
  in the server when its caller dies.
* **Deletion against everything.** One protection check, then a staging drop that
  may take minutes, then the target drop. A deletion drops whatever restore the
  target holds, and only the check keeps it from a live one.
* **Retries.** A deletion that died is repeated by a worker after five minutes,
  five times in all, although its handler may be alive and slow.
* **Stale lists.** The retention sweep selects its candidates once.
* **Submissions against each other.** A submission checks locks, the deployed job,
  the owner in the target database and two limits, one after the other, supersedes
  a job in between, and inserts; only the unique index on the active target is
  enforced at the moment of the insert.
* **Workers that take over tasks.** An admin task that has run for ten minutes is
  claimed again. What its first worker has recorded is resumed or started afresh,
  and a unique index decides which task may run.
* **Two servers.** A claim on a row of the overlord database is kept in a table of
  the service database, and the password of a host in MySQL and in AWS: nothing is
  atomic across them, every call may fail after it took effect, and nothing keeps
  two requests apart.
* **Threads.** While myloader loads, a monitor polls the process list, a tracker
  decides when a table is done, a pool runs ANALYZE within a budget, and the
  restore waits for all of them; three locks, a bounded queue, an event.

### 1.3 What makes each component correct

* Queue: capacity of a host, one worker per job, one restore per target at a time,
  a deployed job's database is its own, no verdict is taken back, no cancellation
  past the gate, every job ends. Some of these are lost behind the back of a live
  worker; what is left of them then has properties of its own.
* Rename: a target is one restore or nothing, what was loaded is kept until another
  restore of the target begins, a success is reported over a whole restore, a foreign
  database is never touched.
* Deletion and retention: a live or locked database is never dropped by who is not
  overtaken after its check, a foreign one never at all, a reported success of a retry
  left no target database, a stuck deletion is tried again, the sweep drops only its
  candidates' own restores.
* Submission: no limit is overrun by more than the requests that overlap, a
  deployed job is the one its owner finds in the database.
* Admin tasks: one worker per task until its time runs out, what is reported deleted is
  deleted, a recorded outcome is final, a user goes after the databases are gone or
  listed, every task ends.
* Overlord: no claim takes over another job's.
* Secret rotation: drift between the stores is reported, a quiet end is in step.
* Early ANALYZE: a table is offered after as many absences in a row as are asked for, no
  table lost by the counters, every wait ends.

## 2. Modules

| Module | What it is |
|---|---|
| `JobsTable` | rows of `jobs` and every UPDATE as an operator on tables; no state |
| `RestoreQueue` | EXTENDS `JobsTable`; workers, handlers, crashes, recoveries, host closing |
| `JobLifecycle` | the abstract life of a job; `RestoreQueue` is shown to implement it |
| `AtomicRename` | the cut-over on a host, statement by statement |
| `AtomicReplace` | the abstract replacement of a target in one step |
| `Deletion` | deletions, retries, retention, and what restores and users do to one target meanwhile |
| `Submission` | `enqueue_job` statement by statement, several users and threads |
| `AdminTasks` | claims, take-overs and execution of bulk and user deletions |
| `Overlord` | claim, sync and release of an overlord row, orphan cleanup |
| `SecretRotation` | `rotate_host_secret`, call by call, several at a time |
| `EarlyAnalyze` | monitor, tracker, pool and the restore's thread during a load |
| `*_proofs` | theorems of eight of these |
| `MCRestoreQueue`, `MCDeletion`, `MCComponents`, `MCProgress` | instances for TLC |

`MCComponents` puts the cut-over, rotation, overlord and submission side by side,
`MCProgress` the load and the admin tasks. A variable `part`, which never changes,
says which of them acts; a component does nothing in the parts of the others.
`MCComponents` has two parts for the cut-over (`rivals`: two restores of a target, at once
or in turn, whose procedures may outlive their workers; `first`: a new and a foreign
target), `rotation`, `tracking`, and two for submission (`transfer`: all users, one
database, until something disturbs it; `limits`: one user, several databases).
`MCProgress` has `pool` (threads, monitor and the restore's thread, with fairness),
`strikes` (myloader, its output and the monitor, for safety) and `tasks`. `MCDeletion`
has `retry` and `sweep`: users and handlers beside the worker that retries, or beside
the retention service.

**History variables.** `overtaken` (Deletion), `disturbed` (Submission), `overrun`
(AdminTasks) and `missed` (EarlyAnalyze) are read by no step of the system, only by the
bound on mishaps and by the instance that stops once `disturbed`. They record
what a property needs to know of the past: who was overtaken after its check, at
which target something ended during a submission, which task's time ran out in the
hands of a worker, how many polls in a row missed a table. With them a property says
what the code keeps in *every* behaviour, in place of an assumption on timing that
nothing enforces.

**Granularity.** A step is one statement (or one transaction) on the service
database, or one operation on the target host. What a handler has read stays in its
state (`req`, `task`, `zombies`, `del`, `sweep`) and may be out of date when it
acts.

**RestoreQueue.** `pc[w]` is where worker `w` is: `startup` (`_cleanup_zombies`),
`idle`, `claiming` (between the SELECT ... FOR UPDATE and the COMMIT of
`claim_next_job`), `prep` (discovery, download), `gate` (`lock_for_restore`),
`restore`, `load`, `staged`, `finish` (`_run_restore_phase`,
`_finalize_workflow`), `raise` (the error handler of the loop, which fails the job
a second time), `verify`, `drop`, `recover` (`_try_handle_stale_running_job`).
`req[c]` is a cancel handler with the job as it read it. `staging` and `db` are the
databases on the hosts, as far as the queue decides by them.

**AtomicRename.** `pc[j]` walks through orphan cleanup, load, pre-validation, the
check of the procedure's version, the advisory lock, the re-check, the deployment,
the call, the nine statements of the procedure and post-validation. `held[t]` has
every table of a target with the job it came from, so a mixture would be seen.

**Submission.** `sub[s]` is the submission of a thread between two statements of
`enqueue_job`, with what it has read; `jobs` are the rows it looks at, `db` the owner
in the pullDB table of each target.

**AdminTasks.** `task` and `result` are columns of `admin_tasks`, `run[w]` is the
executor of a worker with its own lists (`processed`, `failed`, `skipped`), which it
writes to `result` after each item. `item` is what a task deletes: a job and its
databases; `live` to `gone` stand for the row and the drop.

**Overlord.** `row` is the value of the name's rows in `overlord.companies`, `own`
whether pullDB inserted them, `tracking` the row of `overlord_tracking`, `req[q]` a
request between two transactions.

**SecretRotation.** `actual` and `stored` are the passwords in MySQL and in AWS,
`rot[r]` is a call of `rotate_host_secret`, `outcome[r]` the phase of its result. One
sub-machine (`Connect`, `Alter`, `Flush`) serves the change, its rollback and the second
attempt, as `_alter_mysql_password` does.

**EarlyAnalyze.** `load` is the set of tables that a statement of myloader is at,
`tracker` what pullDB believes, `poll` the monitor between its locks, `thread[w]` an analyze thread, `main` the
restore's thread. A step is what a thread does between two acquisitions of a lock.

**Deletion.** `del[a]` is the deletion that a web handler, bulk task or worker has
in hand; `sweep` is the retention service; `restore[j]` is as much of a restore as a
deletion can see. `jobs[j]` has the columns that the guards read. `db` is the job
whose pullDB table the target carries, or `External`, or `Nothing`.

## 3. Abstractions

* In RestoreQueue one owner submits, and a submission is one step (its checks and
  its insert): the unique key on the active target decides between rivals. A
  submission that is refused after it has superseded the old job is an action of its
  own (`SubmitRefused`). The supersession of a *completed* job after the insert
  (`enqueue.py:832-853`) is in Submission; nobody completes a job here.
* The zombie sweep drops the staging database of a job and fails the job in one step
  (`FailZombie`, `service.py:411-495`): its advisory lock keeps a second sweep out, and a
  crash in between leaves a running job without a staging database, which the next
  sweep treats the same way.
* The host's `enabled` flag and the maintenance mode are one thing, `open`.
* Statements on the service database do not fail in RestoreQueue; a failing
  *restore* may fail at every step (`FailJob`). In Deletion queries on the target
  host, the protection check and the credential lookup fail when `Faults` holds.
* `SELECT ... FOR UPDATE SKIP LOCKED` is one step under the locks of its rows; the
  row of the chosen job and of its host stay locked to the COMMIT (`claiming`).
* A worker that stops in order is a worker that crashes while idle.
* A claim is a claim: sessions, roles and permissions decide *who* may call an
  operation, and the models let anybody call it.
* AtomicRename: DROP DATABASE and a multi-table RENAME are atomic; a list of tables
  fits in `group_concat_max_len`; views and triggers that make RENAME fail are a
  statement that fails (`SqlError`).
* Deletion has one target. Nothing in a guard there looks at another target, except
  that the sweep waits until no job at all is active, of which the model keeps the
  part that concerns its target. A database without the pullDB table may be
  there from the start, and an administrator may create one by hand whenever there
  is none (`CreateByHand`), except between a check and its drop, where two statements
  of the code would have to be one. The look for the pullDB table and the DROP DATABASE
  of a deletion (`cleanup.py:780-820`) are one step. A deleted job's lapse of time, cancel flag and
  age are still columns; `View` in `MCDeletion` lets TLC forget them where no later
  step reads them.
  The web page's refusal of a job whose error begins with "Delete failed"
  (`routes.py:1538-1541`) is left out: nobody writes such an error, and without the
  refusal there are more deletions, not fewer.
  A removed row (`removed`, a hard delete) is matched by no UPDATE: its worker does not
  pass the gate, and `mark_job_deleting` on it fails at the event it appends (the foreign
  key of `job_events`), which ends the deletion.
* Deletion makes **no assumption on timing**: a claim, a lock, a deployment or another
  restore may come between a protection check and its drop. `LiveDataKept` and
  `RetentionDropsOwn` hold of every agent that was not overtaken after its *own* check;
  without the history TLC refutes both (a claim between `SweepProtect` and `SweepDrop`).
* Submission: jobs may end, be locked, completed or claimed between any two statements
  of a submission. `DeployedIsOwners` excepts a target from the moment something ended
  there during a submission, or it was claimed while a restore of it was under way.
  `db` has no host; a submission names one.
* AdminTasks: the items of two tasks are apart, and a bulk item and a database of a
  user take the same path. Failures while an audit line is written are left out.
  `item` keeps of the rows what the executor reads again.
* Overlord: the rows of a name share their routing and are one row; there are no
  subdomains and no permissions.
* SecretRotation: a password is known by who generated it. Privileges of the account
  are right.
* EarlyAnalyze: myloader begins and ends statements on tables in any order, and its
  output may run ahead of them or behind; the polls come at any moment. A table that
  was offered may therefore be loaded again: nothing is claimed of that. Counters of rows
  and percentages are left out.

## 4. Runs

`CHECK_DEADLOCK FALSE` everywhere: an instance has finitely many jobs, requests and
crashes, and stops when they are used up. All bounds (`MaxJob`, `MaxCrash`,
`MaxClose`, `MaxRequest`, `MaxMishap`, `MaxFaults`, `MaxOutside`) are guards of
the actions they bound and of nothing else.

| Run | Instance | Shows |
|---|---|---|
| `fleet` | 2 jobs, 2 workers, 2 hosts (capacity 1 and 2), 2 names, web cancellation, 2 crashes, workers start only while the others are idle | `LoadCapacity`, `TargetExclusive`, `DeployedIsLive`, `ReplaceOnlyWhileRunning`; implements `JobLifecycle` |
| `unplanned` | 2 jobs, 2 workers, 1 host, 2 names, both cancellation paths, stalls, workers start at any time, 1 crash, a host closes | `HostCapacity`, `OneWorkerPerJob`, `OneJobPerTarget`, `LiveUnlessOverrun`, `WebRespectsGate`, and the inductive invariant `QueueInv` |
| `liveness` | 2 jobs, 2 workers, 2 crashes, fairness | `QueuedEnds`, `RunningEnds` |
| `zombie` | 1 job, 2 workers that start independently | *violates* `ZombieIsDead` |
| `stale_lock` | 1 job, a crash | *violates* `FailedIsUnlocked` |
| `api_cancel` | 1 job, 2 workers, cancellation through the API | *violates* `RestoreIsNotCanceled` |
| `deletion` | 2 jobs, a handler, faults, a foreign database; beside a worker that retries, or beside the sweep with expiry | `LiveDataKept`, `ExternalKept`, `RetryLeavesNoTarget`, `RetentionDropsOwn` |
| `deletion_retry` | 2 jobs, a death, fairness | `RetriesHappen` |
| `delete_failsafe` | 2 jobs, a handler, a worker, faults | *violates* `FailSafe` |
| `components` | 4 restores of 3 targets; 2 rotations, 2 faults; 2 jobs and 2 requests on one overlord row, 1 outside write; 3 rows, 2 threads, 2 users, limits 2 and 1 | `TargetWhole`, `RestoreKept`, `SuccessIsLive`, `ExternalKept`; implements `AtomicReplace` for a new target; `DriftIsReported`, `QuietEndInStep`; `ClaimKept`; `LimitsNearlyHold`, `DeployedIsOwners` |
| `progress` | 2 tables, 2 threads, a queue of 1, 3 strikes, a fallback of 5; a bulk deletion of 2 items, one of them not owned, the deletion of a user with one database, 2 workers, 1 mishap | `OfferedWhenAbsent`, `TablesBalance`, `RestoreGoesOn`, `QueuedIsTaken`; `OneHolder`, `ProcessedIsDeleted`, `UserGoneLast`, `OutcomeKept`, `TasksEnd` |
| `same_type` | as `progress`, two tasks of one type | *violates* `TasksEnd` |

Why these bounds are enough: every guard compares at most two jobs (an old and a
new one of a target, a candidate and a blocker), two workers (one that executes, one
that recovers or sweeps), one handler and one sweep. A capacity of 1 shows the
limit, a capacity of 2 lets two restores overlap on a host. Two crashes let a
recovering worker die as well. Two deletion attempts show the first, the last and
the refusal after it. One delete request suffices because a second agent, the
worker, repeats it. The tables of a database are a marker and one other, which is
what the procedure can mix up or half-move. Two rotations and two faults let the first
fail, its rollback fail too, and the second overtake it. Two requests on an overlord
row are a claim or release that has read and one that acts in between; the outside
write is the third party. Two threads and three rows let a limit of one be overrun by
the one job that the theorem allows. A queue of one is full with two tables; two
threads are one at work and one that waits for the budget. `MaxMishap` counts
deaths of workers and tasks that outlast the timeout together; one of either lets a task
be taken over while another is pending, by a worker that is alone or by one that shares
it with the slow one. In `deletion` the two parts keep the number of agents at two; every
guard of the sweep and of the retry looks at rows and the target, never at the other's
progress. The theorems have no such split.

Type invariants: TLC checks `EATypeOK`, which holds the budget of the threads, and
`DeletionTypeOK`, which holds the limit of attempts; `QueueInv` contains that of
RestoreQueue. All of them are theorems.

Symmetry is used where nothing chooses among the symmetric values: workers and
names (the place of a job that was never submitted is arbitrary and never read),
and jobs in Deletion. Runs with liveness use none, nor a VIEW.

**Deployment assumption of `fleet`.** With workers that start while others execute, the
zombie sweep fails live jobs (`zombie`), with stalls a recovery does, and with the API's
handler a cancellation does (`api_cancel`); then `TargetExclusive`, `LoadCapacity`,
`DeployedIsLive`, `ReplaceOnlyWhileRunning` and the life cycle are lost. `fleet` therefore
has `StartWhenIdle = TRUE`, no stalls and the web's cancellation, and shows that crashes,
recoveries, claims and the two reports of a failure alone do no harm. Nothing in the
packaging enforces this, so none of the five is stated as a theorem. `unplanned` gives all
of it up and keeps what still holds: `OneJobPerTarget`, `LiveUnlessOverrun` (the same
relation of rows and databases, with the overrun named) and `WebRespectsGate`.

## 5. Fairness

* systemd restarts a worker that failed (`Restart=on-failure`,
  `packaging/systemd/pulldb-worker.service:12`, `pulldb-worker@.service:13`), and
  the poll loop (`loop.py: run_poll_loop`) never ends by itself: weak fairness of
  `WorkerStep`.
* A recovery reads the process list of the target host; it may fail any number of
  times but not for ever: strong fairness of `RecoverConfirm`.
* A host that was closed is opened again: weak fairness of `OpenHost`.
* In Deletion: an agent in the middle of a deletion goes on unless it dies; workers
  poll; time passes. A worker prefers restores to retries, so a retry may wait
  behind a queue that never empties; the instance has finitely many jobs.
* In EarlyAnalyze: threads run; a thread that waits for the tracker's lock gets it,
  because the monitor sleeps half a second between polls (`restore.py:570`; strong fairness
  of `MarkStep`).
  myloader may hang for ever, so `LoadTable` has no fairness.
* In AdminTasks: workers poll, and go on with what they execute unless they die; ten
  minutes pass (`Lapse`). Nobody has to create a task.
* Users, crashes, cancellations and requests are under no obligation.

## 6. Proofs

`RestoreQueue_proofs` proves, for any number of jobs, workers, clients, hosts and
targets, any capacity, both cancellation paths, any start policy, stalls and any
number of crashes and closings:

* `TypeCorrect`: `Spec => []TypeOK`.
* `InvHolds`: `Spec => []QueueInv`. `HostCapacity` is not inductive: the step that
  commits a claim adds a running job, and that the host has room was checked when
  the claim began. `QueueInv` adds what the row locks guarantee (`ClaimsHold`: a
  claim in progress holds a queued job, on a host with room, and no other claim is
  in progress on that host), and what makes every other step harmless
  (`TakenJobsLeftQueue`: whatever a worker or a sweep has in hand never waits
  again, so no UPDATE of theirs returns a job to the queue).
* `CapacityRespected` and `Exclusive`: `HostCapacity` and `OneWorkerPerJob` follow.

The argument goes step by step: most steps are *calm* (they settle jobs: no new
running job, none back to queued; `CalmStep`, `CalmMove`), and only `ClaimSelect`
and `ClaimCommit` need more. Cardinalities come from `FiniteSetTheorems`.

**Behind a worker's back.** Three more theorems hold with stalls, zombie sweeps of live
workers, recoveries of slow ones and both cancellation paths:

* `OneJobAtATarget` (`OneJobPerTarget`): no target has two jobs that are queued, at work or
  deployed;
* `LiveOrOverrun` (`LiveUnlessOverrun`): the target of a deployed job holds its restore, or
  that of a job that was failed or canceled and went on;
* `WebStopsAtTheGate` (`WebRespectsGate`): the web pages leave a job past the gate alone.

They rest on `OverrunInvHolds`. The verdicts of a worker have no condition on the row, so
what saves the table is that `mark_job_deployed` has one: `RowInHand` says that the row of
a job in hand is still running or already ended, that past the gate a running one can
no longer be asked to cancel, and that one about to be reported holds its target unless
overrun. `OneAtPlace` says that active jobs and live ones share no target,
`WebMarksRecorded` that a web handler about to mark a job has recorded its request. Most steps
are `Orderly`: they make no job live and take none back from its end.

`DeployedIsLive`, `TargetExclusive`, `LoadCapacity`, `ReplaceOnlyWhileRunning` and the
refinement of `JobLifecycle` are false in this generality (section 4) and stay with TLC.

`Deletion_proofs` proves five theorems, with or without faults, for any number of jobs,
handlers, workers and attempts. `DeletionTypeCorrect` is the type invariant.
`ExternalSafe`: `DeletionSpec => ExternalKept`, as long
as nobody creates a database by hand between a check and its drop. A
deletion looks for the pullDB table in the step that drops; the sweep does not and
relies on a check two steps earlier, so the invariant is `SweepVerified`: past that
check the target is not a foreign database.

`LiveDataSafe` (`LiveDataKept`) and `RetentionSafe` (`RetentionDropsOwn`) are about
whoever drops without having been overtaken. That nothing protected appears
between its check and its drop does not follow from the history alone: the gate of a
restore locks a job, too. `LiveInv` therefore adds that a job is restored once
(`RestoredOnce`): whoever is before its cut-over is not in the database, so that its lock
protects nothing there. Most steps of users, agents and the sweep change a row in a way
that deploys, locks and revives nothing (`Settled`).

`RetrySafe` (`RetryLeavesNoTarget`): what
a worker saw absent before its report must not come back. `RetryInv` says that a job in
the hands of a deletion is no longer one to be restored (`InHand`), that the restore of
such a job is over or will end at the gate (`RestoresEnd`), and that a retry without an
error has left no target of the job (`LeavesNothing`). Its staging database may be left.

`AtomicRename_proofs`: `RenameTypeCorrect`, `NeverMixed` (`TargetWhole`) and `ForeignKept`
(`ExternalKept`) for any restores, targets and tables, restores of one target that overlap
and procedures that outlive their workers; and `FirstIsAtomic`: as long as each
target was empty and has one restore, the cut-over implements `AtomicReplace`. `TargetWhole` is about the target, but
what a RENAME moves was listed two statements earlier from a staging database that
other steps change: the invariant `RenameInv` follows a restore from its load
(`LoadExists`, `StagedWhole`) to the list (`ListedWhole`), and for a foreign target says
that nobody is past the check (`ForeignRefused`).

`RestoresAreKept` (`RestoreKept`) and `ReportedIsLive` (`SuccessIsLive`) hold in the same
generality. The first: a step that takes what a restore has loaded is one of another
restore of its target that is under way (`HeldChange`: a step changes a target by a drop or
by a rename into an empty one; `KeptInv`: a staging database is dropped when it is empty, or
as an orphan). The second is about what a success reports: a whole restore of the target,
its own or a rival's that came later. `CountInv` says that past the drop nothing is left of
what the target held before, and that an empty target is not what pre-validation counted.
That it is the restore's *own* database is not so: a rival, or a procedure
that goes on after its caller has died, can replace it between the rename and the count.

`SecretRotation_proofs`: `RotTypeCorrect` and `NoSilentDrift` (`DriftIsReported`), for any
number of overlapping rotations and faults. When the stores differ, somebody has
failed, or some rotation has yet to compare them and will find out (`Doomed`, `WillLook`).
`AloneEndsInStep` (`QuietEndInStep`) is about a rotation beside which none has begun:
`AloneInStep` says for each of its phases which password each store has.

`AdminTasks_proofs`: `TasksTypeCorrect`, `HeldOnce` (`OneHolder`), `ReportedIsTrue`
(`ProcessedIsDeleted`), `UserIsLast` (`UserGoneLast`) and `RecordedIsFinal` (`OutcomeKept`),
for any number of tasks, items, workers, deaths and slow workers. The code has no lease and
never refreshes `started_at`, so a slow worker runs beside the one that took over. `TaskInv`
says of *every* worker that its own lists are true of the items (`ListsTrue`; items go
one way, but for the mark of a second worker), and of those at a task that never ran out in
somebody's hands that they are alone (`HeldTasks`) and that their lists have grown from
what was recorded (`ListsGrow`). A force deletion skips what it cannot read the owner of:
`UserGoneLast` says that the worker which removes the user has it in its report, not
that it is gone.

`Overlord_proofs`: `OverlordTypeCorrect` and `ClaimIsKept`, for any jobs, requests and hosts.
A request that has left the first step has a job (`Sound`), and a claim looks again
under the row lock.

`Submission_proofs`: `SubmitTypeCorrect` (with one active job per target) and `LimitsHold`
(`LimitsNearlyHold`): the bound is not inductive by itself; counted are the active jobs and the
threads past the check together (`Total`), and every step either leaves that sum, makes it
smaller, or adds one thread that saw room. `OwnersHold` (`DeployedIsOwners`): a submission
learns who owns the database in three steps and inserts in a later one, so `OwnersInv`
says what it has found out up to each of them (`SubmissionOK`), and why it stays true: a
target has one restored job that is deployed at most, its owner's, and none while another is
on its way (`TargetOK`). Each part is said of a target until something ends there during a
submission, or it is claimed under a restore (`disturbed`); claims of
databases with and without the pullDB table are in.

`EarlyAnalyze_proofs`, for any number of tables and threads: `LoadTypeCorrect` (`EATypeOK`)
and `TablesAreBalanced` (`TablesBalance`) from `EAInvHolds`: a table that was offered is in
the queue once or with one thread, never both (`Offered`), and a thread has a table exactly
in the phases that work on one (`Hands`). `OffersWhatIsAbsent` (`OfferedWhenAbsent`), for any
strikes and fallback and whatever myloader does and prints: `AbsentLongEnough` says that a
table that does not count as built has no more strikes than polls in a row that missed it,
and follows a snapshot from the poll that read it to the record it is applied to. It does
**not** follow that myloader is done with an offered table. The comment at
`restore_progress.py:248-256` reckons "Poll interval is 2s, so 3 strikes = 6s minimum absence",
but `restore.py:570` polls every 0.5 s, and files come in random order
(`restore_progress.py:486-488`), so that longer absences are normal. Writing the first of these
proofs showed
that the update of a record in `PollApply` was a CASE with two arms true at once, the
value of which TLA+ leaves open; it is an IF now.

TLC checked the invariants on the instances of the runs before they were proved.

Assumptions: the ASSUMEs of the modules (finite capacities, bounds in Nat, special
values that are not jobs, web clients that are not workers), which TLC evaluates in every
run. No theorem assumes anything else of a deployment or of timing.

Only model-checked: all liveness (`QueuedEnds`, `RunningEnds`, `RetriesHappen`, `TasksEnd`,
`RestoreGoesOn`, `QueuedIsTaken`), since it needs ENABLED; and the five properties of
`fleet`, for the reason above. `ReplacesAtomically`, the refinement of `AtomicReplace`, is
proved in the form of `FirstIsAtomic`.

## 7. Plan

Done: the modules of section 2 and the theorems of section 6. Left, in this order:

1. Which of the properties of `fleet` survive stalls alone, or cancellation through the
   API alone; the queue and the cut-over in one module.
2. `AdminTasks` composed with `Deletion`: a bulk task there is an agent of `Deletion`
   with its own retries; here an item.
3. `Submission` composed with `RestoreQueue`, over several owners and hosts.
4. Pure operators in a module of their own: staging names and their inverse,
   normalisation of customer names, checked against reference definitions.

## 8. What the models show of the code

Five listed runs find the code against its own words (`findings` in
`PROJECT.json`): a zombie sweep that fails a live worker's job, a restore lock left
on a recovered job, a job canceled through the API while its restore runs, a fail-safe that
does not block, and a dead worker's task that a pending one of its type keeps from being
reclaimed. The hazards list, with a
note each, what else the models refute when they are asked: a canceling
job whose worker died and that nobody recovers; a
dead worker's job hidden by the same name on another host; a job superseded by a
submission that is then refused; an old stored procedure that is called for a new
one; a target missing between DROP and RENAME; a protection check out of date when
the drop comes; a job deleted while its database stays; and an expired database that
retention never drops while its job is still `deployed`.

Some definitions are there and checked by no run, because the code does not keep them
and the listed findings are enough to read:

* `NotChanged` (SecretRotation): phase `mysql_update` reports "MySQL password was NOT
  changed" also when ALTER USER worked and FLUSH PRIVILEGES failed, or the answer got
  lost.
* `DeletesOwnRow` (Overlord): a job that claims again keeps the old snapshot of who
  created the row; a release with action delete can remove a row that others inserted.

What the modelling turned up besides, and the models contain as the code has it:

* Overlord: two claims of one job overwrite each other's snapshot; `update_synced` does
  not look at the job; a refusal during cleanup is swallowed; the orphan cleanup may
  remove a claim made after its list; bulk deletion, retries and retention never clean
  up.
* Admin tasks: an exception outside the handled parts of a force deletion leaves the
  task running until it lapses; the run that takes over fails at a user who is gone
  ("User not found"); a death between a hard delete and its record reports the job as
  not found; an item left in `deleting` is skipped by the run that takes over. A database
  whose owner cannot be read is skipped and its user removed (`admin_tasks.py:283-294`).
* Early ANALYZE: the budget is checked and used in two steps and may be exceeded by
  the other threads; a table refused by a full queue is never offered again; joins
  give up after five seconds, so that an ANALYZE may hold the staging database when it is
  renamed. `_all_done` is set whenever the queue drains during the load and never cleared,
  so the wait after the load may return at once. Tables that leave the process list within
  three polls of the end are never queued.
* Submission: a job is superseded before the limits may refuse its successor; locks of
  other users count for deployed jobs only.

## 9. Not modelled

* Pages, commands and endpoints that only show; the command line, a client of the API.
* Authentication, sessions and permissions: who may act.
* Connection pool, distinct-value cache and rate limit: one lock each, no call under it,
  every operation one step.
* The heartbeat thread, beyond the silence that recovery sees; percentages, throughput
  and estimates of progress.
* Provisioning of hosts and accounts: one operator, idempotent statements, a list of
  what succeeded.
* Backups: discovery and download are a step that succeeds or fails; names, metadata
  and archives are formats of strings and bytes.
* Restore history and its backfill, feature requests, notifications, audit: rows
  that no modelled part reads.
* Logging, metrics, profiling, bootstrap, configuration, encryption of keys; AWS; the
  simulation mode, which replaces the infrastructure.

`components` in `PROJECT.json` says for each part which sources it has and what is left
out of a part that is modelled partly.
