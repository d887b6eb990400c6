----------------------------- MODULE AdminTasks -----------------------------
(***************************************************************************)
(* The admin tasks: the table admin_tasks, the claim that also takes over  *)
(* the task of a worker that died, and the executor that runs a task item  *)
(* by item and records how far it came.  A step is one transaction, or one *)
(* DROP on a host.  Worker deaths come between any two steps.              *)
(*                                                                         *)
(* An operator with _Faulty in its name is the one after it with a         *)
(* plausible mistake, which no specification uses.                         *)
(***************************************************************************)
EXTENDS Naturals, FiniteSets

CONSTANTS
    Task, Worker, Nobody,
    Item,        \* jobs of a bulk deletion, databases of a deleted user
    TypeOf,      \* the task_type of each task
    ItemsOf,     \* the items in each task's parameters
    Bulk,        \* the tasks of type bulk_delete_jobs
    Forced,      \* the tasks of type force_delete_user
    Hard,        \* the bulk deletions that remove the records
    Unowned,     \* superseded and claimed jobs; databases of somebody else
    MaxMishap    \* bound: deaths of workers, and tasks that outlast the timeout

ASSUME TaskTypes ==
    /\ IsFiniteSet(Task) /\ Nobody \notin Worker \cup Task \cup Item
    /\ ItemsOf \in [Task -> SUBSET Item]
    /\ Bulk \subseteq Task /\ Forced \subseteq Task /\ Bulk \cap Forced = {} /\ Hard \subseteq Bulk
    /\ Unowned \subseteq Item /\ MaxMishap \in Nat
ASSUME ItemsApart ==
    \A t, u \in Task : t # u => ItemsOf[t] \cap ItemsOf[u] = {}

VARIABLES
    task,     \* the rows of admin_tasks, with the time they were created
    result,   \* result_json: the outcome of each item
    item,     \* the job rows and databases the tasks delete
    user,     \* the force deletions whose user record still exists
    run,      \* each worker: its task, where it is, its item, its own lists
    crashes,  \* how many workers have died
    overrun   \* history: tasks whose time ran out while a worker was at them

taskVars == <<task, result, item, user, run, crashes, overrun>>

TaskStatus == {"none", "pending", "running", "complete", "failed"}
Outcome == {"none", "processed", "failed", "skipped"}
ItemState == {"live", "deleting", "deleted", "gone"}
RunPhase == {"idle", "next", "mark", "drop", "erase", "save", "user", "end"}
NoOutcome == [i \in Item |-> "none"]

\* Every variable keeps its type; a worker has an item while it deletes one.
TasksTypeOK ==
    /\ task \in [Task -> [status : TaskStatus, born : Nat, stale : BOOLEAN]]
    /\ result \in [Task -> [Item -> Outcome]]
    /\ item \in [Item -> ItemState] /\ user \subseteq Forced
    /\ run \in [Worker -> [task : Task \cup {Nobody}, at : RunPhase,
                           item : Item \cup {Nobody}, lists : [Item -> Outcome]]]
    /\ crashes \in 0..MaxMishap /\ overrun \subseteq Task
    /\ \A w \in Worker : run[w].task = Nobody <=> run[w].at = "idle"
    /\ \A w \in Worker : run[w].item # Nobody <=> run[w].at \in {"mark", "drop", "erase"}

Idle == [task |-> Nobody, at |-> "idle", item |-> Nobody, lists |-> NoOutcome]

TasksInit ==
    /\ task = [t \in Task |-> [status |-> "none", born |-> 0, stale |-> FALSE]]
    /\ result = [t \in Task |-> NoOutcome]
    /\ item \in [Item -> {"live"}]
    /\ user = Forced
    /\ run = [w \in Worker |-> Idle]
    /\ crashes = 0 /\ overrun = {}

Mishaps == crashes + Cardinality(overrun)
InState(s) == {t \in Task : task[t].status = s}
Holders(t) == {w \in Worker : run[w].task = t}

(***************************************************************************)
(* The table: create_task, claim_next_task.                                *)
(***************************************************************************)

\* created_at grows with the number of tasks there are.
CreateTask(t) ==
    /\ task[t].status = "none"
    /\ task' = [task EXCEPT ![t] = [status |-> "pending", stale |-> FALSE,
                                    born |-> Cardinality(Task \ InState("none"))]]
    /\ UNCHANGED <<result, item, user, run, crashes, overrun>>

\* The unique index on the type of a running task lets the UPDATE pass.
MayRun(t) == \A u \in InState("running") \ {t} : TypeOf[u] # TypeOf[t]

StaleTasks == {t \in InState("running") : task[t].stale}

\* Pending tasks first, the oldest of them, then a stale one.
Next_Pending == {t \in InState("pending") : \A u \in InState("pending") : task[t].born <= task[u].born}
Candidates_Faulty == Next_Pending

Candidates == IF InState("pending") # {} THEN Next_Pending ELSE StaleTasks

\* A bulk deletion goes on from what was recorded; a force deletion starts again.
Resumed_Faulty(t) == NoOutcome
Resumed(t) == IF t \in Bulk THEN result[t] ELSE NoOutcome

Running_Faulty(r) == [r EXCEPT !.status = "running"]
Running(r) == [r EXCEPT !.status = "running", !.stale = FALSE]

\* A worker with no restore to run.  When the index refuses the UPDATE, the
\* exception leaves everything as it was.
ClaimNextTask(w) ==
    /\ run[w].at = "idle"
    /\ \E t \in Candidates :
          /\ MayRun(t)
          /\ task' = [task EXCEPT ![t] = Running(task[t])]
          /\ run' = [run EXCEPT ![w] = [task |-> t, at |-> "next", item |-> Nobody, lists |-> Resumed(t)]]
    /\ UNCHANGED <<result, item, user, crashes, overrun>>

\* stale_timeout_minutes pass since started_at, which the work on a task never
\* refreshes: its worker is dead, or is still at it.
Lapse(t) ==
    /\ task[t].status = "running" /\ ~task[t].stale
    /\ task' = [task EXCEPT ![t].stale = TRUE]
    /\ \/ Holders(t) = {} /\ UNCHANGED overrun
       \/ Holders(t) # {} /\ Mishaps < MaxMishap /\ overrun' = overrun \cup {t}
    /\ UNCHANGED <<result, item, user, run, crashes>>

(***************************************************************************)
(* The executor: one item after the other.                                 *)
(***************************************************************************)

Step(w, at) == run' = [run EXCEPT ![w].at = at]

Record(w, i, outcome, at) ==
    run' = [run EXCEPT ![w] = [task |-> run[w].task, at |-> at, item |-> Nobody,
                               lists |-> [run[w].lists EXCEPT ![i] = outcome]]]
Take(w, i, at) ==
    run' = [run EXCEPT ![w] = [task |-> run[w].task, at |-> at, item |-> i, lists |-> run[w].lists]]
Unhandled(w) == {i \in ItemsOf[run[w].task] : run[w].lists[i] = "none"}

\* Where the state of a job or a database leads.  A job whose deletion has used
\* up its retries is live here, and fails at once.  A force deletion skips what
\* is not the user's, and also what it cannot read the owner of: the
\* credentials or the query fail, and the database stays.
CheckItem(w, i) ==
    LET t == run[w].task
    IN  /\ run[w].at = "next" /\ i \in Unhandled(w)
        /\ \/ /\ t \in Bulk /\ item[i] = "gone" /\ Record(w, i, "failed", "save")
           \/ /\ t \in Bulk /\ item[i] = "deleted"
              /\ IF t \in Hard THEN Take(w, i, "erase") ELSE Record(w, i, "skipped", "save")
           \/ /\ t \in Bulk /\ item[i] = "deleting" /\ Record(w, i, "skipped", "save")
           \/ t \in Bulk /\ item[i] = "live" /\ Record(w, i, "failed", "save")
           \/ /\ t \in Bulk /\ item[i] = "live"
              /\ IF i \in Unowned THEN Take(w, i, "erase") ELSE Take(w, i, "mark")
           \/ t \in Forced /\ Record(w, i, "skipped", "next")
           \/ t \in Forced /\ i \notin Unowned /\ item[i] # "gone" /\ Take(w, i, "drop")
        /\ UNCHANGED <<task, result, item, user, crashes, overrun>>

MarkDeleting(w) ==
    /\ run[w].at = "mark"
    /\ item' = [item EXCEPT ![run[w].item] = IF @ = "gone" THEN @ ELSE "deleting"]
    /\ Step(w, "drop")
    /\ UNCHANGED <<task, result, user, crashes, overrun>>

DropItem_Faulty(w) ==
    LET i == run[w].item
    IN  /\ run[w].at = "drop"
        /\ Record(w, i, "processed", "save")
        /\ item' \in {item, [item EXCEPT ![i] = "gone"]}
        /\ UNCHANGED <<task, result, user, crashes, overrun>>

\* DROP DATABASE, with the checks before it, succeeds or fails.
DropItem(w) ==
    LET i == run[w].item
    IN  /\ run[w].at = "drop"
        /\ \/ Record(w, i, "failed", "save") /\ UNCHANGED item
           \/ run[w].task \in Bulk /\ Step(w, "erase") /\ UNCHANGED item
           \/ /\ run[w].task \in Forced /\ Record(w, i, "processed", "save")
              /\ item' = [item EXCEPT ![i] = "gone"]
        /\ UNCHANGED <<task, result, user, crashes, overrun>>

\* hard_delete_job or mark_job_deleted; any failure after the drop is recorded.
EraseJob(w) ==
    LET i == run[w].item
    IN  /\ run[w].at = "erase"
        /\ \/ Record(w, i, "failed", "save") /\ UNCHANGED item
           \/ /\ Record(w, i, "processed", "save")
              /\ item' = [item EXCEPT ![i] = IF run[w].task \in Hard \/ @ = "gone" THEN "gone"
                                                                                 ELSE "deleted"]
        /\ UNCHANGED <<task, result, user, crashes, overrun>>

UpdateTaskResult(w) ==
    /\ run[w].at = "save"
    /\ result' = [result EXCEPT ![run[w].task] = run[w].lists]
    /\ Step(w, "next")
    /\ UNCHANGED <<task, item, user, crashes, overrun>>

AllHandled_Faulty(w) == run[w].at = "next"
AllHandled(w) == run[w].at = "next" /\ Unhandled(w) = {}

\* _delete_user_jobs, and the progress after it.
DeleteUserJobs(w) ==
    /\ run[w].task \in Forced /\ AllHandled(w)
    /\ result' = [result EXCEPT ![run[w].task] = run[w].lists]
    /\ Step(w, "user")
    /\ UNCHANGED <<task, item, user, crashes, overrun>>

Ended(w, status) ==
    /\ task' = [task EXCEPT ![run[w].task].status = status]
    /\ result' = [result EXCEPT ![run[w].task] = run[w].lists]
    /\ run' = [run EXCEPT ![w] = Idle]

\* _force_delete_user_record: it fails when an earlier run came this far.
DeleteUser(w) ==
    /\ run[w].at = "user"
    /\ IF run[w].task \in user
       THEN user' = user \ {run[w].task} /\ Step(w, "end") /\ UNCHANGED <<task, result>>
       ELSE Ended(w, "failed") /\ UNCHANGED user
    /\ UNCHANGED <<item, crashes, overrun>>

\* complete_task: neither the status nor the worker is looked at.
CompleteTask(w) ==
    /\ run[w].task # Nobody
    /\ \/ run[w].at = "end"
       \/ run[w].task \notin Forced /\ AllHandled(w)
    /\ Ended(w, "complete") /\ UNCHANGED <<item, user, crashes, overrun>>

\* An exception outside an item: fail_task with the results so far.  A force
\* deletion catches it in its last two steps only; before, it is as if the
\* worker had died.
FailTask(w) ==
    /\ IF run[w].task \in Forced THEN run[w].at = "user" \/ AllHandled(w)
                                ELSE run[w].at \in {"next", "save"}
    /\ Ended(w, "failed") /\ UNCHANGED <<item, user, crashes, overrun>>

\* The worker dies and starts again, or could not even record the failure.
WorkerDies(w) ==
    /\ run[w].task # Nobody /\ Mishaps < MaxMishap
    /\ crashes' = crashes + 1 /\ run' = [run EXCEPT ![w] = Idle]
    /\ UNCHANGED <<task, result, item, user, overrun>>

Execute(w) ==
    \/ \E i \in Item : CheckItem(w, i)
    \/ MarkDeleting(w) \/ DropItem(w) \/ EraseJob(w) \/ UpdateTaskResult(w)
    \/ DeleteUserJobs(w) \/ DeleteUser(w) \/ CompleteTask(w)

TasksNext ==
    \/ \E t \in Task : CreateTask(t) \/ Lapse(t)
    \/ \E w \in Worker : ClaimNextTask(w) \/ Execute(w) \/ FailTask(w) \/ WorkerDies(w)

TasksSpec == TasksInit /\ [][TasksNext]_taskVars

\* Workers poll and go on, and time passes.
TasksFairness ==
    /\ \A t \in Task : WF_taskVars(Lapse(t))
    /\ \A w \in Worker : WF_taskVars(ClaimNextTask(w)) /\ WF_taskVars(Execute(w))
FairTasksSpec == TasksSpec /\ TasksFairness

-----------------------------------------------------------------------------
(* Properties.                                                             *)

\* Two workers are at one task only after its time ran out in the hands of one
\* of them: no death, retry or claim in any other order gives a task away twice.
OneHolder == \A t \in Task \ overrun : Cardinality(Holders(t)) <= 1

\* An item the table reports as processed is deleted, whatever died or failed
\* on the way and whoever went on.  At worst a second worker at an overrun
\* deletion has marked the job for deletion again.
ProcessedIsDeleted ==
    \A t \in Task : \A i \in ItemsOf[t] :
        result[t][i] = "processed" =>
            item[i] \in {"deleted", "gone"} \/ (t \in Bulk \cap overrun /\ item[i] = "deleting")

\* The record of a user is removed last, and by a worker that has dealt with
\* every database of the user: each is gone, or goes into the worker's report as
\* failed or skipped, whatever an earlier run or another worker at the task did.
UserGoneLast ==
    [][\A t \in user \ user' : \E w \in Holders(t) : run[w].at = "user" /\
          \A i \in ItemsOf[t] : item[i] = "gone" \/ run[w].lists[i] \in {"failed", "skipped"}]_taskVars

\* What a bulk deletion has recorded of a job is final across restarts, unless
\* two workers were at it.
OutcomeKept ==
    [][\A t \in Bulk \ overrun : \A i \in Item :
          result[t][i] # "none" => result'[t][i] = result[t][i]]_taskVars

\* Every task ends, also when workers die on the way: "reclaims running tasks
\* older than timeout (orphan recovery for crashed workers)".
TasksEnd ==
    \A t \in Task : task[t].status = "pending" ~> task[t].status \in {"complete", "failed"}
=============================================================================
