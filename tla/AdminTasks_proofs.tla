-------------------------- MODULE AdminTasks_proofs --------------------------
(***************************************************************************)
(* For any number of tasks, items, workers and deaths: a task has one      *)
(* holder until its time runs out in the hands of a live worker, what is   *)
(* reported is true, the record of a user goes last, and what a run of a   *)
(* bulk deletion has learnt survives a death.                              *)
(*                                                                         *)
(* The timeout is the only thing that tells a dead worker from a slow one. *)
(* What holds whatever it says rests on the items: they only ever go one   *)
(* way, but for the mark of a second worker, so that what a worker has in  *)
(* its lists stays true whoever else is at the task.  The rest is said of  *)
(* the tasks that no slow worker had to share.                             *)
(***************************************************************************)
EXTENDS AdminTasks, FiniteSetTheorems, TLAPS

USE TaskTypes, ItemsApart

\* The task and the worker that has it.
Held(w) == run[w].task # Nobody
HeldTasks ==
    /\ \A w \in Worker : Held(w) /\ run[w].task \notin overrun =>
           task[run[w].task].status = "running" /\ ~task[run[w].task].stale
    /\ \A v, w \in Worker : Held(w) /\ run[w].task \notin overrun /\ run[v].task = run[w].task => v = w

Deleted(t, i) ==
    \/ item[i] = "gone"
    \/ t \in Bulk /\ item[i] = "deleted"
    \/ t \in Bulk /\ t \in overrun /\ item[i] = "deleting"

\* The item a worker is at, and the row it is about to mark.
AtItem(w) ==
    /\ run[w].item # Nobody => /\ run[w].item \in ItemsOf[run[w].task]
                               /\ run[w].lists[run[w].item] = "none"
    /\ run[w].at = "mark" /\ run[w].task \notin overrun => item[run[w].item] = "live"
    /\ run[w].at \in {"mark", "erase"} => run[w].task \in Bulk

\* What its lists say of the items.
ListsTrue(w) ==
    \A i \in ItemsOf[run[w].task] :
        run[w].lists[i] = "processed" => Deleted(run[w].task, i)

\* The lists of a bulk deletion have grown from what was recorded.
ListsGrow(w) ==
    run[w].task \in Bulk \ overrun =>
        \A i \in Item : result[run[w].task][i] # "none" => run[w].lists[i] = result[run[w].task][i]

\* Before the user goes, every database was handled.
ListsSaved(w) ==
    /\ run[w].at \in {"user", "end"} => run[w].task \in Forced
    /\ run[w].at = "user" => \A i \in ItemsOf[run[w].task] : run[w].lists[i] # "none"

HolderInv(w) == Held(w) => AtItem(w) /\ ListsTrue(w) /\ ListsGrow(w) /\ ListsSaved(w)

ResultsTrue ==
    \A t \in Task : \A i \in ItemsOf[t] : result[t][i] = "processed" => Deleted(t, i)

TaskInv ==
    /\ TasksTypeOK /\ HeldTasks /\ ResultsTrue
    /\ \A w \in Worker : HolderInv(w)

Act(w) == ClaimNextTask(w) \/ Execute(w) \/ FailTask(w) \/ WorkerDies(w)

-----------------------------------------------------------------------------

LEMMA InitTaskInv == TasksInit => TaskInv
<1> SUFFICES ASSUME TasksInit PROVE TaskInv
  OBVIOUS
<1> USE DEF TasksInit, Idle, NoOutcome
<1>1. TasksTypeOK
  BY DEF TasksTypeOK, TaskStatus, Outcome, ItemState, RunPhase
<1>2. HeldTasks /\ \A w \in Worker : HolderInv(w)
  BY DEF HeldTasks, HolderInv, Held
<1>3. ResultsTrue
  BY DEF ResultsTrue
<1> QED BY <1>1, <1>2, <1>3 DEF TaskInv

-----------------------------------------------------------------------------
(* Types.                                                                  *)

RunRecord == [task : Task \cup {Nobody}, at : RunPhase, item : Item \cup {Nobody},
              lists : [Item -> Outcome]]

\* A worker goes on to the next statement with what it has.
LEMMA StepTo ==
    ASSUME TasksTypeOK, NEW w \in Worker, NEW at \in RunPhase, Step(w, at)
    PROVE  /\ run' \in [Worker -> RunRecord]
           /\ \A v \in Worker \ {w} : run'[v] = run[v]
           /\ run'[w].task = run[w].task /\ run'[w].at = at
           /\ run'[w].item = run[w].item /\ run'[w].lists = run[w].lists
<1>1. run \in [Worker -> RunRecord]
  BY DEF TasksTypeOK, RunRecord
<1> QED BY <1>1 DEF Step, RunRecord

\* A worker takes up an item.
LEMMA ItemTo ==
    ASSUME TasksTypeOK, NEW w \in Worker, NEW i \in Item, NEW at \in RunPhase,
           Take(w, i, at)
    PROVE  /\ run' \in [Worker -> RunRecord]
           /\ \A v \in Worker \ {w} : run'[v] = run[v]
           /\ run'[w].task = run[w].task /\ run'[w].at = at
           /\ run'[w].item = i /\ run'[w].lists = run[w].lists
BY DEF TasksTypeOK, RunRecord, Take

\* What an action does to its worker: the record keeps its type, and the task
\* and the item go with the phase.
LEMMA RunStep ==
    ASSUME TasksTypeOK, NEW w \in Worker, Act(w)
    PROVE  /\ run' \in [Worker -> RunRecord]
           /\ \A v \in Worker \ {w} : run'[v] = run[v]
           /\ run'[w].task = Nobody <=> run'[w].at = "idle"
           /\ run'[w].item # Nobody <=> run'[w].at \in {"mark", "drop", "erase"}
           /\ run'[w].task \in {run[w].task, Nobody} \/ ClaimNextTask(w)
<1> USE DEF RunPhase, Outcome
<1>0. /\ run \in [Worker -> RunRecord]
      /\ run[w].task = Nobody <=> run[w].at = "idle"
      /\ run[w].item # Nobody <=> run[w].at \in {"mark", "drop", "erase"}
  BY DEF TasksTypeOK, RunRecord
<1>1. CASE ClaimNextTask(w)
  <2>1. PICK t \in Task : run' = [run EXCEPT ![w] = [task |-> t, at |-> "next", item |-> Nobody,
                                                     lists |-> Resumed(t)]]
    BY <1>1 DEF ClaimNextTask, Candidates, Next_Pending, StaleTasks, InState
  <2>2. Resumed(t) \in [Item -> Outcome]
    BY DEF Resumed, NoOutcome, TasksTypeOK
  <2>3. [task |-> t, at |-> "next", item |-> Nobody, lists |-> Resumed(t)] \in RunRecord
    BY <2>2 DEF RunRecord
  <2> DEFINE x == [task |-> t, at |-> "next", item |-> Nobody, lists |-> Resumed(t)]
  <2>4. run' = [run EXCEPT ![w] = x] /\ x \in RunRecord /\ t # Nobody
    BY <2>1, <2>3
  <2>5. x.task = t /\ x.at = "next" /\ x.item = Nobody
    OBVIOUS
  <2> HIDE DEF x
  <2> QED BY <1>0, <1>1, <2>4, <2>5
<1>2. ASSUME NEW i \in Item, CheckItem(w, i),
             NEW outcome \in Outcome, NEW at \in {"save", "next"}, Record(w, i, outcome, at)
      PROVE  /\ run' \in [Worker -> RunRecord]
             /\ \A v \in Worker \ {w} : run'[v] = run[v]
             /\ run'[w].task = Nobody <=> run'[w].at = "idle"
             /\ run'[w].item # Nobody <=> run'[w].at \in {"mark", "drop", "erase"}
             /\ run'[w].task \in {run[w].task, Nobody}
  <2>1. run[w].at = "next"
    BY <1>2 DEF CheckItem
  <2>2. /\ run' \in [Worker -> RunRecord] /\ \A v \in Worker \ {w} : run'[v] = run[v]
        /\ run'[w].task = run[w].task /\ run'[w].at = at /\ run'[w].item = Nobody
    BY <1>2, <1>0 DEF Record, RunRecord
  <2> QED BY <1>0, <1>2, <2>1, <2>2
<1>3. ASSUME NEW i \in Item, CheckItem(w, i), NEW at \in {"mark", "drop", "erase"},
             Take(w, i, at)
      PROVE  /\ run' \in [Worker -> RunRecord]
             /\ \A v \in Worker \ {w} : run'[v] = run[v]
             /\ run'[w].task = Nobody <=> run'[w].at = "idle"
             /\ run'[w].item # Nobody <=> run'[w].at \in {"mark", "drop", "erase"}
             /\ run'[w].task \in {run[w].task, Nobody}
  <2>1. run[w].at = "next" /\ i # Nobody
    BY <1>3 DEF CheckItem
  <2> QED BY <1>0, <1>3, <2>1, ItemTo
<1>4. CASE \E i \in Item : CheckItem(w, i)
  <2>1. PICK i \in Item : CheckItem(w, i)
    BY <1>4
  <2>2. \/ \E outcome \in Outcome, at \in {"save", "next"} : Record(w, i, outcome, at)
        \/ \E at \in {"mark", "drop", "erase"} : Take(w, i, at)
    BY <2>1 DEF CheckItem
  <2> QED BY <1>2, <1>3, <2>1, <2>2
<1>5. CASE MarkDeleting(w)
  BY <1>0, <1>5, StepTo DEF MarkDeleting
<1>6. CASE DropItem(w) \/ EraseJob(w)
  <2>1. run[w].item \in Item /\ run[w].at \in {"drop", "erase"}
    BY <1>0, <1>6 DEF DropItem, EraseJob, RunRecord
  <2>2. \/ \E outcome \in Outcome, at \in {"save", "next"} : Record(w, run[w].item, outcome, at)
        \/ Step(w, "erase")
    BY <1>6 DEF DropItem, EraseJob
  <2>3. CASE Step(w, "erase")
    BY <1>0, <2>1, <2>3, StepTo
  <2>4. CASE \E outcome \in Outcome, at \in {"save", "next"} : Record(w, run[w].item, outcome, at)
    <3>1. PICK outcome \in Outcome, at \in {"save", "next"} : Record(w, run[w].item, outcome, at)
      BY <2>4
    <3>2. /\ run' \in [Worker -> RunRecord] /\ \A v \in Worker \ {w} : run'[v] = run[v]
          /\ run'[w].task = run[w].task /\ run'[w].at = at /\ run'[w].item = Nobody
      BY <1>0, <2>1, <3>1 DEF Record, RunRecord
    <3> QED BY <1>0, <2>1, <3>2
  <2> QED BY <2>2, <2>3, <2>4
<1>7. CASE UpdateTaskResult(w)
  BY <1>0, <1>7, StepTo DEF UpdateTaskResult
<1>8. CASE DeleteUserJobs(w)
  BY <1>0, <1>8, StepTo DEF DeleteUserJobs, AllHandled
<1>9. ASSUME run' = [run EXCEPT ![w] = Idle]
      PROVE  /\ run' \in [Worker -> RunRecord]
             /\ \A v \in Worker \ {w} : run'[v] = run[v]
             /\ run'[w].task = Nobody /\ run'[w].at = "idle" /\ run'[w].item = Nobody
  BY <1>0, <1>9 DEF Idle, NoOutcome, RunRecord
<1>10. CASE DeleteUser(w)
  <2>1. CASE Step(w, "end")
    BY <1>0, <1>10, <2>1, StepTo DEF DeleteUser
  <2>2. CASE Ended(w, "failed")
    BY <1>9, <2>2 DEF Ended
  <2> QED BY <1>10, <2>1, <2>2 DEF DeleteUser
<1>11. CASE CompleteTask(w) \/ FailTask(w) \/ WorkerDies(w)
  BY <1>9, <1>11 DEF CompleteTask, FailTask, WorkerDies, Ended
<1> QED BY <1>1, <1>4, <1>5, <1>6, <1>7, <1>8, <1>10, <1>11 DEF Act, Execute

\* No time runs out in a worker's own step.
LEMMA NoLapse ==
    ASSUME NEW w \in Worker, Act(w)
    PROVE  overrun' = overrun
BY DEF Act, ClaimNextTask, Execute, CheckItem, MarkDeleting, DropItem, EraseJob, UpdateTaskResult,
   DeleteUserJobs, DeleteUser, CompleteTask, FailTask, WorkerDies

\* The rows of the table, their results and the items.
LEMMA RowStep ==
    ASSUME TasksTypeOK, NEW w \in Worker, Act(w)
    PROVE  /\ task' \in [Task -> [status : TaskStatus, born : Nat, stale : BOOLEAN]]
           /\ result' \in [Task -> [Item -> Outcome]]
           /\ item' \in [Item -> ItemState] /\ user' \subseteq Forced
           /\ crashes' \in 0..MaxMishap
<1>0. /\ run \in [Worker -> RunRecord] /\ result \in [Task -> [Item -> Outcome]]
      /\ task \in [Task -> [status : TaskStatus, born : Nat, stale : BOOLEAN]]
      /\ item \in [Item -> ItemState] /\ user \subseteq Forced /\ crashes \in 0..MaxMishap
  BY DEF TasksTypeOK, RunRecord
<1>1. CASE ClaimNextTask(w)
  <2>1. PICK t \in Task : task' = [task EXCEPT ![t] = Running(task[t])]
    BY <1>1 DEF ClaimNextTask, Candidates, Next_Pending, StaleTasks, InState
  <2>2. Running(task[t]) \in [status : TaskStatus, born : Nat, stale : BOOLEAN]
    <3>1. task[t] \in [status : TaskStatus, born : Nat, stale : BOOLEAN]
      BY <1>0
    <3> QED BY <3>1 DEF Running, TaskStatus
  <2> QED BY <1>0, <1>1, <2>1, <2>2 DEF ClaimNextTask
<1>2. CASE \/ \E i \in Item : CheckItem(w, i)
           \/ MarkDeleting(w) \/ DropItem(w) \/ EraseJob(w)
  <2>1. UNCHANGED <<task, result, user, crashes>>
    BY <1>2 DEF CheckItem, MarkDeleting, DropItem, EraseJob
  <2>2. item' = item \/ \E s \in ItemState, i \in Item \cup {Nobody} : item' = [item EXCEPT ![i] = s]
    <3>1. run[w].item \in Item \cup {Nobody} /\ (run[w].item \in Item => item[run[w].item] \in ItemState)
      BY <1>0 DEF RunRecord
    <3>2. CASE MarkDeleting(w)
      BY <1>0, <3>1, <3>2 DEF MarkDeleting, ItemState
    <3>3. CASE DropItem(w)
      BY <3>1, <3>3 DEF DropItem, ItemState
    <3>4. CASE EraseJob(w)
      BY <3>1, <3>4 DEF EraseJob, ItemState
    <3> QED BY <1>2, <3>2, <3>3, <3>4 DEF CheckItem
  <2> QED BY <1>0, <2>1, <2>2
<1>3. CASE UpdateTaskResult(w) \/ DeleteUserJobs(w)
  BY <1>0, <1>3 DEF UpdateTaskResult, DeleteUserJobs, RunRecord
<1>4. ASSUME NEW status \in {"complete", "failed"}, Ended(w, status), UNCHANGED <<item, user, crashes>>
      PROVE  /\ task' \in [Task -> [status : TaskStatus, born : Nat, stale : BOOLEAN]]
             /\ result' \in [Task -> [Item -> Outcome]]
  <2> DEFINE r == [task[run[w].task] EXCEPT !.status = status]
  <2>1. CASE run[w].task \in Task
    <3>1. task[run[w].task] \in [status : TaskStatus, born : Nat, stale : BOOLEAN]
      BY <1>0, <2>1
    <3>2. r \in [status : TaskStatus, born : Nat, stale : BOOLEAN]
      BY <1>4, <3>1 DEF TaskStatus
    <3>3. task' = [task EXCEPT ![run[w].task] = r]
      BY <1>0, <1>4 DEF Ended
    <3>4. run[w].lists \in [Item -> Outcome] /\ result' = [result EXCEPT ![run[w].task] = run[w].lists]
      BY <1>0, <1>4 DEF Ended, RunRecord
    <3> HIDE DEF r
    <3> QED BY <1>0, <3>2, <3>3, <3>4
  <2>2. CASE run[w].task \notin Task
    BY <1>0, <1>4, <2>2 DEF Ended
  <2> QED BY <2>1, <2>2
<1>5. CASE DeleteUser(w)
  BY <1>0, <1>4, <1>5 DEF DeleteUser, Ended
<1>6. CASE CompleteTask(w) \/ FailTask(w)
  BY <1>0, <1>4, <1>6 DEF CompleteTask, FailTask
<1>7. CASE WorkerDies(w)
  <2>1. Cardinality(overrun) \in Nat
    BY FS_Subset, FS_CardinalityType DEF TasksTypeOK
  <2>2. crashes' \in 0..MaxMishap /\ UNCHANGED <<task, result, item, user>>
    BY <1>0, <1>7, <2>1 DEF WorkerDies, Mishaps
  <2> QED BY <1>0, <2>2
<1> QED BY <1>1, <1>2, <1>3, <1>5, <1>6, <1>7 DEF Act, Execute

LEMMA TypeStep ==
    ASSUME TasksTypeOK, NEW w \in Worker, Act(w)
    PROVE  TasksTypeOK'
<1>1. \A v \in Worker :
         /\ run'[v].task = Nobody <=> run'[v].at = "idle"
         /\ run'[v].item # Nobody <=> run'[v].at \in {"mark", "drop", "erase"}
  BY RunStep DEF TasksTypeOK
<1> QED BY <1>1, RunStep, RowStep, NoLapse DEF TasksTypeOK, RunRecord

-----------------------------------------------------------------------------
(* What a worker's step leaves alone.                                      *)

\* The status of its own task, and the result of it.
LEMMA OwnRow ==
    ASSUME TaskInv, NEW w \in Worker, Act(w)
    PROVE  /\ \A t \in Task : t \notin {run[w].task, run'[w].task} => task'[t] = task[t]
           /\ \A t \in Task : t # run[w].task => result'[t] = result[t]
           /\ run'[w].task # Nobody =>
                  /\ run'[w].task \notin overrun =>
                         task'[run'[w].task].status = "running" /\ ~task'[run'[w].task].stale
                  /\ run'[w].task = run[w].task \/ ClaimNextTask(w)
<1>0. /\ run \in [Worker -> RunRecord] /\ result \in [Task -> [Item -> Outcome]]
      /\ task \in [Task -> [status : TaskStatus, born : Nat, stale : BOOLEAN]]
      /\ run[w].task # Nobody => run[w].task \in Task
      /\ run[w].task # Nobody /\ run[w].task \notin overrun =>
            task[run[w].task].status = "running" /\ ~task[run[w].task].stale
  BY DEF TaskInv, TasksTypeOK, RunRecord, HeldTasks, Held
<1>1. CASE ClaimNextTask(w)
  <2>1. PICK t \in Task : /\ task' = [task EXCEPT ![t] = Running(task[t])]
                          /\ run' = [run EXCEPT ![w] = [task |-> t, at |-> "next", item |-> Nobody,
                                                       lists |-> Resumed(t)]]
    BY <1>1 DEF ClaimNextTask, Candidates, Next_Pending, StaleTasks, InState
  <2>2. run'[w].task = t
    BY <1>0, <2>1
  <2>3. task'[t].status = "running" /\ ~task'[t].stale /\ \A u \in Task : u # t => task'[u] = task[u]
    BY <1>0, <2>1 DEF Running
  <2> QED BY <1>1, <2>2, <2>3 DEF ClaimNextTask
<1>2. CASE \/ \E i \in Item : CheckItem(w, i)
           \/ MarkDeleting(w) \/ DropItem(w) \/ EraseJob(w)
  <2>1. task' = task /\ result' = result
    BY <1>2 DEF CheckItem, MarkDeleting, DropItem, EraseJob
  <2>2. ~ClaimNextTask(w) => run'[w].task \in {run[w].task, Nobody}
    BY RunStep DEF TaskInv
  <2>3. CASE ClaimNextTask(w)
    BY <1>1, <2>3
  <2> QED BY <1>0, <2>1, <2>2, <2>3, <1>1
<1>3. CASE UpdateTaskResult(w) \/ DeleteUserJobs(w)
  <2>1. task' = task /\ \A t \in Task : t # run[w].task => result'[t] = result[t]
    BY <1>0, <1>3 DEF UpdateTaskResult, DeleteUserJobs
  <2>2. run'[w].task = run[w].task
    BY <1>0, <1>3, StepTo DEF UpdateTaskResult, DeleteUserJobs, Step, RunRecord
  <2> QED BY <1>0, <2>1, <2>2
<1>4. ASSUME NEW status \in {"complete", "failed"}, Ended(w, status)
      PROVE  /\ run'[w].task = Nobody
             /\ \A t \in Task : t # run[w].task => result'[t] = result[t] /\ task'[t] = task[t]
  BY <1>0, <1>4 DEF Ended, Idle
<1>5. CASE DeleteUser(w)
  <2>1. CASE Ended(w, "failed")
    BY <1>4, <2>1
  <2>2. CASE Step(w, "end") /\ UNCHANGED <<task, result>>
    BY <1>0, <2>2 DEF Step, RunRecord
  <2> QED BY <1>5, <2>1, <2>2 DEF DeleteUser
<1>6. CASE CompleteTask(w) \/ FailTask(w)
  BY <1>4, <1>6 DEF CompleteTask, FailTask
<1>7. CASE WorkerDies(w)
  <2>1. run'[w].task = Nobody
    BY <1>0, <1>7 DEF WorkerDies, Idle
  <2> QED BY <1>7, <2>1 DEF WorkerDies
<1> QED BY <1>1, <1>2, <1>3, <1>5, <1>6, <1>7 DEF Act, Execute

\* The only item it changes is the one it is at; what is deleted stays so.
LEMMA OwnItem ==
    ASSUME TaskInv, NEW w \in Worker, Act(w)
    PROVE  /\ \A i \in Item : i # run[w].item => item'[i] = item[i]
           /\ \A i \in Item : item[i] = "gone" => item'[i] = "gone"
           /\ \A i \in Item, t \in Task : i \in ItemsOf[t] /\ Deleted(t, i) => Deleted(t, i)'
<1>0. /\ run \in [Worker -> RunRecord] /\ item \in [Item -> ItemState]
      /\ HolderInv(w) /\ (run[w].at # "idle" => run[w].task \in Task)
      /\ (run[w].at \in {"mark", "drop", "erase"} =>
              run[w].item \in ItemsOf[run[w].task] /\ run[w].item \in Item)
  BY DEF TaskInv, TasksTypeOK, RunRecord, HolderInv, AtItem, Held
<1>1. CASE MarkDeleting(w)
  <2>1. run[w].task \notin overrun => item[run[w].item] = "live"
    BY <1>0, <1>1 DEF MarkDeleting, HolderInv, AtItem, Held, TaskInv, TasksTypeOK
  <2>2. /\ overrun' = overrun /\ run[w].task \in Bulk
        /\ item' = [item EXCEPT ![run[w].item] = IF @ = "gone" THEN @ ELSE "deleting"]
    BY <1>0, <1>1, NoLapse DEF MarkDeleting, HolderInv, AtItem, Held, TaskInv, TasksTypeOK
  <2>3. \A t \in Task : run[w].item \in ItemsOf[t] => t = run[w].task
    BY <1>0, <1>1 DEF MarkDeleting
  <2> QED BY <1>0, <1>1, <2>1, <2>2, <2>3 DEF MarkDeleting, Deleted
<1>2. CASE DropItem(w)
  BY <1>0, <1>2, NoLapse DEF DropItem, Deleted
<1>3. CASE EraseJob(w)
  <2>1. run[w].task \in Bulk
    BY <1>0, <1>3 DEF EraseJob, HolderInv, AtItem, Held, TaskInv, TasksTypeOK
  <2>2. \A t \in Task : run[w].item \in ItemsOf[t] => t = run[w].task
    BY <1>0, <1>3 DEF EraseJob
  <2> QED BY <1>0, <1>3, <2>1, <2>2, NoLapse DEF EraseJob, Deleted
<1>4. CASE item' = item
  BY <1>4, NoLapse DEF Deleted
<1> QED BY <1>1, <1>2, <1>3, <1>4 DEF Act, Execute, ClaimNextTask, CheckItem, UpdateTaskResult,
       DeleteUserJobs, DeleteUser, CompleteTask, FailTask, WorkerDies

-----------------------------------------------------------------------------
(* The steps of the table.                                                 *)

LEMMA TableType ==
    ASSUME TasksTypeOK, NEW t \in Task, CreateTask(t) \/ Lapse(t)
    PROVE  /\ TasksTypeOK' /\ UNCHANGED <<result, item, user, run, crashes>>
           /\ \A u \in Task \ {t} : task'[u] = task[u]
           /\ overrun' \in {overrun, overrun \cup {t}}
<1>0. /\ task \in [Task -> [status : TaskStatus, born : Nat, stale : BOOLEAN]]
      /\ task[t] \in [status : TaskStatus, born : Nat, stale : BOOLEAN]
  BY DEF TasksTypeOK
<1>1. /\ UNCHANGED <<result, item, user, run, crashes>>
      /\ overrun' \in {overrun, overrun \cup {t}}
  BY DEF CreateTask, Lapse
<1>2. PICK r \in [status : TaskStatus, born : Nat, stale : BOOLEAN] : task' = [task EXCEPT ![t] = r]
  <2>1. CASE CreateTask(t)
    <3>1. Cardinality(Task \ InState("none")) \in Nat
      BY FS_Subset, FS_CardinalityType
    <3>2. [status |-> "pending", stale |-> FALSE, born |-> Cardinality(Task \ InState("none"))]
             \in [status : TaskStatus, born : Nat, stale : BOOLEAN]
      BY <3>1 DEF TaskStatus
    <3> QED BY <2>1, <3>2 DEF CreateTask
  <2>2. CASE Lapse(t)
    <3>1. [task[t] EXCEPT !.stale = TRUE] \in [status : TaskStatus, born : Nat, stale : BOOLEAN]
      BY <1>0
    <3> QED BY <2>2, <3>1 DEF Lapse
  <2> QED BY <2>1, <2>2
<1> QED BY <1>0, <1>1, <1>2 DEF TasksTypeOK

\* A task that is created or grows stale has no holder, or its time ran out.
LEMMA TableStep ==
    ASSUME TaskInv, NEW t \in Task, CreateTask(t) \/ Lapse(t)
    PROVE  TaskInv'
<1>1. /\ TasksTypeOK' /\ UNCHANGED <<result, item, user, run, crashes>>
      /\ \A u \in Task \ {t} : task'[u] = task[u]
      /\ overrun' \in {overrun, overrun \cup {t}}
  BY TableType DEF TaskInv
<1>2. \A w \in Worker : Held(w) /\ run[w].task = t => t \in overrun'
  <2>1. ASSUME NEW w \in Worker, Held(w), run[w].task = t, t \notin overrun' PROVE FALSE
    <3>1. t \notin overrun
      BY <1>1, <2>1
    <3>2. task[t].status = "running"
      BY <2>1, <3>1 DEF TaskInv, HeldTasks
    <3>3. w \in Holders(t)
      BY <2>1 DEF Holders
    <3> QED BY <2>1, <3>2, <3>3 DEF CreateTask, Lapse
  <2> QED BY <2>1
<1>3. HeldTasks'
  <2>1. \A w \in Worker : Held(w) /\ run[w].task \notin overrun' =>
           /\ run[w].task \notin overrun
           /\ run[w].task \in Task /\ task'[run[w].task] = task[run[w].task]
    BY <1>1, <1>2 DEF TaskInv, TasksTypeOK, Held
  <2> QED BY <1>1, <2>1 DEF TaskInv, HeldTasks, Held
<1>4. \A u \in Task, i \in Item : Deleted(u, i) => Deleted(u, i)'
  BY <1>1 DEF Deleted
<1>5. ResultsTrue'
  <2>1. \A u \in Task : \A i \in ItemsOf[u] : i \in Item
    OBVIOUS
  <2> QED BY <1>1, <1>4, <2>1 DEF TaskInv, ResultsTrue
<1>6. ASSUME NEW w \in Worker PROVE HolderInv(w)'
  <2> SUFFICES ASSUME Held(w) PROVE HolderInv(w)'
    BY <1>1 DEF HolderInv, Held
  <2>1. AtItem(w) /\ ListsTrue(w) /\ ListsGrow(w) /\ ListsSaved(w)
    BY DEF TaskInv, HolderInv
  <2>2. run[w].task \in Task /\ \A i \in ItemsOf[run[w].task] : i \in Item
    <3>1. run[w].task \in Task
      BY DEF TaskInv, TasksTypeOK, Held
    <3> QED BY <3>1
  <2>3. AtItem(w)' /\ ListsGrow(w)' /\ ListsSaved(w)'
    BY <1>1, <2>1 DEF AtItem, ListsGrow, ListsSaved
  <2>4. ListsTrue(w)'
    BY <1>1, <1>4, <2>1, <2>2 DEF ListsTrue
  <2> QED BY <2>3, <2>4 DEF HolderInv
<1> QED BY <1>1, <1>3, <1>5, <1>6 DEF TaskInv

-----------------------------------------------------------------------------
(* The steps of a worker.                                                  *)

\* No other worker has the task it had or takes, unless its time ran out.
LEMMA OthersApart ==
    ASSUME TaskInv, NEW w \in Worker, Act(w), NEW v \in Worker \ {w}, Held(v),
           run[v].task \notin overrun
    PROVE  run[v].task \in Task /\ run[v].task \notin {run[w].task, run'[w].task}
<1>1. run[v].task \in Task /\ run[v].task # run[w].task /\ run[v].task # Nobody
  BY DEF TaskInv, TasksTypeOK, HeldTasks, Held
<1>2. CASE ClaimNextTask(w)
  <2>1. PICK t \in Candidates : run' = [run EXCEPT ![w] = [task |-> t, at |-> "next", item |-> Nobody,
                                                          lists |-> Resumed(t)]]
    BY <1>2 DEF ClaimNextTask
  <2>2. run'[w].task = t
    BY <2>1 DEF TaskInv, TasksTypeOK
  <2>3. task[t].status = "pending" \/ task[t].stale
    BY <2>1 DEF Candidates, Next_Pending, StaleTasks, InState
  <2> QED BY <1>1, <2>2, <2>3 DEF TaskInv, HeldTasks, Held
<1>3. CASE ~ClaimNextTask(w)
  <2>1. run'[w].task \in {run[w].task, Nobody}
    BY <1>3, RunStep DEF TaskInv
  <2> QED BY <1>1, <2>1
<1> QED BY <1>2, <1>3

LEMMA HeldStep ==
    ASSUME TaskInv, NEW w \in Worker, Act(w)
    PROVE  HeldTasks'
<1>1. overrun' = overrun /\ \A v \in Worker \ {w} : run'[v] = run[v]
  BY RunStep, NoLapse DEF TaskInv
<1>2. \A v \in Worker \ {w} : Held(v) /\ run[v].task \notin overrun =>
         /\ run[v].task \in Task /\ run[v].task # run[w].task /\ run[v].task # run'[w].task
         /\ task'[run[v].task] = task[run[v].task]
  BY OthersApart, OwnRow
<1>3. \A v \in Worker : Held(v)' /\ run'[v].task \notin overrun =>
         task'[run'[v].task].status = "running" /\ ~task'[run'[v].task].stale
  BY <1>1, <1>2, OwnRow DEF TaskInv, HeldTasks, Held
<1>4. \A u, v \in Worker : Held(v)' /\ run'[v].task \notin overrun /\ run'[u].task = run'[v].task => u = v
  BY <1>1, <1>2 DEF TaskInv, HeldTasks, Held
<1> QED BY <1>1, <1>3, <1>4 DEF HeldTasks, Held

\* What another worker knows stays true.
LEMMA OtherHolder ==
    ASSUME TaskInv, NEW w \in Worker, Act(w), NEW v \in Worker \ {w}
    PROVE  HolderInv(v)'
<1>1. run'[v] = run[v] /\ run[v] \in RunRecord /\ run[w] \in RunRecord
  BY RunStep DEF TaskInv, TasksTypeOK, RunRecord
<1> SUFFICES ASSUME Held(v) PROVE HolderInv(v)'
  BY <1>1 DEF HolderInv, Held
<1>2. /\ run[v].task \in Task /\ overrun' = overrun
      /\ run[v].task \notin overrun =>
            run[v].task # run[w].task /\ result'[run[v].task] = result[run[v].task]
  <2>1. run[v].task \in Task
    BY <1>1 DEF Held, RunRecord
  <2>2. run[v].task \notin overrun => run[v].task # run[w].task
    BY OthersApart
  <2>3. \A t \in Task : t # run[w].task => result'[t] = result[t]
    BY OwnRow
  <2> QED BY <2>1, <2>2, <2>3, NoLapse
<1>3. \A i \in ItemsOf[run[v].task] : i \in Item /\ (Deleted(run[v].task, i) => Deleted(run[v].task, i)')
  <2>1. \A i \in ItemsOf[run[v].task] : i \in Item
    BY <1>2
  <2> QED BY <1>1, <1>2, <2>1, OwnItem
<1>4. run[v].task \notin overrun => \A i \in ItemsOf[run[v].task] : item'[i] = item[i]
  <2>1. run[w].item # Nobody => run[w].item \in ItemsOf[run[w].task] /\ run[w].task \in Task
    BY <1>1 DEF TaskInv, TasksTypeOK, HolderInv, AtItem, Held, RunRecord
  <2>2. run[v].task # run[w].task => \A i \in ItemsOf[run[v].task] : i \in Item /\ i # run[w].item
    BY <1>2, <2>1
  <2> QED BY <1>2, <2>2, OwnItem
<1>5. AtItem(v) /\ ListsTrue(v) /\ ListsGrow(v) /\ ListsSaved(v)
  BY DEF TaskInv, HolderInv
<1>6. AtItem(v)'
  <2>1. run[v].at = "mark" => run[v].item \in ItemsOf[run[v].task]
    BY <1>5 DEF AtItem, TaskInv, TasksTypeOK
  <2> QED BY <1>1, <1>2, <1>4, <1>5, <2>1 DEF AtItem
<1>7. ListsTrue(v)'
  BY <1>1, <1>3, <1>5 DEF ListsTrue
<1>8. ListsGrow(v)' /\ ListsSaved(v)'
  BY <1>1, <1>2, <1>5 DEF ListsGrow, ListsSaved
<1> QED BY <1>6, <1>7, <1>8 DEF HolderInv

\* An item is decided: its outcome is true, and nothing was recorded of it.
LEMMA RecordHolder ==
    ASSUME TaskInv, NEW w \in Worker, Act(w), Held(w),
           NEW i \in ItemsOf[run[w].task], NEW outcome \in Outcome, NEW at \in {"save", "next"},
           Record(w, i, outcome, at), result' = result, run[w].lists[i] = "none",
           outcome = "processed" =>
               item'[i] = "gone" \/ (run[w].task \in Bulk /\ item'[i] = "deleted")
    PROVE  HolderInv(w)'
<1>0. /\ run \in [Worker -> RunRecord] /\ run[w].task \in Task /\ i \in Item
      /\ run[w].lists \in [Item -> Outcome]
  BY DEF TaskInv, TasksTypeOK, RunRecord, Held
<1>1. /\ run'[w].task = run[w].task /\ run'[w].at = at /\ run'[w].item = Nobody
      /\ run'[w].lists = [run[w].lists EXCEPT ![i] = outcome]
  BY <1>0 DEF Record
<1>2. run'[w].lists[i] = outcome /\ \A j \in Item \ {i} : run'[w].lists[j] = run[w].lists[j]
  BY <1>0, <1>1
<1>3. ListsTrue(w) /\ ListsGrow(w)
  BY DEF TaskInv, HolderInv
<1>4. AtItem(w)' /\ ListsSaved(w)'
  BY <1>1 DEF AtItem, ListsSaved
<1>5. ListsTrue(w)'
  <2>1. \A j \in ItemsOf[run[w].task] : j \in Item /\ (Deleted(run[w].task, j) => Deleted(run[w].task, j)')
    <3>1. \A j \in ItemsOf[run[w].task] : j \in Item
      BY <1>0
    <3> QED BY <1>0, <1>1, <3>1, OwnItem DEF Deleted
  <2> QED BY <1>1, <1>2, <1>3, <2>1 DEF ListsTrue, Deleted
<1>6. ListsGrow(w)'
  BY <1>0, <1>1, <1>2, <1>3, NoLapse DEF ListsGrow
<1> QED BY <1>4, <1>5, <1>6 DEF HolderInv

\* What the worker itself knows is true after each of its steps.
LEMMA OwnHolder ==
    ASSUME TaskInv, NEW w \in Worker, Act(w)
    PROVE  HolderInv(w)'
<1>0. /\ run \in [Worker -> RunRecord] /\ item \in [Item -> ItemState]
      /\ result \in [Task -> [Item -> Outcome]]
      /\ run[w].task = Nobody <=> run[w].at = "idle"
      /\ run[w].item # Nobody <=> run[w].at \in {"mark", "drop", "erase"}
  BY DEF TaskInv, TasksTypeOK, RunRecord
<1>1. Held(w) => AtItem(w) /\ ListsTrue(w) /\ ListsGrow(w) /\ ListsSaved(w)
  BY DEF TaskInv, HolderInv
<1>2. /\ Held(w) => run[w].task \in Task /\ run[w].lists \in [Item -> Outcome]
      /\ overrun' = overrun
  BY <1>0, NoLapse DEF RunRecord, Held
<1>3. CASE ClaimNextTask(w)
  <2>1. PICK t \in Task : run' = [run EXCEPT ![w] = [task |-> t, at |-> "next", item |-> Nobody,
                                                     lists |-> Resumed(t)]]
    BY <1>3 DEF ClaimNextTask, Candidates, Next_Pending, StaleTasks, InState
  <2>2. run'[w].task = t /\ run'[w].at = "next" /\ run'[w].item = Nobody /\ run'[w].lists = Resumed(t)
    BY <1>0, <2>1
  <2>3. item' = item /\ result' = result
    BY <1>3 DEF ClaimNextTask
  <2>4. \A i \in ItemsOf[t] : i \in Item /\ (result[t][i] = "processed" => Deleted(t, i))
    BY DEF TaskInv, ResultsTrue
  <2>5. AtItem(w)' /\ ListsSaved(w)'
    BY <2>2 DEF AtItem, ListsSaved
  <2>6. ListsTrue(w)' /\ ListsGrow(w)'
    BY <1>2, <2>2, <2>3, <2>4 DEF ListsTrue, ListsGrow, Resumed, NoOutcome, Deleted
  <2> QED BY <2>5, <2>6 DEF HolderInv
<1>4. ASSUME NEW i \in Item, CheckItem(w, i)
      PROVE  HolderInv(w)'
  <2>1. /\ Held(w) /\ run[w].at = "next" /\ i \in ItemsOf[run[w].task] /\ run[w].lists[i] = "none"
        /\ item' = item /\ result' = result
    BY <1>0, <1>4 DEF CheckItem, Unhandled, Held
  <2>2. CASE \E outcome \in {"failed", "skipped"}, at \in {"save", "next"} :
                 Record(w, i, outcome, at)
    BY <2>1, <2>2, RecordHolder DEF Outcome
  <2>3. CASE \E at \in {"mark", "drop", "erase"} :
                 /\ Take(w, i, at)
                 /\ at = "mark" => item[i] = "live"
                 /\ at \in {"mark", "erase"} => run[w].task \in Bulk
    <3>1. PICK at \in {"mark", "drop", "erase"} :
                 /\ Take(w, i, at)
                 /\ at = "mark" => item[i] = "live"
                 /\ at \in {"mark", "erase"} => run[w].task \in Bulk
      BY <2>3
    <3>2. /\ run'[w].task = run[w].task /\ run'[w].at = at
          /\ run'[w].item = i /\ run'[w].lists = run[w].lists
      BY <1>0, <3>1 DEF Take
    <3>3. AtItem(w)'
      BY <2>1, <3>1, <3>2 DEF AtItem
    <3>4. ListsTrue(w)' /\ ListsGrow(w)' /\ ListsSaved(w)'
      BY <1>1, <1>2, <2>1, <3>2 DEF ListsTrue, ListsGrow, ListsSaved, Deleted
    <3> QED BY <3>3, <3>4 DEF HolderInv
  <2> QED BY <1>4, <2>2, <2>3 DEF CheckItem
<1>5. CASE MarkDeleting(w)
  <2>1. /\ Held(w) /\ run[w].at = "mark" /\ result' = result
        /\ run'[w].task = run[w].task /\ run'[w].at = "drop"
        /\ run'[w].item = run[w].item /\ run'[w].lists = run[w].lists
    BY <1>0, <1>5 DEF MarkDeleting, Step, Held, RunRecord
  <2>2. AtItem(w)'
    BY <1>1, <2>1 DEF AtItem
  <2>3. ListsTrue(w)'
    <3>1. \A i \in ItemsOf[run[w].task] : i \in Item /\ (Deleted(run[w].task, i) => Deleted(run[w].task, i)')
      BY <1>2, <2>1, OwnItem
    <3> QED BY <1>1, <2>1, <3>1 DEF ListsTrue
  <2>4. ListsGrow(w)' /\ ListsSaved(w)'
    BY <1>1, <1>2, <2>1 DEF ListsGrow, ListsSaved
  <2> QED BY <2>2, <2>3, <2>4 DEF HolderInv
<1>6. CASE DropItem(w) \/ EraseJob(w)
  <2>1. /\ Held(w) /\ run[w].item # Nobody /\ result' = result
        /\ run[w].item \in ItemsOf[run[w].task] /\ run[w].lists[run[w].item] = "none"
        /\ run[w].item \in Item /\ (run[w].at = "erase" => run[w].task \in Bulk)
    BY <1>0, <1>1, <1>2, <1>6 DEF DropItem, EraseJob, AtItem, Held
  <2>2. CASE /\ DropItem(w) /\ item' = item /\ run[w].task \in Bulk /\ Step(w, "erase")
    <3>1. /\ run'[w].task = run[w].task /\ run'[w].at = "erase"
          /\ run'[w].item = run[w].item /\ run'[w].lists = run[w].lists
      BY <1>0, <2>2 DEF Step, RunRecord
    <3>2. AtItem(w)' /\ ListsTrue(w)' /\ ListsGrow(w)' /\ ListsSaved(w)'
      BY <1>1, <1>2, <2>1, <2>2, <3>1 DEF AtItem, ListsTrue, ListsGrow, ListsSaved, Deleted
    <3> QED BY <3>2 DEF HolderInv
  <2>3. CASE (DropItem(w) \/ EraseJob(w)) /\ Record(w, run[w].item, "failed", "save")
    BY <2>1, <2>3, RecordHolder DEF Outcome
  <2>4. CASE /\ DropItem(w) /\ Record(w, run[w].item, "processed", "save")
             /\ item' = [item EXCEPT ![run[w].item] = "gone"]
    BY <1>0, <2>1, <2>4, RecordHolder DEF Outcome
  <2>5. CASE EraseJob(w) /\ Record(w, run[w].item, "processed", "save")
             /\ item' = [item EXCEPT ![run[w].item] = IF run[w].task \in Hard \/ @ = "gone" THEN "gone"
                                                                                       ELSE "deleted"]
    <3>1. /\ run[w].task \in Bulk /\ item'[run[w].item] \in {"gone", "deleted"}
          /\ Record(w, run[w].item, "processed", "save")
      BY <1>0, <2>1, <2>5 DEF EraseJob
    <3> QED BY <2>1, <3>1, RecordHolder DEF Outcome
  <2> QED BY <1>6, <2>2, <2>3, <2>4, <2>5 DEF DropItem, EraseJob
<1>7. CASE UpdateTaskResult(w) \/ DeleteUserJobs(w)
  <2>1. /\ Held(w) /\ item' = item /\ result'[run[w].task] = run[w].lists
        /\ run'[w].task = run[w].task /\ run'[w].item = run[w].item /\ run'[w].lists = run[w].lists
        /\ run[w].at \in {"save", "next"}
        /\ \/ run'[w].at = "next"
           \/ run'[w].at = "user" /\ run[w].task \in Forced /\ Unhandled(w) = {}
    BY <1>0, <1>2, <1>7 DEF UpdateTaskResult, DeleteUserJobs, AllHandled, Step, Held, RunRecord
  <2>2. AtItem(w)' /\ ListsTrue(w)' /\ ListsGrow(w)'
    BY <1>0, <1>1, <1>2, <2>1 DEF AtItem, ListsTrue, ListsGrow, Deleted
  <2>3. ListsSaved(w)'
    BY <1>1, <2>1 DEF ListsSaved, Unhandled
  <2> QED BY <2>2, <2>3 DEF HolderInv
<1>8. CASE DeleteUser(w) /\ Step(w, "end") /\ result' = result
  <2>1. /\ Held(w) /\ item' = item /\ run[w].at = "user"
        /\ run'[w].task = run[w].task /\ run'[w].at = "end"
        /\ run'[w].item = run[w].item /\ run'[w].lists = run[w].lists
    BY <1>0, <1>8 DEF DeleteUser, Step, Held, RunRecord
  <2>2. AtItem(w)' /\ ListsTrue(w)' /\ ListsGrow(w)' /\ ListsSaved(w)'
    BY <1>0, <1>1, <1>2, <1>8, <2>1 DEF AtItem, ListsTrue, ListsGrow, ListsSaved, Deleted
  <2> QED BY <2>2 DEF HolderInv
<1>9. CASE run' = [run EXCEPT ![w] = Idle]
  BY <1>0, <1>9 DEF HolderInv, Held, Idle
<1> QED BY <1>3, <1>4, <1>5, <1>6, <1>7, <1>8, <1>9 DEF Act, Execute, DeleteUser, CompleteTask,
       FailTask, WorkerDies, Ended

-----------------------------------------------------------------------------
(* The theorems.                                                           *)

\* A result is written with what the holder of the task has.
LEMMA ResultWritten ==
    ASSUME TaskInv, NEW w \in Worker, Act(w)
    PROVE  \/ result' = result
           \/ Held(w) /\ run[w].task \in Task /\ result' = [result EXCEPT ![run[w].task] = run[w].lists]
<1>1. run[w].at # "idle" => Held(w) /\ run[w].task \in Task
  BY DEF TaskInv, TasksTypeOK, Held
<1>2. Held(w) => run[w].at # "idle"
  BY DEF TaskInv, TasksTypeOK, Held
<1>3. CASE Execute(w)
  BY <1>1, <1>2, <1>3 DEF Execute, CheckItem, MarkDeleting, DropItem, EraseJob, UpdateTaskResult,
     DeleteUserJobs, AllHandled, DeleteUser, CompleteTask, Ended, Held
<1>4. CASE FailTask(w)
  BY <1>1, <1>4 DEF FailTask, AllHandled, Ended
<1> QED BY <1>3, <1>4 DEF Act, ClaimNextTask, WorkerDies

LEMMA ResultsStep ==
    ASSUME TaskInv, NEW w \in Worker, Act(w)
    PROVE  ResultsTrue'
<1>1. \A t \in Task : \A i \in ItemsOf[t] : Deleted(t, i) => Deleted(t, i)'
  <2>1. \A t \in Task : \A i \in ItemsOf[t] : i \in Item
    OBVIOUS
  <2> QED BY <2>1, OwnItem DEF Deleted
<1>2. \A t \in Task : \A i \in ItemsOf[t] : result'[t][i] = "processed" => Deleted(t, i)
  <2>1. CASE result' = result
    BY <2>1 DEF TaskInv, ResultsTrue
  <2>2. CASE Held(w) /\ run[w].task \in Task /\ result' = [result EXCEPT ![run[w].task] = run[w].lists]
    <3>1. \A i \in ItemsOf[run[w].task] : run[w].lists[i] = "processed" => Deleted(run[w].task, i)
      BY <2>2 DEF TaskInv, HolderInv, ListsTrue
    <3> QED BY <2>2, <3>1 DEF TaskInv, TasksTypeOK, ResultsTrue
  <2> QED BY <2>1, <2>2, ResultWritten
<1> QED BY <1>1, <1>2 DEF ResultsTrue, Deleted

LEMMA WorkerStep ==
    ASSUME TaskInv, NEW w \in Worker, Act(w)
    PROVE  TaskInv'
<1>1. TasksTypeOK'
  BY TypeStep DEF TaskInv
<1>2. \A v \in Worker : HolderInv(v)'
  BY OwnHolder, OtherHolder
<1> QED BY <1>1, <1>2, HeldStep, ResultsStep DEF TaskInv

LEMMA InvAlways == TasksSpec => []TaskInv
<1>1. TasksInit => TaskInv
  BY InitTaskInv
<1>2. TaskInv /\ [TasksNext]_taskVars => TaskInv'
  <2> SUFFICES ASSUME TaskInv, [TasksNext]_taskVars PROVE TaskInv'
    OBVIOUS
  <2>1. ASSUME NEW t \in Task, CreateTask(t) \/ Lapse(t) PROVE TaskInv'
    BY <2>1, TableStep
  <2>2. ASSUME NEW w \in Worker, Act(w) PROVE TaskInv'
    BY <2>2, WorkerStep
  <2>3. CASE UNCHANGED taskVars
    <3>1. TasksTypeOK' /\ HeldTasks' /\ ResultsTrue'
      BY <2>3 DEF taskVars, TaskInv, TasksTypeOK, HeldTasks, Held, ResultsTrue, Deleted
    <3>2. \A w \in Worker : HolderInv(w)'
      BY <2>3 DEF taskVars, TaskInv, HolderInv, Held, AtItem, ListsTrue, ListsGrow, ListsSaved, Deleted
    <3> QED BY <3>1, <3>2 DEF TaskInv
  <2> QED BY <2>1, <2>2, <2>3 DEF TasksNext, Act
<1> QED BY <1>1, <1>2, PTL DEF TasksSpec

\* The variables keep their types.
THEOREM TasksTypeCorrect == TasksSpec => []TasksTypeOK
<1>1. TaskInv => TasksTypeOK
  BY DEF TaskInv
<1> QED BY <1>1, InvAlways, PTL

\* A claim takes a task from a live worker only after the task's time ran out.
THEOREM HeldOnce == TasksSpec => []OneHolder
<1>1. TaskInv => OneHolder
  <2> SUFFICES ASSUME TaskInv, NEW t \in Task \ overrun PROVE Cardinality(Holders(t)) <= 1
    BY DEF OneHolder
  <2>1. t # Nobody
    OBVIOUS
  <2>2. \A v, w \in Holders(t) : v = w
    BY <2>1 DEF TaskInv, HeldTasks, Held, Holders
  <2>3. CASE Holders(t) = {}
    BY <2>3, FS_EmptySet
  <2>4. CASE Holders(t) # {}
    <3>1. PICK w \in Holders(t) : Holders(t) = {w}
      BY <2>2, <2>4
    <3>2. Cardinality(Holders(t)) = 1
      BY <3>1, FS_Singleton
    <3> QED BY <3>2
  <2> QED BY <2>3, <2>4
<1> QED BY <1>1, InvAlways, PTL

\* What the table reports as processed is deleted, whoever died on the way and
\* however many workers were at the task.
THEOREM ReportedIsTrue == TasksSpec => []ProcessedIsDeleted
<1>1. TaskInv => ProcessedIsDeleted
  BY DEF TaskInv, ResultsTrue, ProcessedIsDeleted, Deleted
<1> QED BY <1>1, InvAlways, PTL

\* The user's record goes when every database is gone or in the report.
THEOREM UserIsLast == TasksSpec => UserGoneLast
<1> DEFINE Last == \A t \in user \ user' : \E w \in Holders(t) : run[w].at = "user" /\
                      \A i \in ItemsOf[t] : item[i] = "gone" \/ run[w].lists[i] \in {"failed", "skipped"}
<1>1. TaskInv /\ [TasksNext]_taskVars => [Last]_taskVars
  <2> SUFFICES ASSUME TaskInv, [TasksNext]_taskVars, NEW t \in user \ user'
               PROVE  \E w \in Holders(t) : run[w].at = "user" /\
                         \A i \in ItemsOf[t] : item[i] = "gone" \/ run[w].lists[i] \in {"failed", "skipped"}
    OBVIOUS
  <2>1. PICK w \in Worker : DeleteUser(w) /\ run[w].task = t
    BY DEF TasksNext, CreateTask, Lapse, ClaimNextTask, Execute, CheckItem, MarkDeleting, DropItem,
       EraseJob, UpdateTaskResult, DeleteUserJobs, DeleteUser, CompleteTask, FailTask, WorkerDies, taskVars
  <2>2. t \in Task /\ t \in Forced /\ t \notin Bulk
    BY DEF TaskInv, TasksTypeOK
  <2>3. Held(w) /\ run[w].at = "user" /\ w \in Holders(t)
    BY <2>1, <2>2 DEF DeleteUser, Held, Holders
  <2>4. ASSUME NEW i \in ItemsOf[t]
        PROVE  item[i] = "gone" \/ run[w].lists[i] \in {"failed", "skipped"}
    <3>1. i \in Item /\ run[w].lists[i] \in Outcome
      BY <2>2 DEF TaskInv, TasksTypeOK
    <3>2. /\ run[w].lists[i] # "none"
          /\ run[w].lists[i] = "processed" => Deleted(t, i)
      BY <2>1, <2>3 DEF TaskInv, HolderInv, ListsTrue, ListsSaved
    <3> QED BY <2>2, <3>1, <3>2 DEF Deleted, Outcome
  <2> QED BY <2>3, <2>4
<1> QED BY <1>1, InvAlways, PTL DEF TasksSpec, UserGoneLast

\* A run that goes on after a death adds to what was recorded before.
THEOREM RecordedIsFinal == TasksSpec => OutcomeKept
<1> DEFINE Kept == \A t \in Bulk \ overrun : \A i \in Item :
                      result[t][i] # "none" => result'[t][i] = result[t][i]
<1>1. TaskInv /\ [TasksNext]_taskVars => [Kept]_taskVars
  <2> SUFFICES ASSUME TaskInv, [TasksNext]_taskVars,
                      NEW t \in Bulk \ overrun, NEW i \in Item, result[t][i] # "none"
               PROVE  result'[t][i] = result[t][i]
    OBVIOUS
  <2>1. CASE result' = result
    BY <2>1
  <2>2. ASSUME NEW w \in Worker, Act(w) PROVE result'[t][i] = result[t][i]
    <3>1. CASE Held(w) /\ run[w].task \in Task /\ result' = [result EXCEPT ![run[w].task] = run[w].lists]
      <4>1. run[w].task = t => run[w].lists[i] = result[t][i]
        BY <3>1 DEF TaskInv, HolderInv, ListsGrow
      <4> QED BY <3>1, <4>1 DEF TaskInv, TasksTypeOK
    <3> QED BY <2>1, <2>2, <3>1, ResultWritten
  <2> QED BY <2>1, <2>2 DEF TasksNext, Act, CreateTask, Lapse, taskVars
<1> QED BY <1>1, InvAlways, PTL DEF TasksSpec, OutcomeKept
=============================================================================
