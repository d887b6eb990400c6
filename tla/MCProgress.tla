---------------------------- MODULE MCProgress ----------------------------
(***************************************************************************)
(* The load of a staging database and the admin tasks, the two components  *)
(* of which TLC checks that what they wait for happens.  part, which never *)
(* changes, says what acts, and what does not has ended before it began,   *)
(* so that the fairness of both modules can be taken as it stands:         *)
(*   pool     the pool, the monitor and the restore's thread, after the    *)
(*            output has said of every table that its data is complete;    *)
(*   strikes  myloader with its output and the monitor, from the start;    *)
(*            its behaviours are not fair and count for safety only;       *)
(*   tasks    the admin tasks.                                             *)
(***************************************************************************)
EXTENDS EarlyAnalyze, AdminTasks

CONSTANTS b, f, i1, i2, i3

VARIABLE part

vars == <<part, loadVars, taskVars>>

\* A bulk deletion of two jobs, and the deletion of a user with one database.
Tasks == {b, f}
OwnType == [t \in Tasks |-> t]
SameType == [t \in Tasks |-> b]
Lists == [t \in Tasks |-> IF t = b THEN {i1, i2} ELSE {i3}]

\* The restore's thread has gone on, and the others have ended.
Restored ==
    /\ load = {}
    /\ tracker = [t \in Table |-> Untracked]
    /\ poll = [at |-> "idle", seen |-> {}, emit |-> {}]
    /\ queue = <<>> /\ queued = {} /\ busy = {} /\ active = 0 /\ taken = {}
    /\ stats = [queued |-> 0, done |-> 0]
    /\ thread = [w \in Thread |-> [at |-> "ended", table |-> Nothing]]
    /\ control = [loading |-> 0, complete |-> TRUE, monitorStop |-> TRUE,
                  stopping |-> TRUE, allDone |-> TRUE]
    /\ main = "restored" /\ missed = [t \in Table |-> 0]

\* Both lines of the output have come for every table, and no poll yet.
DataComplete ==
    [t \in Table |-> [seen |-> TRUE, strikes |-> 0, data |-> TRUE,
                     index |-> FALSE, complete |-> FALSE]]
PoolInit == LoadInitWith(DataComplete)

\* No task is created in the other parts.
Init ==
    /\ TasksInit
    /\ \/ part = "pool" /\ PoolInit
       \/ part = "strikes" /\ LoadInit
       \/ part = "tasks" /\ Restored

Next ==
    /\ UNCHANGED part
    /\ \/ part = "pool" /\ LoadNext /\ UNCHANGED taskVars
       \/ part = "strikes" /\ (MyloaderStep \/ MonitorStep) /\ UNCHANGED taskVars
       \/ part = "tasks" /\ TasksNext /\ UNCHANGED loadVars

FairSpec == Init /\ [][Next]_vars /\ LoadFairness /\ TasksFairness
=============================================================================
