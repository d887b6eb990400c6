------------------------------ MODULE JobsTable ------------------------------
(***************************************************************************)
(* The jobs table of the service database and the SQL statements that      *)
(* pulldb/infra/mysql_jobs.py runs on it.  The module has no variables: a   *)
(* table is a value T, and every repository method is an operator from a   *)
(* table to the table its UPDATE leaves.  An UPDATE whose WHERE clause      *)
(* matches no row leaves the table as it was.                              *)
(*                                                                         *)
(* A job's identifier is its place in submission order, so that            *)
(* "ORDER BY submitted_at" is the order of the naturals.  All rows belong  *)
(* to one owner.                                                           *)
(*                                                                         *)
(* An operator with _Faulty in its name is the one after it with a         *)
(* plausible mistake.  No specification uses these; they show that the     *)
(* properties would notice.                                                *)
(***************************************************************************)
EXTENDS Naturals, FiniteSets

CONSTANTS
    MaxJob,      \* bound: how many jobs are ever submitted
    Name,        \* target database names
    Host,        \* rows of db_hosts
    Worker,      \* worker processes (values of worker_id)
    MaxRunning,  \* db_hosts.max_running_jobs, per host
    Nobody       \* SQL NULL in worker_id and locked_by

ASSUME MaxJobAssumption == MaxJob \in Nat
ASSUME MaxRunningAssumption == MaxRunning \in [Host -> Nat]
ASSUME NobodyAssumption == Nobody \notin Worker
ASSUME PlaceAssumption == Name # {} /\ Host # {}

Job == 1 .. MaxJob

Place == Name \X Host    \* a target database: the pair (target, dbhost)

-----------------------------------------------------------------------------
(* Rows *)

Status == {"absent", "queued", "running", "canceling", "deployed",
           "failed", "canceled", "superseded"}

\* The statuses under the unique index idx_jobs_active_target.
Active == {"queued", "running", "canceling"}

Row == [status     : Status,
        place      : Place,
        cancelReq  : BOOLEAN,             \* cancel_requested_at IS NOT NULL
        canCancel  : BOOLEAN,             \* can_cancel
        lockedBy   : Worker \cup {Nobody},  \* locked_by, with locked_at
        worker     : Worker \cup {Nobody},  \* worker_id
        superseded : BOOLEAN]             \* superseded_at, with db_dropped_at

NewRow(s, p) == [status |-> s, place |-> p, cancelReq |-> FALSE,
                 canCancel |-> TRUE, lockedBy |-> Nobody, worker |-> Nobody,
                 superseded |-> FALSE]

EmptyTable == [j \in Job |-> NewRow("absent", CHOOSE p \in Place : TRUE)]

HostOf(T, j) == T[j].place[2]

-----------------------------------------------------------------------------
(* Queries *)

InStatus(T, S) == {j \in Job : T[j].status \in S}

At(T, p) == {j \in Job : T[j].status # "absent" /\ T[j].place = p}

RunningOn(T, h) == {j \in InStatus(T, {"running"}) : HostOf(T, j) = h}

HasActive_FaultyQueuedOnly(T, p) == InStatus(T, {"queued"}) \cap At(T, p) # {}

HasActive(T, p) == InStatus(T, Active) \cap At(T, p) # {}

Deployed(T, p) == {j \in InStatus(T, {"deployed"}) \cap At(T, p) : ~T[j].superseded}

\* ORDER BY submitted_at DESC LIMIT 1
Newest(S) == {j \in S : \A k \in S : k <= j}

LockedAt(T, p) == {j \in At(T, p) : T[j].lockedBy # Nobody /\ ~T[j].superseded}

IsCancellationRequested(T, j) == T[j].cancelReq \/ T[j].status = "canceling"

ShouldAbort(T, j) == T[j].cancelReq \/ T[j].status \notin {"running", "canceling"}

\* Only the newest job of a target name is a candidate for stale recovery:
\* the query compares target and owner_user_code, and not dbhost.
NewestForName(T, j) ==
    \A k \in Job : k > j /\ T[k].status # "absent" => T[k].place[1] # T[j].place[1]

-----------------------------------------------------------------------------
(* Updates *)

InsertQueued(T, j, p) == [T EXCEPT ![j] = NewRow("queued", p)]

Claimed(T, j, w) == [T EXCEPT ![j] = [@ EXCEPT !.status = "running", !.worker = w]]

MarkDeployed_FaultyAnyStatus(T, j) ==
    [T EXCEPT ![j] = [@ EXCEPT !.status = "deployed", !.lockedBy = Nobody]]

MarkDeployed(T, j) ==
    IF T[j].status = "running"
    THEN [T EXCEPT ![j] = [@ EXCEPT !.status = "deployed", !.lockedBy = Nobody]]
    ELSE T

MarkFailed(T, j) ==
    [T EXCEPT ![j] = [@ EXCEPT !.status = "failed", !.cancelReq = FALSE,
                             !.canCancel = TRUE, !.lockedBy = Nobody]]

MarkCanceled(T, j) == [T EXCEPT ![j] = [@ EXCEPT !.status = "canceled"]]

MarkCanceling(T, j) ==
    IF T[j].status = "running"
    THEN [T EXCEPT ![j] = [@ EXCEPT !.status = "canceling", !.cancelReq = TRUE]]
    ELSE T

CanRequestCancel_FaultyNoGate(T, j) ==
    T[j].status \in {"queued", "running"} /\ ~T[j].cancelReq

CanRequestCancel(T, j) ==
    /\ T[j].status \in {"queued", "running"}
    /\ T[j].canCancel
    /\ ~T[j].cancelReq

RequestCancellation(T, j) ==
    IF CanRequestCancel(T, j) THEN [T EXCEPT ![j] = [@ EXCEPT !.cancelReq = TRUE]] ELSE T

CanLockForRestore_FaultyNoCancelCheck(T, j) == T[j].canCancel

CanLockForRestore(T, j) == T[j].canCancel /\ ~T[j].cancelReq

LockForRestore(T, j, w) ==
    IF CanLockForRestore(T, j)
    THEN [T EXCEPT ![j] = [@ EXCEPT !.canCancel = FALSE, !.lockedBy = w]]
    ELSE T

MarkStaleFailed_FaultyRequeue(T, j, w) ==
    IF T[j].status = "running" THEN [T EXCEPT ![j] = [@ EXCEPT !.status = "queued"]] ELSE T

MarkStaleFailed(T, j, w) ==
    IF T[j].status = "running"
    THEN [T EXCEPT ![j] = [@ EXCEPT !.status = "failed", !.worker = w]]
    ELSE T

\* supersede_job, for every job of S.
Supersede(T, S) ==
    [j \in Job |-> IF j \in S
                   THEN [T[j] EXCEPT !.status = "superseded", !.superseded = TRUE]
                   ELSE T[j]]
=============================================================================
