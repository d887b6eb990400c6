------------------------------ MODULE Overlord ------------------------------
(***************************************************************************)
(* The overlord integration for one database name: the claim of a deployed *)
(* job on the row that routes the name (overlord.companies, on a server    *)
(* that others write to as well), kept in pullDB's table                   *)
(* overlord_tracking.  The two are on different servers, so a request is a *)
(* series of transactions, and requests overlap.                           *)
(*                                                                         *)
(* One row stands for the rows of the name, which share their routing; the *)
(* row's value is the host it routes to.  An operator with _Faulty in its  *)
(* name is the one after it with a plausible mistake, which no             *)
(* specification uses.                                                     *)
(***************************************************************************)
EXTENDS Naturals

CONSTANTS
    Deployer,    \* the jobs that deploy the name, one after the other
    Request,     \* threads of the API and the web
    Host, DbHost,\* hosts, and the host each job writes
    Unset,       \* no host, no job
    Absent,      \* there is no row
    Blank,       \* the routing was cleared
    MaxOutside   \* bound: writes by others

ASSUME OverlordAssumption ==
    /\ DbHost \in [Deployer -> Host] /\ MaxOutside \in Nat
    /\ Unset \notin Deployer \cup Host

VARIABLES
    row,         \* overlord.companies
    own,         \* whether the row was inserted by pullDB
    tracking,    \* overlord_tracking
    deployed,    \* the jobs of the name that are deployed
    req,         \* each request: where it is, and what it has read
    outside      \* how often others have written

overlordVars == <<row, own, tracking, deployed, req, outside>>

Routing == Host \cup {Absent, Blank}
Status == {"none", "claimed", "synced", "released"}
Action == {"restore", "clear", "delete"}
ReqPhase == {"idle", "snapshot", "create", "exists", "write", "mark", "release", "verify",
             "apply", "check", "erase", "released", "list", "purge"}
TrackingRow == [status : Status, job : Deployer \cup {Unset}, existed : BOOLEAN,
                previous : Routing, current : Host \cup {Unset}]
NoTracking == [status |-> "none", job |-> Unset, existed |-> FALSE,
               previous |-> Absent, current |-> Unset]
Quiet == [at |-> "idle", job |-> Unset, action |-> "restore", saw |-> Absent, seen |-> NoTracking]

\* Every variable keeps its type; a claim that is active has its job, and one
\* that is synced its host.
OverlordTypeOK ==
    /\ row \in Routing /\ own \in BOOLEAN /\ tracking \in TrackingRow /\ deployed \subseteq Deployer
    /\ req \in [Request -> [at : ReqPhase, job : Deployer \cup {Unset}, action : Action,
                            saw : Routing, seen : TrackingRow]]
    /\ outside \in 0..MaxOutside
    /\ tracking.status \in {"claimed", "synced"} <=> tracking.job # Unset
    /\ tracking.status = "synced" => tracking.current # Unset

OverlordInit ==
    /\ row = Absent /\ own = FALSE /\ tracking = NoTracking /\ deployed = {}
    /\ req = [q \in Request |-> Quiet]
    /\ outside = 0

IsActive(t) == t.status \in {"claimed", "synced"}
Enter(q, at) == req' = [req EXCEPT ![q].at = at]
\* What was read is of no use any more.
Move(q, at) == req' = [req EXCEPT ![q] = [Quiet EXCEPT !.at = at, !.job = req[q].job]]
Return(q) == req' = [req EXCEPT ![q] = Quiet]

(***************************************************************************)
(* claim.                                                                  *)
(***************************************************************************)

\* An active claim of the job itself is returned as it is; one of another
\* job, like a job that is not deployed, ends the request.
ClaimRead(q) ==
    /\ req[q].at = "idle" /\ ~IsActive(tracking)
    /\ \E j \in deployed : req' = [req EXCEPT ![q].at = "snapshot", ![q].job = j]
    /\ UNCHANGED <<row, own, tracking, deployed, outside>>

ClaimSnapshot(q) ==
    /\ req[q].at = "snapshot"
    /\ req' = [req EXCEPT ![q].at = "create", ![q].saw = row]
    /\ UNCHANGED <<row, own, tracking, deployed, outside>>

MayClaim_Faulty(j) == TRUE
\* SELECT ... FOR UPDATE, and the check again under the lock.
MayClaim(j) == ~IsActive(tracking) \/ tracking.job = j

\* A claim over a released row keeps its current_dbhost.
ClaimCreate(q) ==
    LET j == req[q].job
    IN  /\ req[q].at = "create"
        /\ IF MayClaim(j)
           THEN tracking' = [tracking EXCEPT !.status = "claimed", !.job = j,
                                             !.existed = req[q].saw # Absent, !.previous = req[q].saw]
           ELSE UNCHANGED tracking
        /\ Return(q)
        /\ UNCHANGED <<row, own, deployed, outside>>

(***************************************************************************)
(* sync, add_company and remove_company.                                   *)
(***************************************************************************)

SyncRead(q) ==
    /\ req[q].at = "idle" /\ IsActive(tracking)
    /\ req' = [req EXCEPT ![q].at = "exists", ![q].job = tracking.job]
    /\ UNCHANGED <<row, own, tracking, deployed, outside>>

SyncExists(q) ==
    /\ req[q].at = "exists"
    /\ req' = [req EXCEPT ![q].at = "write", ![q].saw = row]
    /\ UNCHANGED <<row, own, tracking, deployed, outside>>

\* UPDATE of what is there no more changes nothing; an INSERT beside a row
\* of somebody else leaves one of the two to be read.
SyncWrite(q) ==
    LET host == DbHost[req[q].job]
    IN  /\ req[q].at = "write"
        /\ IF req[q].saw # Absent
           THEN row' = (IF row = Absent THEN row ELSE host) /\ UNCHANGED own
           ELSE \/ row' = host /\ own' = TRUE
                \/ row # Absent /\ UNCHANGED <<row, own>>
        /\ Move(q, "mark")
        /\ UNCHANGED <<tracking, deployed, outside>>

\* update_synced looks at the name and the status.
SyncMark(q) ==
    /\ req[q].at = "mark"
    /\ tracking' = IF IsActive(tracking)
                   THEN [tracking EXCEPT !.status = "synced", !.current = DbHost[req[q].job]]
                   ELSE tracking
    /\ Return(q)
    /\ UNCHANGED <<row, own, deployed, outside>>

AddCompany(q) ==
    /\ req[q].at = "exists"
    /\ row' = DbHost[req[q].job] /\ own' = (own \/ row = Absent)
    /\ Return(q)
    /\ UNCHANGED <<tracking, deployed, outside>>

RemoveCompany(q) ==
    /\ req[q].at = "exists"
    /\ row' = Absent /\ own' = FALSE
    /\ Return(q)
    /\ UNCHANGED <<tracking, deployed, outside>>

(***************************************************************************)
(* release, and cleanup_on_job_delete before it.                           *)
(***************************************************************************)

\* A request of the API or the web names the action.
ReleaseRead(q) ==
    /\ req[q].at = "idle" /\ IsActive(tracking)
    /\ \E a \in Action :
          req' = [req EXCEPT ![q].at = "verify", ![q].job = tracking.job,
                             ![q].action = a, ![q].seen = tracking]
    /\ UNCHANGED <<row, own, tracking, deployed, outside>>

\* get_by_job_id: the action follows from row_existed_before.
CleanupOnJobDelete(q) ==
    /\ req[q].at = "idle" /\ IsActive(tracking)
    /\ req' = [req EXCEPT ![q].at = "release", ![q].job = tracking.job,
                          ![q].action = IF tracking.existed THEN "restore" ELSE "delete"]
    /\ UNCHANGED <<row, own, tracking, deployed, outside>>

ReleaseAgain(q) ==
    /\ req[q].at = "release"
    /\ IF IsActive(tracking) /\ tracking.job = req[q].job
       THEN req' = [req EXCEPT ![q].at = "verify", ![q].seen = tracking]
       ELSE Return(q)
    /\ UNCHANGED <<row, own, tracking, deployed, outside>>

\* verify_external_state: other changes than a removal are only logged.
VerifyExternalState(q) ==
    /\ req[q].at = "verify"
    /\ IF row = Absent THEN Move(q, "released")
       ELSE Enter(q, IF req[q].action = "delete" THEN "check" ELSE "apply")
    /\ UNCHANGED <<row, own, tracking, deployed, outside>>

\* _release_restore, _release_clear: whether it could be done or not, the
\* claim is released next.
ReleaseApply(q) ==
    LET t == req[q].seen
    IN  /\ req[q].at = "apply"
        /\ row' = CASE row = Absent -> row
                    [] row # Absent /\ req[q].action = "clear" -> Blank
                    [] row # Absent /\ req[q].action # "clear" ->
                          IF t.existed THEN t.previous ELSE row
        /\ Move(q, "released")
        /\ UNCHANGED <<own, tracking, deployed, outside>>

\* The guards of _release_delete raise OverlordSafetyError: the claim stays.
ReleaseCheck(q) ==
    LET t == req[q].seen
        Safe == IF t.current = Unset THEN ~t.existed ELSE row \in {Absent, t.current}
    IN  /\ req[q].at = "check"
        /\ IF Safe THEN Move(q, "erase") ELSE Return(q)
        /\ UNCHANGED <<row, own, tracking, deployed, outside>>

ReleaseDelete(q) ==
    /\ req[q].at = "erase"
    /\ row' = Absent /\ own' = FALSE
    /\ Move(q, "released")
    /\ UNCHANGED <<tracking, deployed, outside>>

\* Of a released row only current_dbhost is ever read.
Released(t) == [NoTracking EXCEPT !.status = "released", !.current = t.current]

\* update_released with the job_id that was read.
Releasable(q) == IsActive(tracking) /\ tracking.job = req[q].job

UpdateReleased(q) ==
    /\ req[q].at = "released"
    /\ tracking' = IF Releasable(q) THEN Released(tracking) ELSE tracking
    /\ Return(q)
    /\ UNCHANGED <<row, own, deployed, outside>>

(***************************************************************************)
(* cleanup_orphaned_tracking, the jobs, and the others.                    *)
(***************************************************************************)

OrphanScan(q) ==
    /\ req[q].at = "idle" /\ row = Absent
    /\ Enter(q, "list")
    /\ UNCHANGED <<row, own, tracking, deployed, outside>>

OrphanList(q) ==
    /\ req[q].at = "list"
    /\ Enter(q, IF IsActive(tracking) THEN "purge" ELSE "idle")
    /\ UNCHANGED <<row, own, tracking, deployed, outside>>

OrphanDelete(q) ==
    /\ req[q].at = "purge"
    /\ tracking' = NoTracking
    /\ Return(q)
    /\ UNCHANGED <<row, own, deployed, outside>>

\* A job is deployed and supersedes the one before it, or a job is deleted.
Redeploy ==
    /\ \E j \in Deployer : deployed' = {j} /\ j \notin deployed
    /\ UNCHANGED <<row, own, tracking, req, outside>>

Undeploy ==
    /\ deployed # {} /\ deployed' = {}
    /\ UNCHANGED <<row, own, tracking, req, outside>>

OutsideWrite ==
    /\ outside < MaxOutside /\ outside' = outside + 1
    /\ row' \in (Host \cup {Absent}) \ {row}
    /\ own' = (own /\ row' # Absent)
    /\ UNCHANGED <<tracking, deployed, req>>

Handle(q) ==
    \/ ClaimRead(q) \/ ClaimSnapshot(q) \/ ClaimCreate(q)
    \/ SyncRead(q) \/ SyncExists(q) \/ SyncWrite(q) \/ SyncMark(q)
    \/ AddCompany(q) \/ RemoveCompany(q)
    \/ ReleaseRead(q) \/ CleanupOnJobDelete(q) \/ ReleaseAgain(q) \/ VerifyExternalState(q)
    \/ ReleaseApply(q) \/ ReleaseCheck(q) \/ ReleaseDelete(q) \/ UpdateReleased(q)
    \/ OrphanScan(q) \/ OrphanList(q) \/ OrphanDelete(q)

OverlordNext == Redeploy \/ Undeploy \/ OutsideWrite \/ \E q \in Request : Handle(q)
OverlordSpec == OverlordInit /\ [][OverlordNext]_overlordVars

-----------------------------------------------------------------------------
(* Properties.                                                             *)

\* An active claim is never taken over by another job's, though both
\* requests found the name free: the claim is checked again under the row
\* lock.  It has to be released, or removed as an orphan, first.
ClaimKept ==
    [][IsActive(tracking) /\ IsActive(tracking') => tracking'.job = tracking.job]_overlordVars

\* "Only call this for rows pullDB created" (OverlordRepository.delete).
DeletesOwnRow == [][\A q \in Request : ReleaseDelete(q) /\ row # Absent => own]_overlordVars
=============================================================================
