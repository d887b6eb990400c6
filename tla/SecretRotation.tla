--------------------------- MODULE SecretRotation ---------------------------
(***************************************************************************)
(* rotate_host_secret: change the password of a host's loader account in   *)
(* MySQL and then in AWS Secrets Manager, verify both, and undo or report  *)
(* what fails.  Nothing keeps two administrators (REST API, web page,      *)
(* command line) from rotating one host at a time.  A step is one call to  *)
(* MySQL or AWS, which may fail before or after it has taken effect.       *)
(*                                                                         *)
(* A password is Initial or the name of the rotation that generated it.    *)
(* An operator with _Faulty in its name is the one after it with a         *)
(* plausible mistake, which no specification uses.                         *)
(***************************************************************************)
EXTENDS Naturals

CONSTANTS
    Rotation,    \* the calls of rotate_host_secret for the host
    Initial,     \* the password before the first of them
    MaxFaults    \* bound: failing calls and dying processes

ASSUME RotationNames == Initial \notin Rotation
ASSUME FaultBound == MaxFaults \in Nat

Password == Rotation \cup {Initial}

VARIABLES
    actual,      \* the password MySQL accepts
    stored,      \* the password in the secret
    rot,         \* the local state of each rotation
    outcome,     \* the phase and the kind of the RotationResult
    faults

rotVars == <<actual, stored, rot, outcome, faults>>

\* "set" changes the password; "undo" logs in with the new password and
\* restores the old one; "again" does the same with the old password.
Call == {"set", "undo", "again"}
RotPhase == {"idle", "validate", "connect", "alter", "flush", "verify", "put",
             "fetch", "test", "done"}
Reported == {"invalid", "mysql_update", "rolled_back", "verify_new_password",
             "aws_update", "final_verify", "died"}
ManualFix == {"verify_new_password", "aws_update", "died"}

\* Every variable keeps its type; a rotation has a result when it has returned.
RotTypeOK ==
    /\ actual \in Password /\ stored \in Password
    /\ rot \in [Rotation -> [at : RotPhase, call : Call, old : Password]]
    /\ outcome \in [Rotation -> Reported \cup {"none", "success"}]
    /\ faults \in 0..MaxFaults
    /\ \A r \in Rotation : rot[r].at = "done" <=> outcome[r] # "none"

RotInit ==
    /\ actual = Initial /\ stored = Initial
    /\ rot = [r \in Rotation |-> [at |-> "idle", call |-> "set", old |-> Initial]]
    /\ outcome = [r \in Rotation |-> "none"]
    /\ faults = 0

Step(r, at) == rot' = [rot EXCEPT ![r].at = at] /\ UNCHANGED outcome
Ends(r, o) == rot' = [rot EXCEPT ![r].at = "done"] /\ outcome' = [outcome EXCEPT ![r] = o]
Fault == faults < MaxFaults /\ faults' = faults + 1

\* Phase 1: fetch the current credentials.
Begin(r) ==
    /\ rot[r].at = "idle"
    /\ \/ /\ rot' = [rot EXCEPT ![r].at = "validate", ![r].old = stored]
          /\ UNCHANGED <<outcome, faults>>
       \/ Fault /\ Ends(r, "invalid")
    /\ UNCHANGED <<actual, stored>>

\* Phases 2 and 3.
Validate(r) ==
    /\ rot[r].at = "validate"
    /\ \/ rot[r].old = actual /\ Step(r, "connect") /\ UNCHANGED faults
       \/ rot[r].old # actual /\ Ends(r, "invalid") /\ UNCHANGED faults
       \/ Fault /\ Ends(r, "invalid")
    /\ UNCHANGED <<actual, stored>>

Login(r) == IF rot[r].call = "undo" THEN r ELSE rot[r].old
NewPassword_Faulty(r) == IF rot[r].call = "again" THEN rot[r].old ELSE r
NewPassword(r) == IF rot[r].call = "set" THEN r ELSE rot[r].old

\* What a failure of _alter_mysql_password leads to.
AlterFails(r) ==
    \/ rot[r].call = "set" /\ Ends(r, "mysql_update")
    \/ /\ rot[r].call = "undo"
       /\ rot' = [rot EXCEPT ![r].at = "connect", ![r].call = "again"] /\ UNCHANGED outcome
    \/ rot[r].call = "again" /\ Ends(r, "verify_new_password")

\* Phase 4, and the rollback of phase 5: connect, ALTER USER, FLUSH
\* PRIVILEGES.  A session outlives the change of its password.
Connect(r) ==
    /\ rot[r].at = "connect"
    /\ \/ Login(r) = actual /\ Step(r, "alter") /\ UNCHANGED faults
       \/ Login(r) # actual /\ AlterFails(r) /\ UNCHANGED faults
       \/ Fault /\ AlterFails(r)
    /\ UNCHANGED <<actual, stored>>

Alter(r) ==
    /\ rot[r].at = "alter"
    /\ \/ actual' = NewPassword(r) /\ Step(r, "flush") /\ UNCHANGED faults
       \/ Fault /\ AlterFails(r) /\ actual' \in {actual, NewPassword(r)}
    /\ UNCHANGED stored

Flush(r) ==
    /\ rot[r].at = "flush"
    /\ \/ /\ IF rot[r].call = "set" THEN Step(r, "verify") ELSE Ends(r, "rolled_back")
          /\ UNCHANGED faults
       \/ Fault /\ AlterFails(r)
    /\ UNCHANGED <<actual, stored>>

\* Phase 5.
Verify(r) ==
    LET Undo == rot' = [rot EXCEPT ![r].at = "connect", ![r].call = "undo"] /\ UNCHANGED outcome
    IN  /\ rot[r].at = "verify"
        /\ \/ actual = r /\ Step(r, "put") /\ UNCHANGED faults
           \/ actual # r /\ Undo /\ UNCHANGED faults
           \/ Fault /\ Undo
        /\ UNCHANGED <<actual, stored>>

\* Phase 6: safe_upsert_single_secret with update_only.
Put(r) ==
    /\ rot[r].at = "put"
    /\ \/ stored' = r /\ Step(r, "fetch") /\ UNCHANGED faults
       \/ Fault /\ Ends(r, "aws_update") /\ stored' \in {stored, r}
    /\ UNCHANGED actual

\* Phase 7: what AWS has is what was set, and MySQL accepts it.
Fetch_Faulty(r) ==
    /\ rot[r].at = "fetch"
    /\ \/ Ends(r, IF stored = r THEN "success" ELSE "final_verify") /\ UNCHANGED faults
       \/ Fault /\ Ends(r, "final_verify")
    /\ UNCHANGED <<actual, stored>>

Fetch(r) ==
    /\ rot[r].at = "fetch"
    /\ \/ stored = r /\ Step(r, "test") /\ UNCHANGED faults
       \/ stored # r /\ Ends(r, "final_verify") /\ UNCHANGED faults
       \/ Fault /\ Ends(r, "final_verify")
    /\ UNCHANGED <<actual, stored>>

Test(r) ==
    /\ rot[r].at = "test"
    /\ \/ Ends(r, IF actual = r THEN "success" ELSE "final_verify") /\ UNCHANGED faults
       \/ Fault /\ Ends(r, "final_verify")
    /\ UNCHANGED <<actual, stored>>

\* The process dies: the administrator has no result at all.
Dies(r) ==
    /\ rot[r].at \notin {"idle", "done"}
    /\ Fault /\ Ends(r, "died")
    /\ UNCHANGED <<actual, stored>>

RotStep(r) ==
    \/ Begin(r) \/ Validate(r) \/ Connect(r) \/ Alter(r) \/ Flush(r) \/ Verify(r)
    \/ Put(r) \/ Fetch(r) \/ Test(r) \/ Dies(r)

RotNext == \E r \in Rotation : RotStep(r)
RotSpec == RotInit /\ [][RotNext]_rotVars

-----------------------------------------------------------------------------
(* Properties.                                                             *)

AtRest == \A r \in Rotation : rot[r].at \in {"idle", "done"}

\* When every rotation has returned and MySQL refuses the password that AWS
\* has, a rotation has reported a failure, however the rotations overlapped:
\* rotations that all succeed leave the two in step, because each verifies
\* the secret and the login once more after its own writes.
DriftIsReported ==
    AtRest /\ stored # actual => \E r \in Rotation : outcome[r] \in Reported

Alone(r) == \A s \in Rotation \ {r} : rot[s].at = "idle"

\* A rotation that runs alone and reports a rollback, a success or a failure
\* after which nothing is to be fixed by hand leaves MySQL with the password
\* that AWS has, whatever failed on the way.  (mysql_update is apart, see
\* NotChanged.)
QuietEndInStep ==
    \A r \in Rotation :
        Alone(r) /\ outcome[r] \notin ManualFix \cup {"none", "mysql_update"} => stored = actual

\* "MySQL password was NOT changed", "No manual intervention needed": what
\* phase mysql_update reports.  ALTER USER takes effect before FLUSH
\* PRIVILEGES fails, or before its own answer is lost.
NotChanged ==
    \A r \in Rotation : Alone(r) /\ outcome[r] = "mysql_update" => actual = rot[r].old
=============================================================================
