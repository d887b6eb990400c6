---------------------------- MODULE MCComponents ----------------------------
(***************************************************************************)
(* The components whose safety is checked on instances of a moderate size, *)
(* in one run.  They share no state here: part, which never changes, says  *)
(* which of them acts, and the others stay as they are at first.           *)
(***************************************************************************)
EXTENDS AtomicRename, SecretRotation, Overlord, Submission, TLC

CONSTANTS
    j1, j2, j3, j4,         \* restores: two of t1, one each of t2 and t3
    t1, t2, t3,
    x1, x2, x3,             \* tables
    k1, k2, h1,             \* jobs that deploy one name on one host
    d1, u1                  \* a target database and a user

VARIABLE part

vars == <<part, renameVars, rotVars, overlordVars, submitVars>>

\* t1 holds an earlier restore, t2 nothing, t3 a database pullDB did not create.
Targets == [j \in Job |-> CASE j \in {j1, j2} -> t1 [] j = j3 -> t2 [] j = j4 -> t3]
TwoTables == [j \in Job |-> {Marker, IF j \in {j1, j3} THEN x1 ELSE x2}]
Contents == [t \in Target |-> CASE t = t1 -> {Marker, x3} [] t = t2 -> {} [] t = t3 -> {x3}]
OneHost == [j \in Deployer |-> h1]
AnyConsent == BOOLEAN \X BOOLEAN

Renames == {"rivals", "first"}
Submissions == {"transfer", "limits"}
Part == Renames \cup {"rotation", "tracking"} \cup Submissions

\* All users submit for one database, which may be there, until something
\* disturbs it; or one user submits for several databases, none of which is
\* there, and the restores fail.
Scope(target, user) ==
    CASE part = "transfer" -> target \in {d1, None}
      [] part = "limits"   -> user \in {u1, None}
      [] OTHER             -> TRUE
InScope(subs) ==
    \A s \in Thread : /\ Scope(subs[s].target, subs[s].user)
                      /\ part = "limits" => ~subs[s].overwrite /\ ~subs[s].ack

Init ==
    /\ part \in Part
    /\ RenameInit /\ (part \notin Renames => procedure = "none")
    /\ RotInit
    /\ OverlordInit
    /\ SubmitInit
    /\ \A t \in Database : db[t] # None => part = "transfer" /\ t = d1

Restore(j) == CutOver(j) \/ SqlError(j) \/ WorkerDies(j)

Next ==
    /\ UNCHANGED part
    /\ \/ part = "rivals" /\ \E j \in {j1, j2} : Restore(j)
       \/ part = "first" /\ \E j \in {j3, j4} : Restore(j)
       \/ part \notin Renames /\ UNCHANGED renameVars
    /\ IF part = "rotation" THEN RotNext ELSE UNCHANGED rotVars
    /\ IF part = "tracking" THEN OverlordNext ELSE UNCHANGED overlordVars
    /\ \/ /\ part \in Submissions /\ SubmitNext /\ InScope(sub')
          /\ IF part = "transfer" THEN disturbed = {} ELSE db' = db
       \/ part \notin Submissions /\ UNCHANGED submitVars

Spec == Init /\ [][Next]_vars

\* Threads and rows are interchangeable.
Symmetry == Permutations(Thread) \cup Permutations(Row)

-----------------------------------------------------------------------------
\* A target that held nothing, with one restore, is replaced in one step.
First == INSTANCE AtomicReplace WITH
    content <- IF part = "first" THEN held ELSE [t \in Target |-> {Old} \X Before[t]]

ReplacesAtomicallyAtFirst == First!ReplaceSpec
=============================================================================
