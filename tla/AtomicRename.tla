---------------------------- MODULE AtomicRename ----------------------------
(***************************************************************************)
(* The cut-over of a restore: the worker's atomic_rename_staging_to_target *)
(* and the stored procedure pulldb_atomic_rename that it calls on the      *)
(* target host.  A step is one SQL statement, which MySQL runs atomically; *)
(* the procedure is not a transaction, and other restores of the same      *)
(* target, a statement that fails and the death of the worker may come     *)
(* between any two of its statements.                                      *)
(*                                                                         *)
(* An operator with _Faulty in its name is the one after it with a         *)
(* plausible mistake, which no specification uses.                         *)
(***************************************************************************)
EXTENDS Naturals, FiniteSets

CONSTANTS
    Job,        \* restores, each with one staging database
    Target,     \* target databases
    Table,      \* table names
    Marker,     \* the pullDB metadata table that marks a database as pullDB's
    Old,        \* stands for whatever a target held before
    TargetOf,   \* the target of each job
    Backup,     \* the tables each job restores, its marker included
    Before      \* the tables each target held before

ASSUME RenameTypes ==
    /\ TargetOf \in [Job -> Target] /\ Backup \in [Job -> SUBSET Table]
    /\ Before \in [Target -> SUBSET Table]
ASSUME NamesAssumption ==
    /\ Marker \in Table /\ IsFiniteSet(Table) /\ Old \notin Job /\ Job \cap Target = {}
    /\ \A j \in Job : Marker \in Backup[j]

Nobody == Old   \* no job: the advisory lock is free

VARIABLES
    schemas,   \* the databases that exist: a job stands for its staging database
    staged,    \* the tables of each staging database
    held,      \* the tables of each target, each with the job it was restored by
    procedure, \* the stored procedure on the host: "current" says its version
    deployer,  \* the holder of the deployment lock
    pc,        \* where each restore is
    alive,     \* the restores whose worker lives
    expected,  \* the number of tables pre-validation counted
    listed     \* the tables in the RENAME statement

renameVars == <<schemas, staged, held, procedure, deployer, pc, alive, expected, listed>>

schemaVars == <<schemas, staged, held>>

\* The statements of the stored procedure; the worker only waits for them.
InProcedure == {"count", "check", "drop", "list", "create", "rename",
                "verify", "emptied", "unstage"}

Ended == {"done", "failed", "gone"}

CutOverPhase == {"before", "load", "start", "version", "lock", "recheck", "deploy", "find",
                 "post"} \cup InProcedure \cup Ended

RenameInit ==
    /\ schemas = {t \in Target : Before[t] # {}}
    /\ staged = [j \in Job |-> {}]
    /\ held = [t \in Target |-> {Old} \X Before[t]]
    /\ procedure \in {"none", "stale", "current"}
    /\ deployer = Nobody
    /\ pc = [j \in Job |-> "before"]
    /\ alive = Job
    /\ expected = [j \in Job |-> 0]
    /\ listed = [j \in Job |-> {}]

-----------------------------------------------------------------------------
(* Control *)

\* A statement that meets ok goes on to the next; one that does not fails.  A
\* procedure whose worker has died ends with nobody to tell.
Proceed(j, from, ok, to) ==
    /\ pc[j] = from
    /\ pc' = [pc EXCEPT ![j] = IF ok THEN to
                               ELSE IF j \in alive THEN "failed" ELSE "gone"]

HasMarker(t) == \E o \in Job \cup {Old} : <<o, Marker>> \in held[t]

Staged(j) == j \in schemas /\ staged[j] # {}

\* A restore is between its start and its end; a worker is at it, or a
\* procedure that has outlived its worker.
UnderWay(j) == pc[j] \notin {"before"} \cup Ended

-----------------------------------------------------------------------------
(* Before the cut-over *)

\* myloader and post-SQL hold connections to the staging database; a session
\* that renames its tables does not.
Connected(j) == j \in alive /\ pc[j] = "load"

\* The staging databases of the target that cleanup_orphaned_staging drops.
Orphans(j) ==
    {k \in Job \ {j} : TargetOf[k] = TargetOf[j] /\ Marker \in staged[k] /\ ~Connected(k)}

\* Drop the orphans, then create the staging database with its marker.  The
\* queue lets the restores of one target take turns, but not across a zombie
\* sweep, nor with a procedure that outlives its worker: they may overlap.
PrepareStaging(j) ==
    /\ Proceed(j, "before", TRUE, "load")
    /\ schemas' = (schemas \ Orphans(j)) \cup {j}
    /\ staged' = [k \in Job |-> IF k = j THEN {Marker}
                                ELSE IF k \in Orphans(j) THEN {} ELSE staged[k]]
    /\ UNCHANGED <<held, procedure, deployer, alive, expected, listed>>

LoadStaging(j) ==
    /\ Proceed(j, "load", TRUE, "start")
    /\ staged' = [staged EXCEPT ![j] = Backup[j]]
    /\ UNCHANGED <<schemas, held, procedure, deployer, alive, expected, listed>>

PreValidate(j) ==
    /\ Proceed(j, "start", Staged(j), "version")
    /\ expected' = [expected EXCEPT ![j] = Cardinality(staged[j])]
    /\ UNCHANGED <<schemaVars, procedure, deployer, alive, listed>>

-----------------------------------------------------------------------------
(* ensure_atomic_rename_procedure *)

\* A server that does not keep the version's comment never shows it.
SeenCurrent == procedure = "current"

CheckVersion(j) ==
    /\ Proceed(j, "version", TRUE, IF SeenCurrent THEN "find" ELSE "lock")
    /\ UNCHANGED <<schemaVars, procedure, deployer, alive, expected, listed>>

\* GET_LOCK waits 30 seconds and then gives up.
TakeDeployLock(j) ==
    /\ Proceed(j, "lock", deployer = Nobody, "recheck")
    /\ deployer' = IF deployer = Nobody THEN j ELSE deployer
    /\ UNCHANGED <<schemaVars, procedure, alive, expected, listed>>

RecheckVersion(j) ==
    /\ Proceed(j, "recheck", TRUE, IF SeenCurrent THEN "find" ELSE "deploy")
    /\ deployer' = IF SeenCurrent THEN Nobody ELSE deployer
    /\ UNCHANGED <<schemaVars, procedure, alive, expected, listed>>

\* The chunk with DROP PROCEDURE begins with a comment and is skipped, and
\* CREATE PROCEDURE fails: the connection has no default schema, or the old
\* procedure is still there.  The errors are only logged; what is verified is
\* that some procedure exists.
DeployProcedure(j) ==
    /\ Proceed(j, "deploy", procedure # "none", "find")
    /\ deployer' = Nobody
    /\ UNCHANGED <<schemaVars, procedure, alive, expected, listed>>

CallProcedure(j) ==
    /\ Proceed(j, "find", procedure # "none", "count")
    /\ UNCHANGED <<schemaVars, procedure, deployer, alive, expected, listed>>

-----------------------------------------------------------------------------
(* pulldb_atomic_rename *)

CountStaging(j) ==
    /\ Proceed(j, "count", Staged(j), "check")
    /\ UNCHANGED <<schemaVars, procedure, deployer, alive, expected, listed>>

MayDrop_FaultyNoMarker(t) == TRUE

MayDrop(t) == HasMarker(t)

\* An existing target must be pullDB's own.
CheckTarget(j) ==
    LET t == TargetOf[j]
    IN  /\ Proceed(j, "check", t \in schemas => MayDrop(t),
                   IF t \in schemas THEN "drop" ELSE "list")
        /\ UNCHANGED <<schemaVars, procedure, deployer, alive, expected, listed>>

DropTarget(j) ==
    LET t == TargetOf[j]
    IN  /\ Proceed(j, "drop", t \in schemas, "list")
        /\ schemas' = schemas \ {t}
        /\ held' = [held EXCEPT ![t] = {}]
        /\ UNCHANGED <<staged, procedure, deployer, alive, expected, listed>>

ToRename_FaultyOneByOne(j) == {CHOOSE x \in staged[j] : TRUE}

ToRename(j) == staged[j]

ListTables(j) ==
    /\ Proceed(j, "list", Staged(j), "create")
    /\ listed' = [listed EXCEPT ![j] = IF Staged(j) THEN ToRename(j) ELSE {}]
    /\ UNCHANGED <<schemaVars, procedure, deployer, alive, expected>>

CreateTarget(j) ==
    LET t == TargetOf[j]
    IN  /\ Proceed(j, "create", t \notin schemas, "rename")
        /\ schemas' = schemas \cup {t}
        /\ UNCHANGED <<staged, held, procedure, deployer, alive, expected, listed>>

\* RENAME TABLE needs every table it names, the target database, and no table
\* of the same name there; otherwise it renames nothing.
CanRename(j) ==
    LET t == TargetOf[j]
    IN  /\ j \in schemas /\ listed[j] \subseteq staged[j]
        /\ t \in schemas
        /\ \A x \in listed[j], o \in Job \cup {Old} : <<o, x>> \notin held[t]

RenameTables(j) ==
    LET t == TargetOf[j]
    IN  /\ Proceed(j, "rename", CanRename(j), "verify")
        /\ IF CanRename(j)
           THEN /\ held' = [held EXCEPT ![t] = held[t] \cup ({j} \X listed[j])]
                /\ staged' = [staged EXCEPT ![j] = staged[j] \ listed[j]]
           ELSE UNCHANGED <<held, staged>>
        /\ UNCHANGED <<schemas, procedure, deployer, alive, expected, listed>>

VerifyTarget(j) ==
    /\ Proceed(j, "verify", held[TargetOf[j]] # {}, "emptied")
    /\ UNCHANGED <<schemaVars, procedure, deployer, alive, expected, listed>>

VerifyStaging(j) ==
    /\ Proceed(j, "emptied", staged[j] = {}, "unstage")
    /\ UNCHANGED <<schemaVars, procedure, deployer, alive, expected, listed>>

DropStaging(j) ==
    /\ Proceed(j, "unstage", j \in schemas, IF j \in alive THEN "post" ELSE "gone")
    /\ schemas' = schemas \ {j}
    /\ staged' = [staged EXCEPT ![j] = {}]
    /\ UNCHANGED <<held, procedure, deployer, alive, expected, listed>>

-----------------------------------------------------------------------------
(* After the procedure, and failures *)

Counted_FaultyNever(j) == TRUE

Counted(j) == Cardinality(held[TargetOf[j]]) = expected[j]

PostValidate(j) ==
    /\ Proceed(j, "post", j \notin schemas /\ TargetOf[j] \in schemas /\ Counted(j), "done")
    /\ UNCHANGED <<schemaVars, procedure, deployer, alive, expected, listed>>

\* A statement that MySQL refuses changes no database.
SqlError(j) ==
    /\ UnderWay(j)
    /\ Proceed(j, pc[j], FALSE, "failed")
    /\ deployer' = IF deployer = j THEN Nobody ELSE deployer
    /\ UNCHANGED <<schemaVars, procedure, alive, expected, listed>>

\* The worker dies; a procedure it called may go on without it.
WorkerDies(j) ==
    /\ j \in alive /\ UnderWay(j)
    /\ alive' = alive \ {j}
    /\ deployer' = IF deployer = j THEN Nobody ELSE deployer
    /\ \/ pc' = [pc EXCEPT ![j] = "gone"]
       \/ pc[j] \in InProcedure /\ UNCHANGED pc
    /\ UNCHANGED <<schemaVars, procedure, expected, listed>>

CutOver(j) ==
    \/ PrepareStaging(j) \/ LoadStaging(j) \/ PreValidate(j)
    \/ CheckVersion(j) \/ TakeDeployLock(j) \/ RecheckVersion(j) \/ DeployProcedure(j)
    \/ CallProcedure(j)
    \/ CountStaging(j) \/ CheckTarget(j) \/ DropTarget(j) \/ ListTables(j)
    \/ CreateTarget(j) \/ RenameTables(j) \/ VerifyTarget(j) \/ VerifyStaging(j)
    \/ DropStaging(j) \/ PostValidate(j)

RenameNext == \E j \in Job : CutOver(j) \/ SqlError(j) \/ WorkerDies(j)

RenameSpec == RenameInit /\ [][RenameNext]_renameVars

-----------------------------------------------------------------------------
(* Properties *)

\* Every variable keeps its type; only databases that exist hold tables; the
\* deployment lock is held by the restore that is deploying.
RenameTypeOK ==
    /\ schemas \subseteq Job \cup Target
    /\ staged \in [Job -> SUBSET Table]
    /\ held \in [Target -> SUBSET ((Job \cup {Old}) \X Table)]
    /\ procedure \in {"none", "stale", "current"}
    /\ deployer \in Job \cup {Nobody}
    /\ pc \in [Job -> CutOverPhase]
    /\ alive \subseteq Job
    /\ expected \in [Job -> 0 .. Cardinality(Table)]
    /\ listed \in [Job -> SUBSET Table]
    /\ \A j \in Job : staged[j] # {} => j \in schemas
    /\ \A t \in Target : held[t] # {} => t \in schemas
    /\ \A j \in Job : deployer = j <=> pc[j] \in {"recheck", "deploy"}

\* However restores of one target interleave, fail and die, a target never
\* mixes the tables of two restores and never holds part of one: the RENAME is
\* one statement, and two restores collide on the marker table.
TargetWhole ==
    \A t \in Target :
        \/ held[t] = {}
        \/ held[t] = {Old} \X Before[t]
        \/ \E j \in Job : TargetOf[j] = t /\ held[t] = {j} \X Backup[j]

Live(j) == held[TargetOf[j]] = {j} \X Backup[j]

Kept(j) == staged[j] = Backup[j] \/ Live(j)

\* Another restore of j's target is under way.
Replacing(j) == \E k \in Job \ {j} : TargetOf[k] = TargetOf[j] /\ UnderWay(k)

\* What a restore has loaded stays whole, in its staging database or in its
\* target, across every failure and the death of its worker and in what a
\* surviving procedure does, unless another restore of the target is under
\* way: a failure leaves it there for inspection.
KeepsRestores == \A j \in Job : Kept(j) => Kept(j)' \/ Replacing(j)'
RestoreKept == [][KeepsRestores]_renameVars

\* However restores of a target overlap and procedures outlive their workers,
\* a restore reports success over a whole restore only: its own, or that of a
\* rival which has replaced it, never what the target held before, a part, or
\* nothing.
SuccessIsLive ==
    [][\A j \in Job : pc[j] # "done" /\ pc'[j] = "done" =>
          \E k \in Job : TargetOf[k] = TargetOf[j] /\ Live(k)']_renameVars

\* A database without the marker is never dropped, nor are tables added to it:
\* the procedure says "refusing to overwrite".
ExternalKept ==
    [][\A t \in Target :
          held[t] # {} /\ ~HasMarker(t) => held'[t] = held[t] /\ t \in schemas']_renameVars

\* What the docstring promises, of the whole run: each target is replaced in
\* one step.
Replace == INSTANCE AtomicReplace WITH content <- held

ReplacesAtomically == Replace!ReplaceSpec
=============================================================================
