------------------------- MODULE AtomicRename_proofs -------------------------
(***************************************************************************)
(* For any number of restores and targets, whether restores of one target  *)
(* overlap or take turns, and whatever fails or dies between two           *)
(* statements: a target never holds a mixture, and a database without the  *)
(* marker is left alone.                                                   *)
(*                                                                         *)
(* TargetWhole is not inductive.  What it rests on is that a restore lists *)
(* its whole backup (or finds its staging database gone), that the marker  *)
(* is in every backup, so that two restores collide, and that no restore   *)
(* of an external database comes past the check of the target.             *)
(*                                                                         *)
(* What was loaded is kept because only a restore that is under way drops  *)
(* an orphan or a target, and what reports success is whole because past   *)
(* the drop nothing of what the target held before is left, and an empty   *)
(* target is not what pre-validation counted.                              *)
(***************************************************************************)
EXTENDS AtomicRename, FiniteSetTheorems, TLAPS

\* A database that pullDB did not create.
Foreign(t) == Before[t] # {} /\ Marker \notin Before[t]

BeforeRename == {"start", "version", "lock", "recheck", "deploy", "find", "count", "check",
                 "drop", "list", "create", "rename"}
PastCheck == {"drop", "list", "create", "rename", "verify", "emptied", "unstage", "post", "done"}

\* What is loaded into exists, and its worker lives.
LoadExists ==
    \A j \in Job :
        /\ pc[j] \in {"before", "load"} => j \in alive
        /\ pc[j] = "load" => j \in schemas

\* Until the rename, the staging database is whole, or another restore has
\* dropped it as an orphan.
StagedWhole == \A j \in Job : pc[j] \in BeforeRename => staged[j] \in {{}, Backup[j]}

\* The RENAME statement names all of it.
ListedWhole == \A j \in Job : pc[j] \in {"create", "rename"} => listed[j] = Backup[j]

\* The check of the target turns every restore of a foreign database away.
ForeignRefused == \A j \in Job : pc[j] \in PastCheck => ~Foreign(TargetOf[j])
ForeignStands == \A t \in Target : Foreign(t) => t \in schemas /\ held[t] = {Old} \X Before[t]

RenameInv ==
    /\ RenameTypeOK /\ LoadExists
    /\ StagedWhole /\ ListedWhole
    /\ ForeignRefused /\ ForeignStands
    /\ TargetWhole

USE RenameTypes, NamesAssumption

-----------------------------------------------------------------------------

LEMMA InitRenameInv == RenameInit => RenameInv
<1> SUFFICES ASSUME RenameInit PROVE RenameInv
  OBVIOUS
<1> USE DEF RenameInit
<1>1. RenameTypeOK
  <2>1. IsFiniteSet(Table) => 0 \in 0..Cardinality(Table)
    BY FS_CardinalityType
  <2>2. \A j \in Job : deployer = j <=> pc[j] \in {"recheck", "deploy"}
    BY DEF Nobody
  <2>3. /\ schemas \subseteq Job \cup Target /\ staged \in [Job -> SUBSET Table]
        /\ held \in [Target -> SUBSET ((Job \cup {Old}) \X Table)]
        /\ \A t \in Target : held[t] # {} => t \in schemas
    OBVIOUS
  <2> QED BY <2>1, <2>2, <2>3 DEF RenameTypeOK, Nobody, CutOverPhase
<1>2. LoadExists /\ StagedWhole /\ ListedWhole /\ ForeignRefused
  BY DEF LoadExists, StagedWhole, ListedWhole, ForeignRefused, BeforeRename, PastCheck
<1>3. ForeignStands
  BY DEF ForeignStands, Foreign
<1>4. TargetWhole
  BY DEF TargetWhole
<1> QED BY <1>1, <1>2, <1>3, <1>4 DEF RenameInv

-----------------------------------------------------------------------------
(* Steps that touch no database.                                           *)

\* Where a restore may go by such a step.
Advance(p) ==
    CASE p = "start" -> {"version"}
      [] p = "version" -> {"find", "lock"}
      [] p = "lock" -> {"recheck"}
      [] p = "recheck" -> {"find", "deploy"}
      [] p = "deploy" -> {"find"}
      [] p = "find" -> {"count"}
      [] p = "count" -> {"check"}
      [] p = "check" -> {"drop", "list"}
      [] p = "verify" -> {"emptied"}
      [] p = "emptied" -> {"unstage"}
      [] p = "post" -> {"done"}
      [] OTHER -> {}

LookOn(j) ==
    \/ PreValidate(j) \/ CheckVersion(j) \/ TakeDeployLock(j) \/ RecheckVersion(j)
    \/ DeployProcedure(j) \/ CallProcedure(j) \/ CountStaging(j) \/ CheckTarget(j)
    \/ VerifyTarget(j) \/ VerifyStaging(j) \/ PostValidate(j)
Breaks(j) == SqlError(j) \/ WorkerDies(j)

LEMMA LookOnStep ==
    ASSUME RenameInv, NEW j \in Job, LookOn(j) \/ Breaks(j)
    PROVE  /\ UNCHANGED <<schemaVars, listed>>
           /\ \E p \in Advance(pc[j]) \cup {"failed", "gone", pc[j]} : pc' = [pc EXCEPT ![j] = p]
           /\ pc'[j] # "before"
           /\ pc'[j] = "load" => pc[j] = "load" /\ alive' = alive
           /\ alive' \in {alive, alive \ {j}}
<1> USE DEF RenameInv, RenameTypeOK, Proceed, Advance
<1>1. CASE PreValidate(j) \/ CheckVersion(j) \/ TakeDeployLock(j)
  BY <1>1 DEF PreValidate, CheckVersion, TakeDeployLock
<1>2. CASE RecheckVersion(j) \/ DeployProcedure(j) \/ CallProcedure(j)
  BY <1>2 DEF RecheckVersion, DeployProcedure, CallProcedure
<1>3. CASE CountStaging(j) \/ CheckTarget(j)
  BY <1>3 DEF CountStaging, CheckTarget
<1>4. CASE VerifyTarget(j) \/ VerifyStaging(j) \/ PostValidate(j)
  BY <1>4 DEF VerifyTarget, VerifyStaging, PostValidate
<1>5. CASE SqlError(j)
  BY <1>5 DEF SqlError
<1>6. CASE WorkerDies(j)
  BY <1>6 DEF WorkerDies, InProcedure
<1> QED BY <1>1, <1>2, <1>3, <1>4, <1>5, <1>6 DEF LookOn, Breaks

\* A step that touches no database keeps everything but the types.
LEMMA LookOnKeeps ==
    ASSUME RenameInv, NEW j \in Job, LookOn(j) \/ Breaks(j)
    PROVE  (LoadExists /\ StagedWhole /\ ListedWhole /\ ForeignRefused /\ ForeignStands
              /\ TargetWhole)'
<1>1. /\ schemas' = schemas /\ staged' = staged /\ held' = held /\ listed' = listed
      /\ pc \in [Job -> CutOverPhase]
  BY LookOnStep DEF schemaVars, RenameInv, RenameTypeOK
<1>2. PICK p \in Advance(pc[j]) \cup {"failed", "gone", pc[j]} : pc' = [pc EXCEPT ![j] = p]
  BY LookOnStep
<1>3. LoadExists'
  <2>1. \A k \in Job : k # j => (k \in alive' <=> k \in alive)
    BY LookOnStep
  <2> QED BY <1>1, <1>2, <2>1, LookOnStep DEF LoadExists, RenameInv
<1>4. StagedWhole'
  <2>1. p \in BeforeRename => pc[j] \in BeforeRename
    BY <1>2 DEF Advance, BeforeRename
  <2> QED BY <1>1, <1>2, <2>1 DEF StagedWhole, RenameInv
<1>5. ListedWhole'
  <2>1. p \in {"create", "rename"} => pc[j] = p
    BY <1>2 DEF Advance
  <2> QED BY <1>1, <1>2, <2>1 DEF ListedWhole, RenameInv
<1>6. ForeignRefused'
  <2>1. CASE CheckTarget(j)
    <3>1. p \in PastCheck /\ TargetOf[j] \in schemas => MayDrop(TargetOf[j])
      BY <1>1, <1>2, <2>1 DEF CheckTarget, Proceed, PastCheck
    <3>2. Foreign(TargetOf[j]) => ~HasMarker(TargetOf[j]) /\ TargetOf[j] \in schemas
      <4> DEFINE t == TargetOf[j]
      <4>1. t \in Target
        BY RenameTypes
      <4>2. Foreign(t) => t \in schemas /\ held[t] = {Old} \X Before[t]
        BY <4>1 DEF RenameInv, ForeignStands
      <4>3. \A S, o : Marker \notin S => <<o, Marker>> \notin {Old} \X S
        OBVIOUS
      <4> QED BY <4>2, <4>3 DEF Foreign, HasMarker
    <3> QED BY <1>1, <1>2, <3>1, <3>2 DEF ForeignRefused, RenameInv, MayDrop
  <2>2. CASE ~CheckTarget(j)
    <3>1. p \in PastCheck => pc[j] \in PastCheck \/ (pc[j] = "check" /\ p # pc[j])
      BY <1>2 DEF Advance, PastCheck
    <3>2. pc[j] = "check" => p \in {"check", "failed", "gone"}
      <4>1. p = pc'[j]
        BY <1>1, <1>2
      <4>2. CASE LookOn(j)
        BY <2>2, <4>2 DEF LookOn, PreValidate, CheckVersion, TakeDeployLock, RecheckVersion,
           DeployProcedure, CallProcedure, CountStaging, VerifyTarget, VerifyStaging,
           PostValidate, Proceed
      <4>3. CASE SqlError(j)
        BY <1>1, <4>1, <4>3 DEF SqlError, Proceed
      <4>4. CASE WorkerDies(j)
        BY <1>1, <4>1, <4>4 DEF WorkerDies
      <4> QED BY <4>2, <4>3, <4>4 DEF Breaks
    <3> QED BY <1>1, <1>2, <3>1, <3>2 DEF ForeignRefused, RenameInv, PastCheck
  <2> QED BY <2>1, <2>2
<1>7. ForeignStands' /\ TargetWhole'
  BY <1>1 DEF RenameInv, ForeignStands, TargetWhole
<1> QED BY <1>3, <1>4, <1>5, <1>6, <1>7

-----------------------------------------------------------------------------
(* Steps on databases.                                                     *)

LEMMA PrepareKeeps ==
    ASSUME RenameInv, NEW j \in Job, PrepareStaging(j)
    PROVE  (LoadExists /\ StagedWhole /\ ListedWhole /\ ForeignRefused /\ ForeignStands
              /\ TargetWhole)'
<1>0. /\ pc \in [Job -> CutOverPhase] /\ alive \subseteq Job
      /\ LoadExists /\ StagedWhole /\ ListedWhole /\ ForeignRefused /\ ForeignStands
      /\ TargetWhole
  BY DEF RenameInv, RenameTypeOK
<1>1. /\ pc' = [pc EXCEPT ![j] = "load"] /\ pc[j] = "before"
      /\ held' = held /\ listed' = listed /\ alive' = alive
      /\ schemas' = (schemas \ Orphans(j)) \cup {j}
      /\ staged' = [k \in Job |-> IF k = j THEN {Marker}
                                 ELSE IF k \in Orphans(j) THEN {} ELSE staged[k]]
  BY DEF PrepareStaging, Proceed
<1>2. LoadExists'
  <2>1. ASSUME NEW k \in Job, k # j, pc'[k] = "load"
        PROVE  k \in schemas' /\ k \in alive'
    <3>1. k \in schemas /\ k \in alive /\ pc[k] = "load"
      BY <1>0, <1>1, <2>1 DEF LoadExists
    <3>2. k \notin Orphans(j)
      BY <3>1 DEF Orphans, Connected
    <3> QED BY <1>1, <3>1, <3>2
  <2>2. j \in alive
    BY <1>0, <1>1 DEF LoadExists
  <2>3. ASSUME NEW k \in Job, k # j, pc'[k] = "before" PROVE k \in alive'
    BY <1>0, <1>1, <2>3 DEF LoadExists
  <2> QED BY <1>0, <1>1, <2>1, <2>2, <2>3 DEF LoadExists
<1>3. StagedWhole' /\ ListedWhole' /\ ForeignRefused'
  BY <1>0, <1>1 DEF StagedWhole, ListedWhole, ForeignRefused, BeforeRename, PastCheck
<1>4. ForeignStands'
  BY <1>0, <1>1 DEF ForeignStands, Orphans
<1>5. TargetWhole'
  BY <1>0, <1>1 DEF TargetWhole
<1> QED BY <1>5, <1>2, <1>3, <1>4

\* What the other steps on databases leave as it is.
LEMMA ChangeKeeps ==
    ASSUME RenameInv, NEW j \in Job, NEW p \in CutOverPhase \ {"before", "load"},
           pc' = [pc EXCEPT ![j] = p], alive' = alive,
           p \in PastCheck => pc[j] \in PastCheck,
           \A k \in Job \ {j} : k \in schemas => k \in schemas'
    PROVE  LoadExists' /\ ForeignRefused'
<1>1. /\ pc \in [Job -> CutOverPhase] /\ LoadExists /\ ForeignRefused
  BY DEF RenameInv, RenameTypeOK
<1>2. LoadExists'
  BY <1>1 DEF LoadExists
<1>3. ForeignRefused'
  BY <1>1 DEF ForeignRefused
<1> QED BY <1>2, <1>3

LEMMA LoadKeeps ==
    ASSUME RenameInv, NEW j \in Job, LoadStaging(j)
    PROVE  (LoadExists /\ StagedWhole /\ ListedWhole /\ ForeignRefused /\ ForeignStands
              /\ TargetWhole)'
<1>0. /\ pc \in [Job -> CutOverPhase] /\ staged \in [Job -> SUBSET Table]
      /\ StagedWhole /\ ListedWhole /\ ForeignStands /\ TargetWhole
  BY DEF RenameInv, RenameTypeOK
<1>1. /\ pc' = [pc EXCEPT ![j] = "start"] /\ pc[j] = "load"
      /\ staged' = [staged EXCEPT ![j] = Backup[j]]
      /\ UNCHANGED <<schemas, held, alive, listed>>
  BY DEF LoadStaging, Proceed
<1>2. LoadExists' /\ ForeignRefused'
  BY <1>1, ChangeKeeps DEF PastCheck, CutOverPhase
<1>3. StagedWhole' /\ ListedWhole'
  BY <1>0, <1>1 DEF StagedWhole, ListedWhole
<1>4. ForeignStands' /\ TargetWhole'
  BY <1>0, <1>1 DEF ForeignStands, TargetWhole
<1> QED BY <1>2, <1>3, <1>4

\* Only a target that is not foreign is dropped, and all of it.
LEMMA DropKeeps ==
    ASSUME RenameInv, NEW j \in Job, DropTarget(j)
    PROVE  (LoadExists /\ StagedWhole /\ ListedWhole /\ ForeignRefused /\ ForeignStands
              /\ TargetWhole)'
<1> DEFINE t == TargetOf[j]
<1>0. /\ pc \in [Job -> CutOverPhase] /\ held \in [Target -> SUBSET ((Job \cup {Old}) \X Table)]
      /\ StagedWhole /\ ListedWhole /\ ForeignRefused /\ ForeignStands /\ TargetWhole
  BY DEF RenameInv, RenameTypeOK
<1>1. PICK p \in {"list", "failed", "gone"} : pc' = [pc EXCEPT ![j] = p]
  BY DEF DropTarget, Proceed
<1>2. /\ pc[j] = "drop" /\ t \in Target /\ schemas' = schemas \ {t}
      /\ held' = [held EXCEPT ![t] = {}] /\ UNCHANGED <<staged, alive, listed>>
  BY DEF DropTarget, Proceed
<1>3. LoadExists' /\ ForeignRefused'
  BY <1>1, <1>2, ChangeKeeps DEF PastCheck, CutOverPhase, InProcedure, Ended
<1>4. StagedWhole' /\ ListedWhole'
  BY <1>0, <1>1, <1>2 DEF StagedWhole, ListedWhole, BeforeRename
<1>5. ~Foreign(t)
  BY <1>0, <1>2 DEF ForeignRefused, PastCheck
<1>6. ForeignStands' /\ TargetWhole'
  BY <1>0, <1>2, <1>5 DEF ForeignStands, TargetWhole
<1> QED BY <1>3, <1>4, <1>6

LEMMA ListKeeps ==
    ASSUME RenameInv, NEW j \in Job, ListTables(j) \/ CreateTarget(j)
    PROVE  (LoadExists /\ StagedWhole /\ ListedWhole /\ ForeignRefused /\ ForeignStands
              /\ TargetWhole)'
<1>0. /\ pc \in [Job -> CutOverPhase] /\ listed \in [Job -> SUBSET Table]
      /\ StagedWhole /\ ListedWhole /\ ForeignStands /\ TargetWhole
  BY DEF RenameInv, RenameTypeOK
<1>1. PICK p \in {"create", "rename", "failed", "gone"} : pc' = [pc EXCEPT ![j] = p]
  BY DEF ListTables, CreateTarget, Proceed
<1>2. /\ pc[j] \in {"list", "create"} /\ UNCHANGED <<staged, held, alive>>
      /\ schemas \subseteq schemas'
      /\ \A k \in Job \ {j} : listed'[k] = listed[k]
  <2>1. CASE ListTables(j)
    BY <1>0, <2>1 DEF ListTables, Proceed, schemaVars
  <2>2. CASE CreateTarget(j)
    BY <1>0, <2>2 DEF CreateTarget, Proceed
  <2> QED BY <2>1, <2>2
<1>3. LoadExists' /\ ForeignRefused'
  BY <1>1, <1>2, ChangeKeeps DEF PastCheck, CutOverPhase, InProcedure, Ended
<1>4. StagedWhole'
  BY <1>0, <1>1, <1>2 DEF StagedWhole, BeforeRename
<1>5. p \in {"create", "rename"} => listed'[j] = Backup[j]
  <2>1. CASE ListTables(j)
    BY <1>0, <1>1, <2>1 DEF ListTables, Proceed, Staged, ToRename, StagedWhole, BeforeRename
  <2>2. CASE CreateTarget(j)
    BY <1>0, <1>1, <2>2 DEF CreateTarget, Proceed, ListedWhole
  <2> QED BY <2>1, <2>2
<1>6. ListedWhole'
  BY <1>0, <1>1, <1>2, <1>5 DEF ListedWhole
<1>7. ForeignStands' /\ TargetWhole'
  BY <1>0, <1>2 DEF ForeignStands, TargetWhole
<1> QED BY <1>3, <1>4, <1>6, <1>7

\* The tables of a backup go into a target without any: whatever it held had
\* the marker, and RENAME TABLE refuses a second one.
LEMMA FillsEmpty ==
    ASSUME RenameInv, NEW j \in Job, RenameTables(j), CanRename(j)
    PROVE  /\ listed[j] = Backup[j] /\ ~Foreign(TargetOf[j])
           /\ held[TargetOf[j]] = {}
           /\ held' = [held EXCEPT ![TargetOf[j]] = {j} \X Backup[j]]
<1> DEFINE t == TargetOf[j]
<1>0. /\ held \in [Target -> SUBSET ((Job \cup {Old}) \X Table)] /\ t \in Target
      /\ ListedWhole /\ ForeignRefused /\ TargetWhole /\ pc[j] = "rename"
  BY DEF RenameInv, RenameTypeOK, RenameTables, Proceed
<1>1. listed[j] = Backup[j] /\ Marker \in Backup[j]
  BY <1>0 DEF ListedWhole
<1>2. \A o \in Job \cup {Old} : <<o, Marker>> \notin held[t]
  BY <1>1 DEF CanRename
<1>3. ~Foreign(t)
  BY <1>0 DEF ForeignRefused, PastCheck
<1>4. held[t] = {}
  <2>1. CASE held[t] = {Old} \X Before[t]
    <3>1. Marker \in Before[t] => <<Old, Marker>> \in held[t]
      BY <2>1
    <3>2. Before[t] = {} => held[t] = {}
      BY <2>1
    <3> QED BY <1>2, <1>3, <3>1, <3>2 DEF Foreign
  <2>2. CASE \E k \in Job : TargetOf[k] = t /\ held[t] = {k} \X Backup[k]
    <3>1. PICK k \in Job : held[t] = {k} \X Backup[k]
      BY <2>2
    <3>2. <<k, Marker>> \in held[t]
      BY <3>1, NamesAssumption
    <3> QED BY <1>2, <3>2
  <2> QED BY <1>0, <2>1, <2>2 DEF TargetWhole
<1>5. held' = [held EXCEPT ![t] = {j} \X Backup[j]]
  BY <1>1, <1>4 DEF RenameTables
<1> QED BY <1>1, <1>3, <1>4, <1>5

LEMMA RenameKeeps ==
    ASSUME RenameInv, NEW j \in Job, RenameTables(j)
    PROVE  (LoadExists /\ StagedWhole /\ ListedWhole /\ ForeignRefused /\ ForeignStands
              /\ TargetWhole)'
<1> DEFINE t == TargetOf[j]
<1>0. /\ pc \in [Job -> CutOverPhase] /\ staged \in [Job -> SUBSET Table]
      /\ held \in [Target -> SUBSET ((Job \cup {Old}) \X Table)]
      /\ StagedWhole /\ ListedWhole /\ ForeignRefused /\ ForeignStands /\ TargetWhole
  BY DEF RenameInv, RenameTypeOK
<1>1. PICK p \in {"verify", "failed", "gone"} : pc' = [pc EXCEPT ![j] = p]
  BY DEF RenameTables, Proceed
<1>2. /\ pc[j] = "rename" /\ t \in Target /\ UNCHANGED <<schemas, alive, listed>>
      /\ \A k \in Job \ {j} : staged'[k] = staged[k]
  BY <1>0 DEF RenameTables, Proceed
<1>3. LoadExists' /\ ForeignRefused'
  BY <1>1, <1>2, ChangeKeeps DEF PastCheck, CutOverPhase, InProcedure, Ended
<1>4. StagedWhole' /\ ListedWhole'
  BY <1>0, <1>1, <1>2 DEF StagedWhole, ListedWhole, BeforeRename
<1>5. CASE ~CanRename(j)
  BY <1>0, <1>2, <1>3, <1>4, <1>5 DEF RenameTables, ForeignStands, TargetWhole
<1>6. CASE CanRename(j)
  <2>1. ~Foreign(t) /\ held' = [held EXCEPT ![t] = {j} \X Backup[j]]
    BY <1>6, FillsEmpty
  <2>2. TargetWhole'
    BY <1>0, <1>2, <2>1 DEF TargetWhole
  <2>3. ForeignStands'
    BY <1>0, <1>2, <2>1 DEF ForeignStands
  <2> QED BY <1>3, <1>4, <2>2, <2>3
<1> QED BY <1>5, <1>6

LEMMA UnstageKeeps ==
    ASSUME RenameInv, NEW j \in Job, DropStaging(j)
    PROVE  (LoadExists /\ StagedWhole /\ ListedWhole /\ ForeignRefused /\ ForeignStands
              /\ TargetWhole)'
<1>0. /\ pc \in [Job -> CutOverPhase] /\ staged \in [Job -> SUBSET Table]
      /\ StagedWhole /\ ListedWhole /\ ForeignStands /\ TargetWhole
  BY DEF RenameInv, RenameTypeOK
<1>1. PICK p \in {"post", "failed", "gone"} : pc' = [pc EXCEPT ![j] = p]
  BY DEF DropStaging, Proceed
<1>2. /\ pc[j] = "unstage" /\ schemas' = schemas \ {j}
      /\ staged' = [staged EXCEPT ![j] = {}] /\ UNCHANGED <<held, alive, listed>>
  BY DEF DropStaging, Proceed
<1>3. LoadExists' /\ ForeignRefused'
  BY <1>1, <1>2, ChangeKeeps DEF PastCheck, CutOverPhase, InProcedure, Ended
<1>4. StagedWhole' /\ ListedWhole'
  BY <1>0, <1>1, <1>2 DEF StagedWhole, ListedWhole, BeforeRename
<1>5. ForeignStands' /\ TargetWhole'
  BY <1>0, <1>2 DEF ForeignStands, TargetWhole
<1> QED BY <1>3, <1>4, <1>5

-----------------------------------------------------------------------------
(* Types.                                                                  *)

LEMMA TableCounts ==
    ASSUME NEW S, S \subseteq Table
    PROVE  Cardinality(S) \in 0..Cardinality(Table)
<1>1. IsFiniteSet(S) /\ Cardinality(S) <= Cardinality(Table)
  BY FS_Subset
<1> QED BY <1>1, FS_CardinalityType

\* The deployment lock and the control of one restore.
LEMMA LockKeeps ==
    ASSUME RenameTypeOK, NEW j \in Job, CutOver(j) \/ SqlError(j) \/ WorkerDies(j)
    PROVE  /\ pc' \in [Job -> CutOverPhase] /\ deployer' \in Job \cup {Nobody}
           /\ \A k \in Job : deployer' = k <=> pc'[k] \in {"recheck", "deploy"}
<1> USE DEF RenameTypeOK, Proceed, CutOverPhase, InProcedure, Ended, Nobody
<1>1. CASE PrepareStaging(j) \/ LoadStaging(j) \/ PreValidate(j) \/ CheckVersion(j)
  BY <1>1 DEF PrepareStaging, LoadStaging, PreValidate, CheckVersion
<1>2. CASE TakeDeployLock(j)
  BY <1>2 DEF TakeDeployLock
<1>3. CASE RecheckVersion(j)
  BY <1>3 DEF RecheckVersion
<1>4. CASE DeployProcedure(j)
  BY <1>4 DEF DeployProcedure
<1>5. CASE CallProcedure(j) \/ CountStaging(j) \/ CheckTarget(j) \/ DropTarget(j)
  BY <1>5 DEF CallProcedure, CountStaging, CheckTarget, DropTarget
<1>6. CASE ListTables(j) \/ CreateTarget(j) \/ RenameTables(j) \/ VerifyTarget(j)
  BY <1>6 DEF ListTables, CreateTarget, RenameTables, VerifyTarget
<1>7. CASE VerifyStaging(j) \/ DropStaging(j) \/ PostValidate(j)
  BY <1>7 DEF VerifyStaging, DropStaging, PostValidate
<1>8. CASE SqlError(j)
  BY <1>8 DEF SqlError
<1>9. CASE WorkerDies(j)
  BY <1>9 DEF WorkerDies
<1> QED BY <1>1, <1>2, <1>3, <1>4, <1>5, <1>6, <1>7, <1>8, <1>9 DEF CutOver

\* The databases and what is known of them.
LEMMA SchemasKeep ==
    ASSUME RenameInv, NEW j \in Job, CutOver(j) \/ SqlError(j) \/ WorkerDies(j)
    PROVE  /\ schemas' \subseteq Job \cup Target /\ staged' \in [Job -> SUBSET Table]
           /\ held' \in [Target -> SUBSET ((Job \cup {Old}) \X Table)]
           /\ procedure' = procedure /\ alive' \subseteq Job
           /\ expected' \in [Job -> 0 .. Cardinality(Table)]
           /\ listed' \in [Job -> SUBSET Table]
           /\ \A k \in Job : staged'[k] # {} => k \in schemas'
           /\ \A t \in Target : held'[t] # {} => t \in schemas'
<1> USE DEF RenameInv, RenameTypeOK
<1>1. CASE PrepareStaging(j)
  BY <1>1 DEF PrepareStaging, Orphans
<1>2. CASE LoadStaging(j)
  <2>1. j \in schemas
    BY <1>2 DEF LoadStaging, Proceed, LoadExists
  <2> QED BY <1>2, <2>1 DEF LoadStaging
<1>3. CASE PreValidate(j)
  BY <1>3, TableCounts DEF PreValidate, schemaVars
<1>4. CASE \/ CheckVersion(j) \/ TakeDeployLock(j) \/ RecheckVersion(j) \/ DeployProcedure(j)
           \/ CallProcedure(j) \/ CountStaging(j) \/ CheckTarget(j)
  BY <1>4 DEF CheckVersion, TakeDeployLock, RecheckVersion, DeployProcedure, CallProcedure,
              CountStaging, CheckTarget, schemaVars
<1>5. CASE DropTarget(j)
  BY <1>5 DEF DropTarget
<1>6. CASE ListTables(j)
  BY <1>6 DEF ListTables, ToRename, schemaVars
<1>7. CASE CreateTarget(j)
  BY <1>7 DEF CreateTarget
<1>8. CASE RenameTables(j)
  <2>1. CASE CanRename(j)
    BY <1>8, <2>1 DEF RenameTables, CanRename
  <2>2. CASE ~CanRename(j)
    BY <1>8, <2>2 DEF RenameTables
  <2> QED BY <2>1, <2>2
<1>9. CASE VerifyTarget(j) \/ VerifyStaging(j) \/ PostValidate(j)
  BY <1>9 DEF VerifyTarget, VerifyStaging, PostValidate, schemaVars
<1>10. CASE DropStaging(j)
  BY <1>10 DEF DropStaging
<1>11. CASE SqlError(j) \/ WorkerDies(j)
  BY <1>11 DEF SqlError, WorkerDies, schemaVars
<1> QED BY <1>1, <1>2, <1>3, <1>4, <1>5, <1>6, <1>7, <1>8, <1>9, <1>10, <1>11 DEF CutOver

LEMMA NextRenameInv == RenameInv /\ [RenameNext]_renameVars => RenameInv'
<1> SUFFICES ASSUME RenameInv, [RenameNext]_renameVars PROVE RenameInv'
  OBVIOUS
<1>1. ASSUME NEW j \in Job, CutOver(j) \/ SqlError(j) \/ WorkerDies(j)
      PROVE  RenameInv'
  <2>1. RenameTypeOK'
    <3>1. RenameTypeOK
      BY DEF RenameInv
    <3> QED BY <1>1, <3>1, LockKeeps, SchemasKeep DEF RenameTypeOK
  <2>2. (LoadExists /\ StagedWhole /\ ListedWhole /\ ForeignRefused /\ ForeignStands
           /\ TargetWhole)'
    BY <1>1, LookOnKeeps, PrepareKeeps, LoadKeeps, DropKeeps, ListKeeps, RenameKeeps,
       UnstageKeeps DEF CutOver, LookOn, Breaks
  <2> QED BY <2>1, <2>2 DEF RenameInv
<1>2. CASE UNCHANGED renameVars
  BY <1>2 DEF renameVars, RenameInv, RenameTypeOK, LoadExists, StagedWhole, ListedWhole,
              ForeignRefused, ForeignStands, TargetWhole
<1> QED BY <1>1, <1>2 DEF RenameNext

-----------------------------------------------------------------------------

LEMMA RenameInvariant == RenameSpec => []RenameInv
BY InitRenameInv, NextRenameInv, PTL DEF RenameSpec

\* Types, for every set of restores and targets; only databases that exist hold
\* tables, and the deployment lock belongs to the restore that deploys.
THEOREM RenameTypeCorrect == RenameSpec => []RenameTypeOK
<1>1. RenameInv => RenameTypeOK
  BY DEF RenameInv
<1> QED BY <1>1, RenameInvariant, PTL

\* The cut-over of any number of restores into any number of targets: no
\* target mixes the tables of two restores or holds part of one.
THEOREM NeverMixed == RenameSpec => []TargetWhole
<1>1. RenameInv => TargetWhole
  BY DEF RenameInv
<1> QED BY <1>1, RenameInvariant, PTL

\* A database without pullDB's marker is neither dropped nor added to.
THEOREM ForeignKept == RenameSpec => ExternalKept
<1>1. ASSUME RenameInv, RenameInv', NEW t \in Target, held[t] # {}, ~HasMarker(t)
      PROVE  held'[t] = held[t] /\ t \in schemas'
  <2>1. held[t] = {Old} \X Before[t]
    <3>1. ASSUME NEW k \in Job, held[t] = {k} \X Backup[k] PROVE FALSE
      <4>1. <<k, Marker>> \in held[t]
        BY <3>1, NamesAssumption
      <4> QED BY <1>1, <4>1 DEF HasMarker
    <3> QED BY <1>1, <3>1 DEF RenameInv, TargetWhole
  <2>2. Before[t] # {}
    BY <1>1, <2>1
  <2>3. Marker \in Before[t] => <<Old, Marker>> \in held[t]
    BY <2>1
  <2>4. Foreign(t)
    BY <1>1, <2>2, <2>3 DEF Foreign, HasMarker
  <2> QED BY <1>1, <2>1, <2>4 DEF RenameInv, ForeignStands, Foreign
<1>2. RenameInv /\ RenameInv' => [\A t \in Target :
          held[t] # {} /\ ~HasMarker(t) => held'[t] = held[t] /\ t \in schemas']_renameVars
  BY <1>1
<1> QED BY <1>2, RenameInvariant, PTL DEF ExternalKept

-----------------------------------------------------------------------------
(* The first restore of each target implements AtomicReplace.              *)

\* Every target has one restore, and none holds an earlier one.
FirstRestores ==
    /\ \A j, k \in Job : TargetOf[j] = TargetOf[k] => j = k
    /\ \A t \in Target : Marker \notin Before[t]

BeforeReplace == {"before", "load"} \cup BeforeRename

\* Up to the rename the target is as it was, and nothing is dropped.
NotReplaced ==
    \A j \in Job : pc[j] \in BeforeReplace =>
        pc[j] # "drop" /\ held[TargetOf[j]] = {Old} \X Before[TargetOf[j]]

LEMMA FirstStep ==
    ASSUME FirstRestores, RenameInv, RenameInv', NotReplaced, NEW j \in Job,
           CutOver(j) \/ SqlError(j) \/ WorkerDies(j)
    PROVE  NotReplaced' /\ (Replace!ReplaceContent(j) \/ held' = held)
<1> DEFINE t == TargetOf[j]
<1>0. /\ pc \in [Job -> CutOverPhase] /\ held \in [Target -> SUBSET ((Job \cup {Old}) \X Table)]
      /\ t \in Target /\ \A k \in Job : TargetOf[k] \in Target
  BY DEF RenameInv, RenameTypeOK
<1>1. ASSUME held' = held, NEW p, pc' = [pc EXCEPT ![j] = p], p # "drop",
             p \in BeforeReplace => pc[j] \in BeforeReplace
      PROVE  NotReplaced'
  BY <1>0, <1>1 DEF NotReplaced
<1>2. CASE PrepareStaging(j) \/ LoadStaging(j)
  BY <1>1, <1>2 DEF PrepareStaging, LoadStaging, Proceed, BeforeReplace
<1>3. CASE LookOn(j) \/ Breaks(j)
  <2>1. PICK p \in Advance(pc[j]) \cup {"failed", "gone", pc[j]} : pc' = [pc EXCEPT ![j] = p]
    BY <1>3, LookOnStep
  <2>2. held' = held
    BY <1>3, LookOnStep DEF schemaVars
  <2>3. p \in BeforeReplace => pc[j] \in BeforeReplace
    BY <1>0, <2>1 DEF Advance, BeforeReplace, BeforeRename
  <2>4. p # "drop"
    <3>1. CASE pc[j] = "check"
      <4>1. held[t] = {Old} \X Before[t] /\ Marker \notin Before[t]
        BY <1>0, <3>1 DEF NotReplaced, BeforeReplace, BeforeRename, FirstRestores
      <4>2. ~HasMarker(t)
        BY <4>1 DEF HasMarker
      <4>3. CASE CheckTarget(j)
        BY <1>0, <2>1, <4>2, <4>3 DEF CheckTarget, Proceed, MayDrop
      <4>4. CASE SqlError(j) \/ WorkerDies(j)
        BY <1>0, <2>1, <3>1, <4>4 DEF SqlError, WorkerDies, Proceed
      <4> QED BY <1>3, <3>1, <4>3, <4>4 DEF LookOn, Breaks, PreValidate, CheckVersion,
             TakeDeployLock, RecheckVersion, DeployProcedure, CallProcedure, CountStaging,
             VerifyTarget, VerifyStaging, PostValidate, Proceed
    <3>2. CASE pc[j] = "drop"
      BY <3>2 DEF NotReplaced, BeforeReplace, BeforeRename
    <3>3. CASE pc[j] \notin {"check", "drop"}
      BY <2>1, <3>3 DEF Advance
    <3> QED BY <3>1, <3>2, <3>3
  <2> QED BY <1>1, <2>1, <2>2, <2>3, <2>4
<1>4. CASE DropTarget(j)
  BY <1>4 DEF DropTarget, Proceed, NotReplaced, BeforeReplace, BeforeRename
<1>5. CASE ListTables(j) \/ CreateTarget(j) \/ DropStaging(j)
  BY <1>1, <1>5 DEF ListTables, CreateTarget, DropStaging, Proceed, schemaVars, BeforeReplace,
                    BeforeRename
<1>6. CASE RenameTables(j)
  <2>1. PICK p \in {"verify", "failed", "gone"} : pc' = [pc EXCEPT ![j] = p]
    BY <1>6 DEF RenameTables, Proceed
  <2>2. CASE ~CanRename(j)
    BY <1>1, <1>6, <2>1, <2>2 DEF RenameTables, BeforeReplace, BeforeRename
  <2>3. CASE CanRename(j)
    <3>1. listed[j] = Backup[j] /\ Marker \in Backup[j]
      BY <1>6 DEF RenameTables, Proceed, RenameInv, ListedWhole
    <3>2. held' = [held EXCEPT ![t] = held[t] \cup ({j} \X Backup[j])]
      BY <1>6, <2>3, <3>1 DEF RenameTables
    <3>3. held'[t] # {} /\ <<j, Marker>> \in held'[t]
      BY <1>0, <3>1, <3>2
    <3>4. held'[t] = {j} \X Backup[j]
      <4>1. held'[t] # {Old} \X Before[t]
        BY <3>3 DEF FirstRestores
      <4>2. ASSUME NEW k \in Job, TargetOf[k] = t PROVE k = j
        BY <4>2 DEF FirstRestores
      <4> QED BY <1>0, <3>3, <4>1, <4>2 DEF RenameInv, TargetWhole
    <3>5. Replace!ReplaceContent(j)
      BY <1>0, <3>2, <3>4 DEF Replace!ReplaceContent
    <3>6. NotReplaced'
      BY <1>0, <2>1, <3>2 DEF NotReplaced, FirstRestores, BeforeReplace, BeforeRename
    <3> QED BY <3>5, <3>6
  <2> QED BY <2>2, <2>3
<1> QED BY <1>2, <1>3, <1>4, <1>5, <1>6 DEF CutOver, LookOn, Breaks

\* The promise of atomic_rename_staging_to_target holds of the first restore of
\* every target: AtomicReplace is implemented, whatever fails on the way.
THEOREM FirstIsAtomic ==
    ASSUME FirstRestores
    PROVE  RenameSpec => ReplacesAtomically
<1>1. RenameInit => Replace!ReplaceInit /\ NotReplaced
  BY DEF RenameInit, Replace!ReplaceInit, NotReplaced
<1>2. RenameInv /\ RenameInv' /\ NotReplaced /\ [RenameNext]_renameVars
        => NotReplaced' /\ [\E j \in Job : Replace!ReplaceContent(j)]_held
  <2> SUFFICES ASSUME RenameInv, RenameInv', NotReplaced, [RenameNext]_renameVars
               PROVE  NotReplaced' /\ [\E j \in Job : Replace!ReplaceContent(j)]_held
    OBVIOUS
  <2>1. CASE RenameNext
    BY <2>1, FirstStep DEF RenameNext
  <2>2. CASE UNCHANGED renameVars
    BY <2>2 DEF renameVars, NotReplaced
  <2> QED BY <2>1, <2>2
<1> QED BY <1>1, <1>2, RenameInvariant, PTL DEF RenameSpec, ReplacesAtomically,
        Replace!ReplaceSpec

-----------------------------------------------------------------------------
(* What a restore has loaded is kept, by restores that overlap and by      *)
(* procedures that go on after their workers have died.                    *)

RenameStep(j) == CutOver(j) \/ SqlError(j) \/ WorkerDies(j)

AfterRename == {"verify", "emptied", "unstage", "post"}

\* Before its rename a restore is not live; it drops its staging database when
\* that is empty.
KeptInv ==
    \A j \in Job :
        /\ pc[j] = "before" => staged[j] = {}
        /\ pc[j] \in BeforeReplace => ~Live(j)
        /\ pc[j] = "unstage" => staged[j] = {}

\* How a step changes the targets: a drop by a restore that lists its tables
\* next, or a rename into a target that holds nothing.
Drops(k) ==
    /\ pc[k] = "drop" /\ pc' = [pc EXCEPT ![k] = "list"]
    /\ UNCHANGED staged
    /\ held' = [held EXCEPT ![TargetOf[k]] = {}]

Fills(k) ==
    /\ pc[k] = "rename" /\ pc' = [pc EXCEPT ![k] = "verify"]
    /\ \A j \in Job \ {k} : staged'[j] = staged[j]
    /\ held[TargetOf[k]] = {}
    /\ held' = [held EXCEPT ![TargetOf[k]] = {k} \X Backup[k]]

LEMMA HeldChange ==
    ASSUME RenameInv, NEW k \in Job, RenameStep(k)
    PROVE  held' = held \/ Drops(k) \/ Fills(k)
<1> DEFINE t == TargetOf[k]
<1>0. /\ pc \in [Job -> CutOverPhase] /\ held \in [Target -> SUBSET ((Job \cup {Old}) \X Table)]
      /\ staged \in [Job -> SUBSET Table] /\ t \in Target
      /\ held[t] # {} => t \in schemas
  BY DEF RenameInv, RenameTypeOK
<1>1. CASE DropTarget(k)
  <2>1. CASE t \in schemas
    BY <1>1, <2>1 DEF DropTarget, Proceed, Drops
  <2>2. CASE t \notin schemas
    BY <1>0, <1>1, <2>2 DEF DropTarget
  <2> QED BY <2>1, <2>2
<1>2. CASE RenameTables(k)
  <2>1. CASE ~CanRename(k)
    BY <1>2, <2>1 DEF RenameTables
  <2>2. CASE CanRename(k)
    <3>1. held[t] = {} /\ listed[k] = Backup[k]
      BY <1>2, <2>2, FillsEmpty
    <3> QED BY <1>0, <1>2, <2>2, <3>1 DEF RenameTables, Proceed, Fills
  <2> QED BY <2>1, <2>2
<1>3. CASE PrepareStaging(k) \/ LoadStaging(k) \/ ListTables(k) \/ CreateTarget(k)
           \/ DropStaging(k)
  BY <1>3 DEF PrepareStaging, LoadStaging, ListTables, CreateTarget, DropStaging, schemaVars
<1>4. CASE LookOn(k) \/ Breaks(k)
  BY <1>4, LookOnStep DEF schemaVars
<1> QED BY <1>1, <1>2, <1>3, <1>4 DEF RenameStep, CutOver, LookOn, Breaks

\* Only the next restore takes a live database away.
LEMMA LiveStep ==
    ASSUME RenameInv, KeptInv, NEW k \in Job, RenameStep(k), NEW j \in Job, Live(j)
    PROVE  Live(j)' \/ Replacing(j)'
<1> DEFINE t == TargetOf[j]
<1>0. /\ pc \in [Job -> CutOverPhase] /\ held \in [Target -> SUBSET ((Job \cup {Old}) \X Table)]
      /\ t \in Target /\ TargetOf[k] \in Target
  BY DEF RenameInv, RenameTypeOK
<1>1. CASE held' = held
  BY <1>1 DEF Live
<1>2. CASE Drops(k)
  <2>1. k # j
    BY <1>2 DEF Drops, KeptInv, BeforeReplace, BeforeRename
  <2>2. CASE TargetOf[k] = t
    <3>1. UnderWay(k)'
      BY <1>0, <1>2 DEF Drops, UnderWay, Ended
    <3> QED BY <2>1, <2>2, <3>1 DEF Replacing
  <2>3. CASE TargetOf[k] # t
    BY <1>0, <1>2, <2>3 DEF Drops, Live
  <2> QED BY <2>2, <2>3
<1>3. CASE Fills(k)
  <2>1. <<j, Marker>> \in held[t]
    BY NamesAssumption DEF Live
  <2>2. TargetOf[k] # t
    BY <1>3, <2>1 DEF Fills
  <2> QED BY <1>0, <1>3, <2>2 DEF Fills, Live
<1> QED BY <1>1, <1>2, <1>3, HeldChange

LEMMA KeptStep ==
    ASSUME RenameInv, KeptInv, NEW k \in Job, RenameStep(k), NEW j \in Job, Kept(j)
    PROVE  Kept(j)' \/ Replacing(j)'
<1>0. /\ pc \in [Job -> CutOverPhase] /\ staged \in [Job -> SUBSET Table]
      /\ held \in [Target -> SUBSET ((Job \cup {Old}) \X Table)] /\ TargetOf[j] \in Target
  BY DEF RenameInv, RenameTypeOK
<1>1. CASE Live(j)
  BY <1>1, LiveStep DEF Kept
<1>2. CASE staged[j] = Backup[j] /\ ~Live(j)
  <2>0. staged[j] # {}
    BY <1>2, NamesAssumption
  <2>1. CASE staged'[j] = staged[j]
    BY <1>2, <2>1 DEF Kept
  <2>2. CASE PrepareStaging(k)
    <3>1. k # j
      BY <2>0, <2>2 DEF PrepareStaging, Proceed, KeptInv
    <3>2. CASE j \notin Orphans(k)
      BY <1>2, <2>2, <3>1, <3>2 DEF PrepareStaging, Kept
    <3>3. CASE j \in Orphans(k)
      <4>1. UnderWay(k)'
        BY <1>0, <2>2 DEF PrepareStaging, Proceed, UnderWay, Ended
      <4> QED BY <3>1, <3>3, <4>1 DEF Orphans, Replacing
    <3> QED BY <3>2, <3>3
  <2>3. CASE LoadStaging(k)
    BY <1>0, <1>2, <2>3 DEF LoadStaging, Kept
  <2>4. CASE RenameTables(k)
    <3>1. CASE k # j \/ ~CanRename(k)
      BY <1>0, <1>2, <2>4, <3>1 DEF RenameTables, Kept
    <3>2. CASE k = j /\ CanRename(k)
      <4>1. RenameTables(j) /\ CanRename(j)
        BY <2>4, <3>2
      <4>2. held' = [held EXCEPT ![TargetOf[j]] = {j} \X Backup[j]]
        BY <4>1, FillsEmpty
      <4>3. Live(j)'
        BY <1>0, <4>2 DEF Live
      <4> QED BY <4>3 DEF Kept
    <3> QED BY <3>1, <3>2
  <2>5. CASE DropStaging(k)
    <3>1. k # j
      BY <2>0, <2>5 DEF DropStaging, Proceed, KeptInv
    <3> QED BY <1>0, <2>5, <2>1, <3>1 DEF DropStaging
  <2>6. CASE DropTarget(k) \/ ListTables(k) \/ CreateTarget(k)
    BY <2>1, <2>6 DEF DropTarget, ListTables, CreateTarget, schemaVars
  <2>7. CASE LookOn(k) \/ Breaks(k)
    BY <2>1, <2>7, LookOnStep DEF schemaVars
  <2> QED BY <2>2, <2>3, <2>4, <2>5, <2>6, <2>7 DEF RenameStep, CutOver, LookOn, Breaks
<1> QED BY <1>1, <1>2 DEF Kept

LEMMA InitKeptInv == RenameInit => KeptInv
<1> SUFFICES ASSUME RenameInit, NEW j \in Job PROVE ~Live(j)
  BY DEF RenameInit, KeptInv
<1>1. held[TargetOf[j]] = {Old} \X Before[TargetOf[j]]
  BY DEF RenameInit
<1>2. <<j, Marker>> \notin {Old} \X Before[TargetOf[j]]
  BY NamesAssumption
<1>3. <<j, Marker>> \in {j} \X Backup[j]
  BY NamesAssumption
<1> QED BY <1>1, <1>2, <1>3 DEF Live

\* The control of the restore that steps.
LEMMA KeptControl ==
    ASSUME RenameInv, NEW k \in Job, RenameStep(k)
    PROVE  /\ \A j \in Job \ {k} : pc'[j] = pc[j]
           /\ pc'[k] # "before"
           /\ pc'[k] \in BeforeReplace => pc[k] \in BeforeReplace
<1> USE DEF RenameInv, RenameTypeOK, Proceed, BeforeReplace, BeforeRename
<1>1. CASE PrepareStaging(k) \/ LoadStaging(k) \/ DropTarget(k)
  BY <1>1 DEF PrepareStaging, LoadStaging, DropTarget
<1>2. CASE ListTables(k) \/ CreateTarget(k) \/ RenameTables(k) \/ DropStaging(k)
  BY <1>2 DEF ListTables, CreateTarget, RenameTables, DropStaging
<1>3. CASE PreValidate(k) \/ CheckVersion(k) \/ TakeDeployLock(k) \/ RecheckVersion(k)
  BY <1>3 DEF PreValidate, CheckVersion, TakeDeployLock, RecheckVersion
<1>4. CASE DeployProcedure(k) \/ CallProcedure(k) \/ CountStaging(k) \/ CheckTarget(k)
  BY <1>4 DEF DeployProcedure, CallProcedure, CountStaging, CheckTarget
<1>5. CASE VerifyTarget(k) \/ VerifyStaging(k) \/ PostValidate(k)
  BY <1>5 DEF VerifyTarget, VerifyStaging, PostValidate
<1>6. CASE SqlError(k) \/ WorkerDies(k)
  BY <1>6 DEF SqlError, WorkerDies, UnderWay
<1> QED BY <1>1, <1>2, <1>3, <1>4, <1>5, <1>6 DEF RenameStep, CutOver

\* A staging database gains tables only as its own restore loads it.
LEMMA KeptStaged ==
    ASSUME RenameInv, KeptInv, NEW k \in Job, RenameStep(k), NEW j \in Job
    PROVE  /\ k # j /\ staged[j] = {} => staged'[j] = {}
           /\ pc'[j] = "unstage" => staged'[j] = {}
<1>0. /\ pc \in [Job -> CutOverPhase] /\ staged \in [Job -> SUBSET Table]
  BY DEF RenameInv, RenameTypeOK
<1>1. CASE PrepareStaging(k)
  BY <1>0, <1>1 DEF PrepareStaging, Proceed, KeptInv
<1>2. CASE LoadStaging(k)
  BY <1>0, <1>2 DEF LoadStaging, Proceed, KeptInv
<1>3. CASE DropTarget(k) \/ ListTables(k) \/ CreateTarget(k)
  BY <1>0, <1>3 DEF DropTarget, ListTables, CreateTarget, schemaVars, Proceed, KeptInv
<1>4. CASE RenameTables(k)
  BY <1>0, <1>4 DEF RenameTables, Proceed, KeptInv
<1>5. CASE DropStaging(k)
  BY <1>0, <1>5 DEF DropStaging, Proceed, KeptInv
<1>6. CASE LookOn(k) \/ Breaks(k)
  <2>1. staged' = staged
    BY <1>6, LookOnStep DEF schemaVars
  <2>2. PICK p \in Advance(pc[k]) \cup {"failed", "gone", pc[k]} : pc' = [pc EXCEPT ![k] = p]
    BY <1>6, LookOnStep
  <2>3. CASE p = "unstage" /\ pc[k] # "unstage"
    <3>1. pc[k] = "emptied" /\ pc'[k] = "unstage"
      BY <1>0, <2>2, <2>3 DEF Advance
    <3>2. VerifyStaging(k)
      <4>1. ~Breaks(k)
        BY <1>0, <3>1 DEF Breaks, SqlError, WorkerDies, Proceed
      <4> QED BY <1>6, <3>1, <4>1 DEF LookOn, PreValidate, CheckVersion, TakeDeployLock,
             RecheckVersion, DeployProcedure, CallProcedure, CountStaging, CheckTarget,
             VerifyTarget, PostValidate, Proceed
    <3>3. staged[k] = {}
      BY <1>0, <3>1, <3>2 DEF VerifyStaging, Proceed
    <3> QED BY <1>0, <2>1, <2>2, <3>3 DEF KeptInv
  <2>4. CASE p # "unstage" \/ pc[k] = "unstage"
    BY <1>0, <2>1, <2>2, <2>4 DEF KeptInv
  <2> QED BY <2>1, <2>3, <2>4
<1> QED BY <1>1, <1>2, <1>3, <1>4, <1>5, <1>6 DEF RenameStep, CutOver, LookOn, Breaks

LEMMA NextKeptInv ==
    ASSUME RenameInv, KeptInv, [RenameNext]_renameVars
    PROVE  KeptInv'
<1>1. ASSUME NEW k \in Job, RenameStep(k), NEW j \in Job
      PROVE  /\ pc'[j] = "before" => staged'[j] = {}
             /\ pc'[j] \in BeforeReplace => ~Live(j)'
             /\ pc'[j] = "unstage" => staged'[j] = {}
  <2>2. pc'[j] = "before" => staged'[j] = {}
    BY <1>1, KeptControl, KeptStaged DEF KeptInv
  <2>3. ASSUME pc'[j] \in BeforeReplace PROVE ~Live(j)'
    <3>0. /\ held \in [Target -> SUBSET ((Job \cup {Old}) \X Table)]
          /\ pc \in [Job -> CutOverPhase]
          /\ TargetOf[j] \in Target /\ TargetOf[k] \in Target
      BY DEF RenameInv, RenameTypeOK
    <3>1. ~Live(j)
      BY <1>1, <2>3, KeptControl DEF KeptInv
    <3>2. CASE held' = held
      BY <3>1, <3>2 DEF Live
    <3>3. <<j, Marker>> \in {j} \X Backup[j]
      BY NamesAssumption
    <3>4. CASE Drops(k)
      BY <3>0, <3>1, <3>3, <3>4 DEF Drops, Live
    <3>5. CASE Fills(k)
      <4>1. k # j
        BY <2>3, <3>0, <3>5 DEF Fills, BeforeReplace, BeforeRename
      <4>2. <<j, Marker>> \notin {k} \X Backup[k]
        BY <4>1
      <4> QED BY <3>0, <3>1, <3>3, <3>5, <4>2 DEF Fills, Live
    <3> QED BY <1>1, <3>2, <3>4, <3>5, HeldChange
  <2> QED BY <1>1, <2>2, <2>3, KeptStaged
<1>2. CASE UNCHANGED renameVars
  BY <1>2 DEF renameVars, KeptInv, Live
<1> QED BY <1>1, <1>2 DEF KeptInv, RenameNext, RenameStep

\* What a restore has loaded is whole, staged or live, unless another restore
\* of the target is under way, whichever statements fail, workers die,
\* procedures outlive them, and restores overlap.
THEOREM RestoresAreKept == RenameSpec => RestoreKept
<1>1. RenameInit => KeptInv
  BY InitKeptInv
<1>2. RenameInv /\ KeptInv /\ [RenameNext]_renameVars => KeptInv'
  BY NextKeptInv
<1>3. RenameInv /\ KeptInv /\ [RenameNext]_renameVars => [KeepsRestores]_renameVars
  BY KeptStep DEF RenameNext, RenameStep, KeepsRestores
<1> QED BY <1>1, <1>2, <1>3, RenameInvariant, PTL DEF RenameSpec, RestoreKept

-----------------------------------------------------------------------------
(* Success.                                                                *)

\* Nothing is left of what the target held before.
Cleared(t) == \A x \in Table : <<Old, x>> \notin held[t]

\* A restore past the check or the drop of its target finds it cleared, and one
\* past pre-validation has counted some table.
CountInv ==
    \A j \in Job :
        /\ pc[j] \in {"list", "create", "rename"} \cup AfterRename => Cleared(TargetOf[j])
        /\ pc[j] \in (BeforeRename \ {"start"}) \cup AfterRename => expected[j] # 0

\* No step brings back what a target held before.
LEMMA ClearedStays ==
    ASSUME RenameInv, NEW k \in Job, RenameStep(k), NEW t \in Target, Cleared(t)
    PROVE  Cleared(t)'
<1>0. /\ held \in [Target -> SUBSET ((Job \cup {Old}) \X Table)]
      /\ TargetOf[k] \in Target
  BY DEF RenameInv, RenameTypeOK
<1>1. CASE held' = held
  BY <1>1 DEF Cleared
<1>2. CASE Drops(k)
  BY <1>0, <1>2 DEF Drops, Cleared
<1>3. CASE Fills(k)
  <2>1. \A x : <<Old, x>> \notin {k} \X Backup[k]
    BY NamesAssumption
  <2> QED BY <1>0, <1>3, <2>1 DEF Fills, Cleared
<1> QED BY <1>1, <1>2, <1>3, HeldChange

LEMMA CountOfSome ==
    ASSUME NEW S, S \subseteq Table, S # {}
    PROVE  Cardinality(S) # 0
<1>1. IsFiniteSet(S)
  BY FS_Subset
<1> QED BY <1>1, FS_EmptySet

\* The control and the count of the restore that steps.
LEMMA CountControl ==
    ASSUME RenameInv, CountInv, NEW k \in Job, RenameStep(k)
    PROVE  /\ \A j \in Job \ {k} : expected'[j] = expected[j]
           /\ pc'[k] \in {"list", "create", "rename"} \cup AfterRename =>
                  Cleared(TargetOf[k]) \/ Cleared(TargetOf[k])'
           /\ pc'[k] \in (BeforeRename \ {"start"}) \cup AfterRename => expected'[k] # 0
<1>0. /\ pc \in [Job -> CutOverPhase] /\ staged \in [Job -> SUBSET Table]
      /\ expected \in [Job -> 0 .. Cardinality(Table)]
      /\ held \in [Target -> SUBSET ((Job \cup {Old}) \X Table)]
      /\ \A t \in Target : held[t] # {} => t \in schemas
      /\ TargetOf[k] \in Target
  BY DEF RenameInv, RenameTypeOK
<1> USE DEF Proceed, BeforeRename, AfterRename
<1>1. CASE PrepareStaging(k) \/ LoadStaging(k)
  BY <1>0, <1>1 DEF PrepareStaging, LoadStaging
<1>2. CASE DropTarget(k)
  <2>1. Cleared(TargetOf[k])'
    BY <1>0, <1>2 DEF DropTarget, Cleared
  <2> QED BY <1>0, <1>2, <2>1 DEF DropTarget, CountInv
<1>3. CASE ListTables(k) \/ CreateTarget(k) \/ RenameTables(k) \/ DropStaging(k)
  BY <1>0, <1>3 DEF ListTables, CreateTarget, RenameTables, DropStaging, CountInv
<1>4. CASE PreValidate(k)
  <2>1. Staged(k) => Cardinality(staged[k]) # 0
    BY <1>0, CountOfSome DEF Staged
  <2> QED BY <1>0, <1>4, <2>1 DEF PreValidate
<1>5. CASE CheckVersion(k) \/ TakeDeployLock(k) \/ RecheckVersion(k) \/ DeployProcedure(k)
  BY <1>0, <1>5 DEF CheckVersion, TakeDeployLock, RecheckVersion, DeployProcedure, CountInv
<1>6. CASE CallProcedure(k) \/ CountStaging(k)
  BY <1>0, <1>6 DEF CallProcedure, CountStaging, CountInv
<1>7. CASE CheckTarget(k)
  <2>1. TargetOf[k] \notin schemas => Cleared(TargetOf[k])
    BY <1>0 DEF Cleared
  <2> QED BY <1>0, <1>7, <2>1 DEF CheckTarget, CountInv
<1>8. CASE VerifyTarget(k) \/ VerifyStaging(k) \/ PostValidate(k)
  BY <1>0, <1>8 DEF VerifyTarget, VerifyStaging, PostValidate, CountInv
<1>9. CASE SqlError(k) \/ WorkerDies(k)
  BY <1>0, <1>9 DEF SqlError, WorkerDies, CountInv
<1> QED BY <1>1, <1>2, <1>3, <1>4, <1>5, <1>6, <1>7, <1>8, <1>9 DEF RenameStep, CutOver

LEMMA NextCountInv ==
    ASSUME RenameInv, CountInv, [RenameNext]_renameVars
    PROVE  CountInv'
<1>1. ASSUME NEW k \in Job, RenameStep(k), NEW j \in Job
      PROVE  /\ pc'[j] \in {"list", "create", "rename"} \cup AfterRename => Cleared(TargetOf[j])'
             /\ pc'[j] \in (BeforeRename \ {"start"}) \cup AfterRename => expected'[j] # 0
  <2>1. TargetOf[j] \in Target
    BY RenameTypes
  <2>2. CASE j = k
    BY <1>1, <2>1, <2>2, CountControl, ClearedStays
  <2>3. CASE j # k
    BY <1>1, <2>1, <2>3, CountControl, KeptControl, ClearedStays DEF CountInv
  <2> QED BY <2>2, <2>3
<1>2. CASE UNCHANGED renameVars
  BY <1>2 DEF renameVars, CountInv, Cleared
<1> QED BY <1>1, <1>2 DEF CountInv, RenameNext, RenameStep

\* Success is reported by post-validation only.
LEMMA DoneByPost ==
    ASSUME RenameInv, NEW i \in Job, RenameStep(i), pc[i] # "done", pc'[i] = "done"
    PROVE  pc[i] = "post" /\ held' = held /\ Counted(i)
<1>0. pc \in [Job -> CutOverPhase]
  BY DEF RenameInv, RenameTypeOK
<1> USE DEF Proceed
<1>1. CASE \/ PrepareStaging(i) \/ LoadStaging(i) \/ DropTarget(i) \/ ListTables(i)
           \/ CreateTarget(i) \/ RenameTables(i) \/ DropStaging(i)
  BY <1>0, <1>1 DEF PrepareStaging, LoadStaging, DropTarget, ListTables, CreateTarget,
                    RenameTables, DropStaging
<1>2. CASE \/ PreValidate(i) \/ CheckVersion(i) \/ TakeDeployLock(i) \/ RecheckVersion(i)
           \/ DeployProcedure(i) \/ CallProcedure(i) \/ CountStaging(i) \/ CheckTarget(i)
  BY <1>0, <1>2 DEF PreValidate, CheckVersion, TakeDeployLock, RecheckVersion,
                    DeployProcedure, CallProcedure, CountStaging, CheckTarget
<1>3. CASE VerifyTarget(i) \/ VerifyStaging(i) \/ SqlError(i) \/ WorkerDies(i)
  BY <1>0, <1>3 DEF VerifyTarget, VerifyStaging, SqlError, WorkerDies
<1>4. CASE PostValidate(i)
  BY <1>0, <1>4 DEF PostValidate, schemaVars
<1> QED BY <1>1, <1>2, <1>3, <1>4 DEF RenameStep, CutOver

\* However restores of one target overlap and whatever fails, dies or outlives
\* its worker, one that reports success does so over a whole restore.
THEOREM ReportedIsLive == RenameSpec => SuccessIsLive
<1>1. RenameInit => CountInv
  BY DEF RenameInit, CountInv, BeforeRename, AfterRename
<1>2. RenameInv /\ CountInv /\ [RenameNext]_renameVars => CountInv'
  BY NextCountInv
<1>3. RenameInv /\ CountInv /\ [RenameNext]_renameVars =>
        [\A j \in Job : pc[j] # "done" /\ pc'[j] = "done" =>
            \E k \in Job : TargetOf[k] = TargetOf[j] /\ Live(k)']_renameVars
  <2>1. ASSUME RenameInv, CountInv, NEW k \in Job, RenameStep(k), NEW j \in Job,
               pc[j] # "done", pc'[j] = "done"
        PROVE  \E h \in Job : TargetOf[h] = TargetOf[j] /\ Live(h)'
    <3> DEFINE t == TargetOf[j]
    <3>0. t \in Target /\ Before[t] \subseteq Table
      BY RenameTypes
    <3>1. j = k
      BY <2>1, KeptControl
    <3>2. pc[j] = "post" /\ held' = held /\ Counted(j)
      BY <2>1, <3>1, DoneByPost
    <3>3. Cleared(t) /\ expected[j] # 0
      BY <2>1, <3>2 DEF CountInv, AfterRename
    <3>4. held[t] # {}
      BY <3>2, <3>3, FS_EmptySet DEF Counted
    <3>5. held[t] # {Old} \X Before[t]
      <4>1. ASSUME held[t] = {Old} \X Before[t] PROVE FALSE
        <5>1. PICK x \in Before[t] : TRUE
          BY <3>4, <4>1
        <5>2. <<Old, x>> \in held[t]
          BY <4>1, <5>1
        <5> QED BY <3>0, <3>3, <5>1, <5>2 DEF Cleared
      <4> QED BY <4>1
    <3>6. PICK h \in Job : TargetOf[h] = t /\ held[t] = {h} \X Backup[h]
      BY <2>1, <3>0, <3>4, <3>5 DEF RenameInv, TargetWhole
    <3> QED BY <3>2, <3>6 DEF Live
  <2> QED BY <2>1 DEF RenameNext, RenameStep
<1> QED BY <1>1, <1>2, <1>3, RenameInvariant, PTL DEF RenameSpec, SuccessIsLive
=============================================================================
