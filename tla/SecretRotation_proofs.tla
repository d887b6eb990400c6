------------------------ MODULE SecretRotation_proofs ------------------------
(***************************************************************************)
(* However many administrators rotate one host at a time, and whatever     *)
(* fails or dies on the way: a drift between MySQL and AWS that remains is *)
(* reported by one of the rotations.                                       *)
(*                                                                         *)
(* DriftIsReported speaks of rotations at rest.  What is inductive says,   *)
(* of every state, which rotation still has to find a drift: one between   *)
(* its ALTER USER and its verification, or between its write to AWS and    *)
(* its last test.                                                          *)
(***************************************************************************)
EXTENDS SecretRotation, TLAPS

\* A rotation that has reported a failure, or has begun to roll back.
Doomed(r) == outcome[r] \in Reported \/ rot[r].call # "set"

\* A rotation that will compare what it has written once more.
WillLook(r) ==
    \/ rot[r].at \in {"flush", "verify", "put"} /\ actual = r
    \/ rot[r].at \in {"fetch", "test"} /\ stored = r

DriftExplained ==
    \/ stored = actual
    \/ \E r \in Rotation : Doomed(r) \/ WillLook(r)

\* Only ALTER USER is ever rolled back, and a rollback is reported.
RollbackPhases ==
    \A r \in Rotation :
        rot[r].call # "set" => \/ rot[r].at \in {"connect", "alter", "flush"}
                               \/ rot[r].at = "done" /\ outcome[r] \in Reported

RotInv == RotTypeOK /\ RollbackPhases /\ DriftExplained

-----------------------------------------------------------------------------

LEMMA InitRotInv == RotInit => RotInv
<1> SUFFICES ASSUME RotInit PROVE RotInv
  OBVIOUS
<1> USE DEF RotInit
<1>1. RotTypeOK
  BY RotationNames, FaultBound DEF RotTypeOK, Password, RotPhase, Call, Reported
<1>2. RollbackPhases
  BY DEF RollbackPhases
<1>3. DriftExplained
  BY DEF DriftExplained
<1> QED BY <1>1, <1>2, <1>3 DEF RotInv

RotRecord == [at : RotPhase, call : Call, old : Password]
Rollback == {"connect", "alter", "flush"}

\* What a step of one rotation has to keep of it.
LocalOK ==
    /\ rot \in [Rotation -> RotRecord]
    /\ outcome \in [Rotation -> Reported \cup {"none", "success"}]
    /\ \A s \in Rotation : rot[s].at = "done" <=> outcome[s] # "none"
    /\ RollbackPhases

\* A rotation goes on.
LEMMA GoesOn ==
    ASSUME LocalOK, NEW r \in Rotation, rot[r].at # "done", NEW x \in RotRecord, x.at # "done",
           x.call # "set" => x.at \in Rollback,
           rot' = [rot EXCEPT ![r] = x], UNCHANGED outcome
    PROVE  LocalOK'
BY DEF LocalOK, RollbackPhases, Rollback

\* A rotation goes on with the same call.
LEMMA StepKeeps ==
    ASSUME LocalOK, NEW r \in Rotation, rot[r].at # "done", NEW at \in RotPhase \ {"done"},
           rot[r].call = "set" \/ at \in Rollback, Step(r, at)
    PROVE  LocalOK'
<1> DEFINE x == [rot[r] EXCEPT !.at = at]
<1>1. rot[r] \in RotRecord
  BY DEF LocalOK
<1>2. x \in RotRecord /\ x.at = at /\ x.call = rot[r].call
  BY <1>1 DEF RotRecord
<1>3. rot' = [rot EXCEPT ![r] = x] /\ UNCHANGED outcome
  BY DEF Step
<1> HIDE DEF x
<1>4. x.at # "done" /\ (x.call # "set" => x.at \in Rollback)
  BY <1>2
<1> QED BY <1>2, <1>3, <1>4, GoesOn

\* A rotation goes on to log in again, to undo its change.
LEMMA UndoKeeps ==
    ASSUME LocalOK, NEW r \in Rotation, rot[r].at # "done", NEW call \in Call,
           rot' = [rot EXCEPT ![r].at = "connect", ![r].call = call], UNCHANGED outcome
    PROVE  LocalOK'
<1> DEFINE x == [rot[r] EXCEPT !.at = "connect", !.call = call]
<1>1. rot[r] \in RotRecord
  BY DEF LocalOK
<1>2. x \in RotRecord /\ x.at = "connect"
  BY <1>1 DEF RotRecord, RotPhase
<1>3. rot' = [rot EXCEPT ![r] = x]
  OBVIOUS
<1> HIDE DEF x
<1> QED BY <1>2, <1>3, GoesOn DEF Rollback

\* A rotation returns.
LEMMA EndKeeps ==
    ASSUME LocalOK, NEW r \in Rotation, NEW o \in Reported \cup {"success"},
           rot[r].call # "set" => o \in Reported, Ends(r, o)
    PROVE  LocalOK'
<1>1. rot[r] \in RotRecord /\ "done" \in RotPhase /\ o # "none"
  BY DEF LocalOK, RotPhase, Reported
<1>2. /\ rot' \in [Rotation -> RotRecord]
      /\ rot'[r].at = "done" /\ rot'[r].call = rot[r].call /\ outcome'[r] = o
      /\ \A s \in Rotation \ {r} : rot'[s] = rot[s] /\ outcome'[s] = outcome[s]
  BY <1>1 DEF LocalOK, Ends, RotRecord
<1>3. outcome' \in [Rotation -> Reported \cup {"none", "success"}]
  BY DEF LocalOK, Ends
<1> QED BY <1>1, <1>2, <1>3 DEF LocalOK, RollbackPhases

LEMMA FailureKeeps ==
    ASSUME LocalOK, NEW r \in Rotation, rot[r].at # "done", AlterFails(r)
    PROVE  LocalOK'
<1>1. CASE rot[r].call = "undo"
  <2>1. rot' = [rot EXCEPT ![r].at = "connect", ![r].call = "again"] /\ UNCHANGED outcome
    BY <1>1 DEF AlterFails
  <2> QED BY <2>1, UndoKeeps DEF Call
<1>2. CASE rot[r].call # "undo"
  <2>1. \E o \in Reported : Ends(r, o)
    BY <1>2 DEF AlterFails, Reported
  <2> QED BY <2>1, EndKeeps
<1> QED BY <1>1, <1>2

\* A step of one rotation keeps the types and the phases of a rollback.
LEMMA TypeStep ==
    ASSUME RotInv, NEW r \in Rotation, RotStep(r)
    PROVE  RotTypeOK' /\ RollbackPhases'
<1>0. /\ LocalOK /\ rot[r].old \in Password /\ r \in Password
      /\ actual \in Password /\ stored \in Password /\ faults \in 0..MaxFaults
      /\ rot[r].call # "set" => rot[r].at \in Rollback \cup {"done"}
  BY DEF RotInv, RotTypeOK, LocalOK, RotRecord, Rollback, RollbackPhases, Password
<1>1. faults' \in 0..MaxFaults
  <2>1. UNCHANGED faults \/ Fault
    BY DEF RotStep, Begin, Validate, Connect, Alter, Flush, Verify, Put, Fetch, Test, Dies
  <2> QED BY <1>0, <2>1, FaultBound DEF Fault
<1>2. actual' \in Password /\ stored' \in Password
  <2>1. actual' \in {actual, NewPassword(r)} /\ stored' \in {stored, r}
    BY DEF RotStep, Begin, Validate, Connect, Alter, Flush, Verify, Put, Fetch, Test, Dies
  <2> QED BY <1>0, <2>1 DEF NewPassword
<1>3. LocalOK'
  <2>1. CASE Begin(r)
    <3>1. rot[r].at = "idle"
      BY <2>1 DEF Begin
    <3>2. CASE Ends(r, "invalid")
      BY <1>0, <3>2, EndKeeps DEF Reported
    <3>3. CASE rot' = [rot EXCEPT ![r].at = "validate", ![r].old = stored] /\ UNCHANGED outcome
      <4> DEFINE x == [rot[r] EXCEPT !.at = "validate", !.old = stored]
      <4>1. rot[r] \in RotRecord /\ rot[r].call = "set"
        BY <1>0, <3>1 DEF LocalOK, Rollback
      <4>2. x \in RotRecord /\ x.at = "validate" /\ x.call = "set"
        BY <1>0, <4>1 DEF RotRecord, RotPhase
      <4>3. rot' = [rot EXCEPT ![r] = x]
        BY <3>3
      <4> HIDE DEF x
      <4> QED BY <1>0, <3>1, <3>3, <4>2, <4>3, GoesOn
    <3> QED BY <2>1, <3>2, <3>3 DEF Begin
  <2>2. CASE Validate(r)
    <3>1. rot[r].at = "validate" /\ (Step(r, "connect") \/ Ends(r, "invalid"))
      BY <2>2 DEF Validate
    <3> QED BY <1>0, <3>1, StepKeeps, EndKeeps DEF RotPhase, Rollback, Reported
  <2>3. CASE Connect(r) \/ Alter(r)
    <3>1. rot[r].at \in {"connect", "alter"} /\ (Step(r, "alter") \/ Step(r, "flush") \/ AlterFails(r))
      BY <2>3 DEF Connect, Alter
    <3> QED BY <1>0, <3>1, StepKeeps, FailureKeeps DEF RotPhase, Rollback
  <2>4. CASE Flush(r)
    <3>1. /\ rot[r].at = "flush"
          /\ \/ rot[r].call = "set" /\ Step(r, "verify")
             \/ Ends(r, "rolled_back")
             \/ AlterFails(r)
      BY <2>4 DEF Flush
    <3> QED BY <1>0, <3>1, StepKeeps, EndKeeps, FailureKeeps DEF RotPhase, Reported
  <2>5. CASE Verify(r)
    <3>1. /\ rot[r].at = "verify"
          /\ \/ Step(r, "put")
             \/ rot' = [rot EXCEPT ![r].at = "connect", ![r].call = "undo"] /\ UNCHANGED outcome
      BY <2>5 DEF Verify
    <3>2. rot[r].call = "set"
      BY <1>0, <3>1 DEF Rollback
    <3>3. CASE Step(r, "put")
      BY <1>0, <3>1, <3>2, <3>3, StepKeeps DEF RotPhase
    <3> QED BY <1>0, <3>1, <3>3, UndoKeeps DEF Call
  <2>6. CASE Put(r) \/ Fetch(r)
    <3>1. /\ rot[r].at \in {"put", "fetch"}
          /\ \E at \in {"fetch", "test"}, o \in {"aws_update", "final_verify"} : Step(r, at) \/ Ends(r, o)
      BY <2>6 DEF Put, Fetch
    <3>2. rot[r].call = "set"
      BY <1>0, <3>1 DEF Rollback
    <3> QED BY <1>0, <3>1, <3>2, StepKeeps, EndKeeps DEF RotPhase, Reported
  <2>7. CASE Test(r)
    <3>1. rot[r].at = "test" /\ \E o \in {"success", "final_verify"} : Ends(r, o)
      BY <2>7 DEF Test
    <3>2. rot[r].call = "set"
      BY <1>0, <3>1 DEF Rollback
    <3> QED BY <1>0, <3>1, <3>2, EndKeeps DEF Reported
  <2>8. CASE Dies(r)
    BY <1>0, <2>8, EndKeeps DEF Dies, Reported
  <2> QED BY <2>1, <2>2, <2>3, <2>4, <2>5, <2>6, <2>7, <2>8 DEF RotStep
<1> QED BY <1>1, <1>2, <1>3 DEF LocalOK, RotTypeOK, RotRecord

\* A step of one rotation leaves the others as they are.
LEMMA OthersKept ==
    ASSUME RotTypeOK, NEW r \in Rotation, RotStep(r), NEW s \in Rotation, s # r
    PROVE  rot'[s] = rot[s] /\ outcome'[s] = outcome[s]
BY DEF RotTypeOK, RotStep, Begin, Validate, Connect, Alter, Flush, Verify, Put, Fetch, Test,
       Dies, Ends, Step, AlterFails

\* What a rotation that is not doomed does to the passwords, and where it goes.
LEMMA OwnStep ==
    ASSUME RotInv, NEW r \in Rotation, RotStep(r), ~Doomed(r), ~Doomed(r)'
    PROVE  \/ UNCHANGED <<actual, stored>> /\ (WillLook(r) => WillLook(r)' \/ stored = actual)
           \/ WillLook(r)'
<1> USE DEF RotInv, RotTypeOK, Doomed, WillLook, Reported
<1>1. CASE Begin(r)
  BY <1>1 DEF Begin, Ends
<1>2. CASE Validate(r)
  BY <1>2 DEF Validate, Ends, Step
<1>3. CASE Connect(r)
  BY <1>3 DEF Connect, Ends, Step, AlterFails
<1>4. CASE Alter(r)
  BY <1>4 DEF Alter, Ends, Step, AlterFails, NewPassword
<1>5. CASE Flush(r)
  BY <1>5 DEF Flush, Ends, Step, AlterFails
<1>6. CASE Verify(r)
  BY <1>6 DEF Verify, Step
<1>7. CASE Put(r)
  BY <1>7 DEF Put, Ends, Step
<1>8. CASE Fetch(r)
  BY <1>8 DEF Fetch, Ends, Step
<1>9. CASE Test(r)
  BY <1>9 DEF Test, Ends
<1>10. CASE Dies(r)
  BY <1>10 DEF Dies, Ends
<1> QED BY <1>1, <1>2, <1>3, <1>4, <1>5, <1>6, <1>7, <1>8, <1>9, <1>10 DEF RotStep

\* Once doomed, always doomed.
LEMMA DoomStays ==
    ASSUME RotInv, NEW r \in Rotation, RotStep(r), NEW s \in Rotation, Doomed(s)
    PROVE  Doomed(s)'
<1>1. CASE s # r
  BY <1>1, OthersKept DEF Doomed, RotInv
<1>2. CASE s = r
  <2> USE <1>2 DEF RotInv, RotTypeOK, RollbackPhases, Doomed, Reported
  <2>1. rot[r].at # "done"
    BY DEF RotStep, Begin, Validate, Connect, Alter, Flush, Verify, Put, Fetch, Test, Dies
  <2>2. rot[r].call # "set" /\ rot[r].at \in {"connect", "alter", "flush"}
    BY <2>1
  <2>3. Connect(r) \/ Alter(r) \/ Flush(r) \/ Dies(r)
    BY <2>2 DEF RotStep, Begin, Validate, Verify, Put, Fetch, Test
  <2> QED BY <2>2, <2>3 DEF Connect, Alter, Flush, Dies, Ends, Step, AlterFails, Call
<1> QED BY <1>1, <1>2

LEMMA DriftStep ==
    ASSUME RotInv, NEW r \in Rotation, RotStep(r)
    PROVE  DriftExplained'
<1>1. CASE \E s \in Rotation : Doomed(s) \/ Doomed(s)'
  BY <1>1, DoomStays DEF DriftExplained
<1>2. CASE \A s \in Rotation : ~Doomed(s) /\ ~Doomed(s)'
  <2>1. CASE WillLook(r)'
    BY <2>1 DEF DriftExplained
  <2>2. CASE UNCHANGED <<actual, stored>> /\ (WillLook(r) => WillLook(r)' \/ stored = actual)
    <3>1. CASE stored = actual
      BY <3>1, <2>2 DEF DriftExplained
    <3>2. CASE \E s \in Rotation : WillLook(s)
      <4>1. PICK s \in Rotation : WillLook(s)
        BY <3>2
      <4>2. CASE s = r
        BY <4>1, <4>2, <2>2, <2>1, <3>1
      <4>3. CASE s # r
        BY <4>1, <4>3, <2>2, OthersKept DEF WillLook, DriftExplained, RotInv
      <4> QED BY <4>2, <4>3
    <3> QED BY <3>1, <3>2, <1>2 DEF RotInv, DriftExplained
  <2> QED BY <1>2, <2>1, <2>2, OwnStep
<1> QED BY <1>1, <1>2

LEMMA NextRotInv == RotInv /\ [RotNext]_rotVars => RotInv'
<1> SUFFICES ASSUME RotInv, [RotNext]_rotVars PROVE RotInv'
  OBVIOUS
<1>1. CASE RotNext
  BY <1>1, TypeStep, DriftStep DEF RotNext, RotInv
<1>2. CASE UNCHANGED rotVars
  BY <1>2 DEF rotVars, RotInv, RotTypeOK, RollbackPhases, DriftExplained, Doomed, WillLook
<1> QED BY <1>1, <1>2 DEF RotNext

-----------------------------------------------------------------------------
(* One rotation alone *)

\* What a rotation knows of the two passwords when no other has begun: it keeps
\* the one that AWS has until it writes there, and undoes its change with it.
InStepAt(r) ==
    /\ rot[r].at \in {"idle", "fetch", "test"} => stored = actual
    /\ rot[r].at = "validate" => stored = actual /\ rot[r].old = stored
    /\ rot[r].at \in {"connect", "alter", "flush", "verify"} => stored = rot[r].old
    /\ rot[r].at = "flush" => actual = NewPassword(r)
    /\ rot[r].at \in {"verify", "put"} => actual = r
    /\ rot[r].at = "done" /\ outcome[r] \notin ManualFix \cup {"mysql_update"} => stored = actual

AloneInStep == \A r \in Rotation : Alone(r) => InStepAt(r)

\* A rotation that has begun is never idle again.
LEMMA NeverIdle ==
    ASSUME RotTypeOK, NEW r \in Rotation, RotStep(r)
    PROVE  rot'[r].at # "idle"
BY DEF RotTypeOK, RotStep, Begin, Validate, Connect, Alter, Flush, Verify, Put, Fetch, Test,
       Dies, Ends, Step, AlterFails

LEMMA AloneStep ==
    ASSUME RotInv, NEW r \in Rotation, RotStep(r), InStepAt(r)
    PROVE  InStepAt(r)'
<1> USE DEF InStepAt, RotInv, RotTypeOK, ManualFix
<1>1. CASE Begin(r)
  BY <1>1 DEF Begin, Ends
<1>2. CASE Validate(r)
  BY <1>2 DEF Validate, Ends, Step
<1>3. CASE Connect(r)
  BY <1>3 DEF Connect, Ends, Step, AlterFails
<1>4. CASE Alter(r)
  BY <1>4 DEF Alter, Ends, Step, AlterFails, NewPassword
<1>5. CASE Flush(r)
  BY <1>5 DEF Flush, Ends, Step, AlterFails, NewPassword
<1>6. CASE Verify(r)
  BY <1>6 DEF Verify, Step
<1>7. CASE Put(r)
  BY <1>7 DEF Put, Ends, Step
<1>8. CASE Fetch(r)
  BY <1>8 DEF Fetch, Ends, Step
<1>9. CASE Test(r)
  BY <1>9 DEF Test, Ends
<1>10. CASE Dies(r)
  BY <1>10 DEF Dies, Ends
<1> QED BY <1>1, <1>2, <1>3, <1>4, <1>5, <1>6, <1>7, <1>8, <1>9, <1>10 DEF RotStep

LEMMA NextAloneInStep == RotInv /\ AloneInStep /\ [RotNext]_rotVars => AloneInStep'
<1> SUFFICES ASSUME RotInv, AloneInStep, [RotNext]_rotVars, NEW r \in Rotation, Alone(r)'
             PROVE  InStepAt(r)'
  BY DEF AloneInStep
<1>1. CASE UNCHANGED rotVars
  BY <1>1 DEF rotVars, AloneInStep, Alone, InStepAt, NewPassword
<1>2. ASSUME NEW s \in Rotation, RotStep(s) PROVE InStepAt(r)'
  <2>1. s = r
    BY <1>2, NeverIdle DEF Alone, RotInv
  <2>2. Alone(r)
    BY <1>2, <2>1, OthersKept DEF Alone, RotInv
  <2> QED BY <1>2, <2>1, <2>2, AloneStep DEF AloneInStep
<1> QED BY <1>1, <1>2 DEF RotNext

-----------------------------------------------------------------------------

LEMMA InvariantHolds == RotSpec => []RotInv
BY InitRotInv, NextRotInv, PTL DEF RotSpec

\* The types of the rotations' local state, for any number of rotations and
\* faults; a rotation has a result exactly when it has returned.
THEOREM RotTypeCorrect == RotSpec => []RotTypeOK
<1>1. RotInv => RotTypeOK
  BY DEF RotInv
<1> QED BY <1>1, InvariantHolds, PTL

\* rotate_host_secret by any number of administrators at a time: when all have
\* returned and MySQL refuses what AWS has stored, one of them says so.
THEOREM NoSilentDrift == RotSpec => []DriftIsReported
<1>1. RotInv => DriftIsReported
  BY DEF RotInv, RollbackPhases, DriftExplained, DriftIsReported, AtRest, Doomed, WillLook
<1> QED BY <1>1, InvariantHolds, PTL

\* A rotation that no other overlaps leaves MySQL with the password AWS has,
\* whatever failed on the way, unless its result asks for a manual fix or says
\* that the change of the password in MySQL failed.
THEOREM AloneEndsInStep == RotSpec => []QuietEndInStep
<1>1. RotInit => AloneInStep
  BY DEF RotInit, AloneInStep, InStepAt
<1>2. RotInv /\ AloneInStep => QuietEndInStep
  BY DEF RotInv, RotTypeOK, AloneInStep, InStepAt, QuietEndInStep
<1> QED BY <1>1, <1>2, NextAloneInStep, InvariantHolds, PTL DEF RotSpec
=============================================================================
