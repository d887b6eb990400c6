--------------------------- MODULE Overlord_proofs ---------------------------
(***************************************************************************)
(* For any number of jobs, requests, hosts and outside writes: an active   *)
(* claim has its job and a synced one its host, and no request takes over  *)
(* or releases the active claim of a job it has not read.                  *)
(***************************************************************************)
EXTENDS Overlord, TLAPS

ReqRecord == [at : ReqPhase, job : Deployer \cup {Unset}, action : Action, saw : Routing, seen : TrackingRow]

TrackingOK ==
    /\ tracking \in TrackingRow
    /\ tracking.status \in {"claimed", "synced"} <=> tracking.job # Unset
    /\ tracking.status = "synced" => tracking.current # Unset

\* A request that deals with a job has it.
Sound(x) == x \in ReqRecord /\ (x.at \notin {"idle", "list", "purge"} => x.job \in Deployer)
ReqOK == req \in [Request -> ReqRecord] /\ \A q \in Request : Sound(req[q])

WorldOK == row \in Routing /\ own \in BOOLEAN /\ deployed \subseteq Deployer /\ outside \in 0..MaxOutside

OverlordInv == TrackingOK /\ ReqOK /\ WorldOK

-----------------------------------------------------------------------------

LEMMA QuietSound ==
    /\ NoTracking \in TrackingRow /\ Quiet \in ReqRecord /\ Sound(Quiet)
    /\ NoTracking.status = "none" /\ NoTracking.job = Unset
<1>1. NoTracking \in TrackingRow /\ NoTracking.status = "none" /\ NoTracking.job = Unset
  BY DEF NoTracking, TrackingRow, Status, Routing
<1>2. Quiet \in ReqRecord /\ Quiet.at = "idle"
  BY <1>1 DEF Quiet, Routing, ReqRecord, ReqPhase, Action
<1> QED BY <1>1, <1>2 DEF Sound

LEMMA InitOverlordInv ==
    ASSUME OverlordInit
    PROVE  OverlordInv
<1>1. TrackingOK
  BY QuietSound DEF OverlordInit, TrackingOK
<1>2. ReqOK
  BY QuietSound DEF OverlordInit, ReqOK
<1>3. WorldOK
  <2>1. own \in BOOLEAN
    BY Zenon DEF OverlordInit
  <2>2. row \in Routing /\ deployed \subseteq Deployer /\ outside \in 0..MaxOutside
    BY OverlordAssumption DEF OverlordInit, Routing
  <2> QED BY <2>1, <2>2 DEF WorldOK
<1> QED BY <1>1, <1>2, <1>3 DEF OverlordInv

LEMMA ReqStep ==
    ASSUME ReqOK, NEW q \in Request, NEW x, Sound(x), req' = [req EXCEPT ![q] = x]
    PROVE  ReqOK'
BY DEF ReqOK, Sound

\* A request goes on with what it has, keeps only its job, or ends.
LEMMA GoesOn ==
    ASSUME ReqOK, NEW q \in Request,
           \/ Return(q)
           \/ \E at \in {"idle", "list", "purge"} : Enter(q, at)
           \/ req[q].at \notin {"idle", "list", "purge"} /\ \E at \in ReqPhase : Enter(q, at) \/ Move(q, at)
    PROVE  ReqOK'
<1>0. req[q] \in ReqRecord /\ Sound(req[q])
  BY DEF ReqOK
<1>1. CASE Return(q)
  BY <1>1, QuietSound, ReqStep DEF Return
<1>2. ASSUME NEW at \in ReqPhase, Enter(q, at),
             at \in {"idle", "list", "purge"} \/ req[q].at \notin {"idle", "list", "purge"}
      PROVE  ReqOK'
  <2> DEFINE x == [req[q] EXCEPT !.at = at]
  <2>1. Sound(x)
    BY <1>0, <1>2 DEF Sound, ReqRecord
  <2>2. req' = [req EXCEPT ![q] = x]
    BY <1>2 DEF Enter
  <2> HIDE DEF x
  <2> QED BY <2>1, <2>2, ReqStep
<1>3. ASSUME NEW at \in ReqPhase, Move(q, at), req[q].at \notin {"idle", "list", "purge"}
      PROVE  ReqOK'
  <2> DEFINE x == [Quiet EXCEPT !.at = at, !.job = req[q].job]
  <2>1. Sound(x)
    BY <1>0, <1>3, QuietSound DEF Sound, ReqRecord
  <2>2. req' = [req EXCEPT ![q] = x]
    BY <1>3 DEF Move
  <2> HIDE DEF x
  <2> QED BY <2>1, <2>2, ReqStep
<1>4. {"idle", "list", "purge"} \subseteq ReqPhase
  BY DEF ReqPhase
<1> QED BY <1>1, <1>2, <1>3, <1>4

\* claim: what it reads and what it writes.
LEMMA ClaimTypes ==
    ASSUME OverlordInv, NEW q \in Request, ClaimRead(q) \/ ClaimSnapshot(q) \/ ClaimCreate(q)
    PROVE  OverlordInv'
<1>0. TrackingOK /\ ReqOK /\ WorldOK /\ req[q] \in ReqRecord /\ Sound(req[q])
  BY DEF OverlordInv, ReqOK
<1>1. CASE ClaimRead(q)
  <2>1. PICK j \in deployed : req' = [req EXCEPT ![q].at = "snapshot", ![q].job = j]
    BY <1>1 DEF ClaimRead
  <2> DEFINE x == [req[q] EXCEPT !.at = "snapshot", !.job = j]
  <2>2. Sound(x)
    BY <1>0 DEF Sound, ReqRecord, ReqPhase, WorldOK
  <2>3. req' = [req EXCEPT ![q] = x]
    BY <2>1
  <2> HIDE DEF x
  <2>4. ReqOK'
    BY <1>0, <2>2, <2>3, ReqStep
  <2> QED BY <1>0, <1>1, <2>4 DEF ClaimRead, OverlordInv, TrackingOK, WorldOK
<1>2. CASE ClaimSnapshot(q)
  <2> DEFINE x == [req[q] EXCEPT !.at = "create", !.saw = row]
  <2>2. Sound(x)
    BY <1>0, <1>2 DEF Sound, ReqRecord, ReqPhase, WorldOK, ClaimSnapshot
  <2>3. req' = [req EXCEPT ![q] = x]
    BY <1>2 DEF ClaimSnapshot
  <2> HIDE DEF x
  <2>4. ReqOK'
    BY <1>0, <2>2, <2>3, ReqStep
  <2> QED BY <1>0, <1>2, <2>4 DEF ClaimSnapshot, OverlordInv, TrackingOK, WorldOK
<1>3. CASE ClaimCreate(q)
  <2>1. ReqOK'
    BY <1>0, <1>3, GoesOn DEF ClaimCreate
  <2>2. req[q].job \in Deployer /\ req[q].saw \in Routing
    BY <1>0, <1>3 DEF ClaimCreate, Sound, ReqRecord
  <2>3. CASE tracking' = tracking
    BY <1>0, <1>3, <2>1, <2>3 DEF ClaimCreate, OverlordInv, TrackingOK, WorldOK
  <2>4. CASE tracking' = [tracking EXCEPT !.status = "claimed", !.job = req[q].job,
                                          !.existed = req[q].saw # Absent, !.previous = req[q].saw]
    <3>1. (req[q].saw # Absent) \in BOOLEAN
      OBVIOUS
    <3>2. TrackingOK'
      BY OverlordAssumption, <1>0, <2>2, <2>4, <3>1 DEF TrackingOK, TrackingRow, Status
    <3> QED BY <1>0, <1>3, <2>1, <3>2 DEF ClaimCreate, OverlordInv, WorldOK
  <2> QED BY <1>3, <2>3, <2>4 DEF ClaimCreate
<1> QED BY <1>1, <1>2, <1>3

LEMMA SyncTypes ==
    ASSUME OverlordInv, NEW q \in Request,
           SyncRead(q) \/ SyncExists(q) \/ SyncWrite(q) \/ SyncMark(q) \/ AddCompany(q) \/ RemoveCompany(q)
    PROVE  OverlordInv'
<1>0. TrackingOK /\ ReqOK /\ WorldOK /\ req[q] \in ReqRecord /\ Sound(req[q])
  BY DEF OverlordInv, ReqOK
<1>1. CASE SyncRead(q)
  <2> DEFINE x == [req[q] EXCEPT !.at = "exists", !.job = tracking.job]
  <2>2. Sound(x)
    BY <1>0, <1>1 DEF Sound, ReqRecord, ReqPhase, TrackingOK, TrackingRow, SyncRead, IsActive
  <2>3. req' = [req EXCEPT ![q] = x]
    BY <1>1 DEF SyncRead
  <2> HIDE DEF x
  <2>4. ReqOK'
    BY <1>0, <2>2, <2>3, ReqStep
  <2> QED BY <1>0, <1>1, <2>4 DEF SyncRead, OverlordInv, TrackingOK, WorldOK
<1>2. CASE SyncExists(q)
  <2> DEFINE x == [req[q] EXCEPT !.at = "write", !.saw = row]
  <2>2. Sound(x)
    BY <1>0, <1>2 DEF Sound, ReqRecord, ReqPhase, WorldOK, SyncExists
  <2>3. req' = [req EXCEPT ![q] = x]
    BY <1>2 DEF SyncExists
  <2> HIDE DEF x
  <2>4. ReqOK'
    BY <1>0, <2>2, <2>3, ReqStep
  <2> QED BY <1>0, <1>2, <2>4 DEF SyncExists, OverlordInv, TrackingOK, WorldOK
<1>3. CASE SyncWrite(q) \/ AddCompany(q) \/ RemoveCompany(q)
  <2>1. req[q].job \in Deployer /\ DbHost[req[q].job] \in Host
    BY OverlordAssumption, <1>0, <1>3 DEF SyncWrite, AddCompany, RemoveCompany, Sound
  <2>2. ReqOK'
    BY <1>0, <1>3, GoesOn DEF SyncWrite, AddCompany, RemoveCompany, ReqPhase
  <2>3. row' \in Routing /\ own' \in BOOLEAN
    BY <1>0, <1>3, <2>1 DEF SyncWrite, AddCompany, RemoveCompany, WorldOK, Routing
  <2> QED BY <1>0, <1>3, <2>2, <2>3 DEF SyncWrite, AddCompany, RemoveCompany, OverlordInv, TrackingOK, WorldOK
<1>4. CASE SyncMark(q)
  <2>1. req[q].job \in Deployer /\ DbHost[req[q].job] \in Host
    BY OverlordAssumption, <1>0, <1>4 DEF SyncMark, Sound
  <2>2. ReqOK'
    BY <1>0, <1>4, GoesOn DEF SyncMark
  <2>3. CASE tracking' = tracking
    BY <1>0, <1>4, <2>2, <2>3 DEF SyncMark, OverlordInv, TrackingOK, WorldOK
  <2>4. CASE IsActive(tracking) /\ tracking' = [tracking EXCEPT !.status = "synced", !.current = DbHost[req[q].job]]
    <3>1. TrackingOK'
      BY OverlordAssumption, <1>0, <2>1, <2>4 DEF TrackingOK, TrackingRow, Status, IsActive
    <3> QED BY <1>0, <1>4, <2>2, <3>1 DEF SyncMark, OverlordInv, WorldOK
  <2> QED BY <1>4, <2>3, <2>4 DEF SyncMark
<1> QED BY <1>1, <1>2, <1>3, <1>4

LEMMA ReleaseTypes ==
    ASSUME OverlordInv, NEW q \in Request,
           \/ ReleaseRead(q) \/ CleanupOnJobDelete(q) \/ ReleaseAgain(q) \/ VerifyExternalState(q)
           \/ ReleaseApply(q) \/ ReleaseCheck(q) \/ ReleaseDelete(q) \/ UpdateReleased(q)
    PROVE  OverlordInv'
<1>0. TrackingOK /\ ReqOK /\ WorldOK /\ req[q] \in ReqRecord /\ Sound(req[q])
  BY DEF OverlordInv, ReqOK
<1>1. CASE ReleaseRead(q)
  <2>1. PICK a \in Action : req' = [req EXCEPT ![q].at = "verify", ![q].job = tracking.job,
                                               ![q].action = a, ![q].seen = tracking]
    BY <1>1 DEF ReleaseRead
  <2> DEFINE x == [req[q] EXCEPT !.at = "verify", !.job = tracking.job, !.action = a, !.seen = tracking]
  <2>2. tracking.job \in Deployer
    BY <1>0, <1>1 DEF TrackingOK, TrackingRow, ReleaseRead, IsActive
  <2>3. Sound(x)
    BY <1>0, <2>2 DEF Sound, ReqRecord, ReqPhase, TrackingOK
  <2>4. req' = [req EXCEPT ![q] = x]
    BY <2>1
  <2> HIDE DEF x
  <2>5. ReqOK'
    BY <1>0, <2>3, <2>4, ReqStep
  <2> QED BY <1>0, <1>1, <2>5 DEF ReleaseRead, OverlordInv, TrackingOK, WorldOK
<1>2. CASE CleanupOnJobDelete(q)
  <2>1. PICK a \in Action : req' = [req EXCEPT ![q].at = "release", ![q].job = tracking.job, ![q].action = a]
    BY <1>2 DEF CleanupOnJobDelete, Action
  <2> DEFINE x == [req[q] EXCEPT !.at = "release", !.job = tracking.job, !.action = a]
  <2>2. tracking.job \in Deployer
    BY <1>0, <1>2 DEF TrackingOK, TrackingRow, CleanupOnJobDelete, IsActive
  <2>3. Sound(x)
    BY <1>0, <2>2 DEF Sound, ReqRecord, ReqPhase
  <2>4. req' = [req EXCEPT ![q] = x]
    BY <2>1
  <2> HIDE DEF x
  <2>5. ReqOK'
    BY <1>0, <2>3, <2>4, ReqStep
  <2> QED BY <1>0, <1>2, <2>5 DEF CleanupOnJobDelete, OverlordInv, TrackingOK, WorldOK
<1>3. CASE ReleaseAgain(q)
  <2>1. ReqOK'
    <3>1. CASE Return(q)
      BY <1>0, <3>1, GoesOn
    <3>2. CASE req' = [req EXCEPT ![q].at = "verify", ![q].seen = tracking]
      <4> DEFINE x == [req[q] EXCEPT !.at = "verify", !.seen = tracking]
      <4>1. Sound(x)
        BY <1>0, <1>3 DEF Sound, ReqRecord, ReqPhase, TrackingOK, ReleaseAgain
      <4>2. req' = [req EXCEPT ![q] = x]
        BY <3>2
      <4> HIDE DEF x
      <4> QED BY <1>0, <4>1, <4>2, ReqStep
    <3> QED BY <1>3, <3>1, <3>2 DEF ReleaseAgain
  <2> QED BY <1>0, <1>3, <2>1 DEF ReleaseAgain, OverlordInv, TrackingOK, WorldOK
<1>4. CASE VerifyExternalState(q) \/ ReleaseCheck(q)
  <2>1. ReqOK'
    BY <1>0, <1>4, GoesOn DEF VerifyExternalState, ReleaseCheck, ReqPhase
  <2> QED BY <1>0, <1>4, <2>1 DEF VerifyExternalState, ReleaseCheck, OverlordInv, TrackingOK, WorldOK
<1>5. CASE ReleaseApply(q) \/ ReleaseDelete(q)
  <2>1. ReqOK'
    BY <1>0, <1>5, GoesOn DEF ReleaseApply, ReleaseDelete, ReqPhase
  <2>2. req[q].seen.previous \in Routing
    BY <1>0 DEF ReqRecord, TrackingRow
  <2>3. row' \in Routing
    <3>1. CASE ReleaseDelete(q)
      BY <3>1 DEF ReleaseDelete, Routing
    <3>2. CASE ReleaseApply(q)
      <4>1. row' \in {row, Blank, req[q].seen.previous}
        BY <3>2 DEF ReleaseApply
      <4> QED BY <1>0, <2>2, <4>1 DEF WorldOK, Routing
    <3> QED BY <1>5, <3>1, <3>2
  <2>4. own' \in BOOLEAN
    BY <1>0, <1>5 DEF ReleaseApply, ReleaseDelete, WorldOK
  <2> QED BY <1>0, <1>5, <2>1, <2>3, <2>4 DEF ReleaseApply, ReleaseDelete, OverlordInv, TrackingOK, WorldOK
<1>6. CASE UpdateReleased(q)
  <2>1. ReqOK'
    BY <1>0, <1>6, GoesOn DEF UpdateReleased
  <2>2. Released(tracking) \in TrackingRow /\ Released(tracking).status = "released" /\ Released(tracking).job = Unset
    BY <1>0, QuietSound DEF Released, TrackingRow, TrackingOK, Status
  <2>3. TrackingOK'
    BY <1>0, <1>6, <2>2 DEF UpdateReleased, TrackingOK
  <2> QED BY <1>0, <1>6, <2>1, <2>3 DEF UpdateReleased, OverlordInv, WorldOK
<1> QED BY <1>1, <1>2, <1>3, <1>4, <1>5, <1>6

LEMMA OrphanTypes ==
    ASSUME OverlordInv, NEW q \in Request, OrphanScan(q) \/ OrphanList(q) \/ OrphanDelete(q)
    PROVE  OverlordInv'
<1>0. TrackingOK /\ ReqOK /\ WorldOK
  BY DEF OverlordInv
<1>1. ReqOK'
  BY <1>0, GoesOn DEF OrphanScan, OrphanList, OrphanDelete
<1>2. TrackingOK'
  BY <1>0, QuietSound DEF OrphanScan, OrphanList, OrphanDelete, TrackingOK
<1>3. WorldOK'
  BY <1>0 DEF OrphanScan, OrphanList, OrphanDelete, WorldOK
<1> QED BY <1>1, <1>2, <1>3 DEF OverlordInv

LEMMA OverlordStep ==
    ASSUME OverlordInv, [OverlordNext]_overlordVars
    PROVE  OverlordInv'
<1>0. TrackingOK /\ ReqOK /\ WorldOK
  BY DEF OverlordInv
<1>1. CASE UNCHANGED overlordVars \/ Redeploy \/ Undeploy \/ OutsideWrite
  <2>1. tracking' = tracking /\ req' = req
    BY <1>1 DEF overlordVars, Redeploy, Undeploy, OutsideWrite
  <2>2. WorldOK'
    <3>1. own' \in BOOLEAN
      BY <1>0, <1>1, Zenon DEF overlordVars, Redeploy, Undeploy, OutsideWrite, WorldOK
    <3>2. row' \in Routing /\ deployed' \subseteq Deployer /\ outside' \in 0..MaxOutside
      BY OverlordAssumption, <1>0, <1>1 DEF overlordVars, Redeploy, Undeploy, OutsideWrite, WorldOK, Routing
    <3> QED BY <3>1, <3>2 DEF WorldOK
  <2> QED BY <1>0, <2>1, <2>2 DEF OverlordInv, TrackingOK, ReqOK
<1>2. ASSUME NEW q \in Request, Handle(q)
      PROVE  OverlordInv'
  BY <1>2, ClaimTypes, SyncTypes, ReleaseTypes, OrphanTypes DEF Handle
<1> QED BY <1>1, <1>2 DEF OverlordNext

-----------------------------------------------------------------------------
(* The theorems.                                                           *)

LEMMA OverlordAlways == OverlordSpec => []OverlordInv
<1>1. OverlordInit => OverlordInv
  BY InitOverlordInv
<1>2. OverlordInv /\ [OverlordNext]_overlordVars => OverlordInv'
  BY OverlordStep
<1> QED BY <1>1, <1>2, PTL DEF OverlordSpec

\* An active claim has its job, a synced one its host, whoever wrote last.
THEOREM OverlordTypeCorrect == OverlordSpec => []OverlordTypeOK
<1>1. OverlordInv => OverlordTypeOK
  BY DEF OverlordInv, TrackingOK, ReqOK, WorldOK, OverlordTypeOK, ReqRecord
<1> QED BY <1>1, OverlordAlways, PTL

\* However many requests found the name free, the first claim keeps it.
THEOREM ClaimIsKept == OverlordSpec => ClaimKept
<1> DEFINE Kept == IsActive(tracking) /\ IsActive(tracking') => tracking'.job = tracking.job
<1>1. OverlordInv /\ [OverlordNext]_overlordVars => [Kept]_overlordVars
  <2> SUFFICES ASSUME OverlordInv, [OverlordNext]_overlordVars, IsActive(tracking), IsActive(tracking')
               PROVE  tracking'.job = tracking.job
    OBVIOUS
  <2>0. tracking \in TrackingRow
    BY DEF OverlordInv, TrackingOK
  <2>1. CASE tracking' = tracking
    BY <2>1
  <2>2. ASSUME NEW q \in Request, ClaimCreate(q), tracking' # tracking
        PROVE  tracking'.job = tracking.job
    BY <2>0, <2>2 DEF ClaimCreate, MayClaim, TrackingRow
  <2>3. ASSUME NEW q \in Request, SyncMark(q)
        PROVE  tracking'.job = tracking.job
    BY <2>0, <2>3 DEF SyncMark, TrackingRow
  <2>4. ASSUME NEW q \in Request, UpdateReleased(q), tracking' # tracking
        PROVE  FALSE
    <3>1. tracking'.status = "released"
      BY <2>4 DEF UpdateReleased, Released, NoTracking
    <3> QED BY <3>1 DEF IsActive
  <2>5. ASSUME NEW q \in Request, OrphanDelete(q)
        PROVE  FALSE
    BY <2>5 DEF OrphanDelete, NoTracking, IsActive
  <2>6. ASSUME NEW q \in Request, Handle(q), ~ClaimCreate(q), ~SyncMark(q), ~UpdateReleased(q), ~OrphanDelete(q)
        PROVE  tracking' = tracking
    BY <2>6 DEF Handle, ClaimRead, ClaimSnapshot, SyncRead, SyncExists, SyncWrite, AddCompany,
       RemoveCompany, ReleaseRead, CleanupOnJobDelete, ReleaseAgain, VerifyExternalState,
       ReleaseApply, ReleaseCheck, ReleaseDelete, OrphanScan, OrphanList
  <2>7. CASE UNCHANGED overlordVars \/ Redeploy \/ Undeploy \/ OutsideWrite
    BY <2>7 DEF overlordVars, Redeploy, Undeploy, OutsideWrite
  <2> QED BY <2>1, <2>2, <2>3, <2>4, <2>5, <2>6, <2>7 DEF OverlordNext
<1> QED BY <1>1, OverlordAlways, PTL DEF OverlordSpec, ClaimKept
=============================================================================
