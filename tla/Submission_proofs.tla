-------------------------- MODULE Submission_proofs --------------------------
(***************************************************************************)
(* For any number of users, targets, jobs and threads: one active job for  *)
(* a target, and by how much overlapping submissions overrun a limit.      *)
(*                                                                         *)
(* A limit is read and acted upon in two steps.  The jobs that are active  *)
(* and the threads that have passed the check and not yet inserted are     *)
(* counted together: the check lets a thread pass when there is room, an   *)
(* insert turns a thread into a job, and everything else makes less of     *)
(* both.                                                                   *)
(*                                                                         *)
(* A job that is recorded as deployed is the one its owner finds in the    *)
(* database: what a submission has read of the owner is still true when it *)
(* inserts, or the index on the active target refuses it.                  *)
(***************************************************************************)
EXTENDS Submission, FiniteSetTheorems, TLAPS

JobRecord == [status : JobStatus, user : User \cup {None}, target : Database \cup {None},
              locked : BOOLEAN, claimed : BOOLEAN]
SubRecord == [at : Check, user : User \cup {None}, target : Database \cup {None},
              overwrite : BOOLEAN, ack : BOOLEAN, old : Row \cup {None}]

\* The rows: one active job for a target.
JobsOK ==
    /\ jobs \in [Row -> JobRecord]
    /\ \A i, j \in Row : i # j /\ jobs[i].target = jobs[j].target
          => ~(jobs[i].status \in Pending /\ jobs[j].status \in Pending)

\* A submission that is under way has its user and target.
Sound(x) ==
    /\ x \in SubRecord /\ (x.at = "idle" <=> x.user = None)
    /\ x.at # "idle" => x.target \in Database
    /\ x.at = "owner" => x.old \in Row

SubOK == sub \in [Thread -> SubRecord] /\ \A s \in Thread : Sound(sub[s])

SubmitInv == JobsOK /\ SubOK /\ db \in [Database -> User \cup {None, External}]

-----------------------------------------------------------------------------
(* Types.                                                                  *)

LEMMA InitSubmitInv ==
    ASSUME SubmitInit
    PROVE  SubmitInv
<1>1. JobsOK
  BY DEF SubmitInit, JobsOK, Unused, JobRecord, JobStatus, Pending
<1>2. Free \in SubRecord /\ Sound(Free)
  BY DEF Free, SubRecord, Sound, Check
<1>3. SubOK
  BY <1>2 DEF SubmitInit, SubOK
<1>4. db \in [Database -> User \cup {None, External}]
  BY SubmissionAssumption DEF SubmitInit
<1> QED BY <1>1, <1>3, <1>4 DEF SubmitInv

\* A thread's submission is replaced by a sound one.
LEMMA SubStep ==
    ASSUME SubOK, NEW s \in Thread, NEW x, Sound(x), sub' = [sub EXCEPT ![s] = x]
    PROVE  SubOK'
BY DEF SubOK, Sound

\* A submission goes on, or ends.
LEMMA GoesOn ==
    ASSUME SubOK, NEW s \in Thread, sub[s].at # "idle",
           \/ Refuse(s)
           \/ \E at \in Check \ {"idle", "owner"} : Goto(s, at)
    PROVE  SubOK'
<1>1. CASE Refuse(s)
  <2>1. Sound(Free)
    BY SubmissionAssumption DEF Free, SubRecord, Sound, Check
  <2> QED BY <1>1, <2>1, SubStep DEF Refuse
<1>2. CASE \E at \in Check \ {"idle", "owner"} : Goto(s, at)
  <2>1. PICK at \in Check \ {"idle", "owner"} : Goto(s, at)
    BY <1>2
  <2>2. sub[s] \in SubRecord /\ Sound(sub[s])
    BY DEF SubOK
  <2> DEFINE x == [sub[s] EXCEPT !.at = at]
  <2>3. Sound(x)
    BY <2>2 DEF Sound, SubRecord
  <2>4. sub' = [sub EXCEPT ![s] = x]
    BY <2>1 DEF Goto
  <2> HIDE DEF x
  <2> QED BY <2>3, <2>4, SubStep
<1> QED BY <1>1, <1>2

\* A row is replaced: only a target without an active job gets one.
LEMMA RowStep ==
    ASSUME JobsOK, NEW j \in Row, NEW r \in JobRecord, jobs' = [jobs EXCEPT ![j] = r],
           r.status \in Pending => \/ jobs[j].status \in Pending /\ r.target = jobs[j].target
                                   \/ ~Occupied(r.target)
    PROVE  JobsOK'
<1>1. jobs' \in [Row -> JobRecord]
  BY DEF JobsOK
<1>2. ASSUME NEW i \in Row, NEW k \in Row, i # k, jobs'[i].target = jobs'[k].target
      PROVE  ~(jobs'[i].status \in Pending /\ jobs'[k].status \in Pending)
  <2>1. jobs'[j] = r /\ \A l \in Row \ {j} : jobs'[l] = jobs[l]
    BY DEF JobsOK
  <2>2. CASE i # j /\ k # j
    BY <1>2, <2>1, <2>2 DEF JobsOK
  <2>3. CASE i = j
    BY <1>2, <2>1, <2>3 DEF JobsOK, Occupied
  <2>4. CASE k = j
    BY <1>2, <2>1, <2>4 DEF JobsOK, Occupied
  <2> QED BY <2>2, <2>3, <2>4
<1> QED BY <1>1, <1>2 DEF JobsOK

\* The status of a row changes, and no row becomes active.
LEMMA StatusStep ==
    ASSUME JobsOK, NEW j \in Row, NEW status \in JobStatus,
           jobs' = [jobs EXCEPT ![j].status = status],
           status \in Pending => jobs[j].status \in Pending
    PROVE  /\ JobsOK'
           /\ jobs'[j].user = jobs[j].user /\ jobs'[j].status = status
           /\ \A k \in Row \ {j} : jobs'[k] = jobs[k]
<1> DEFINE r == [jobs[j] EXCEPT !.status = status]
<1>1. jobs[j] \in JobRecord
  BY DEF JobsOK
<1>2. r \in JobRecord /\ r.target = jobs[j].target /\ r.user = jobs[j].user /\ r.status = status
  BY <1>1 DEF JobRecord
<1>3. jobs' = [jobs EXCEPT ![j] = r]
  OBVIOUS
<1> HIDE DEF r
<1>4. jobs'[j] = r /\ \A k \in Row \ {j} : jobs'[k] = jobs[k]
  BY <1>3 DEF JobsOK
<1>5. JobsOK'
  BY <1>2, <1>3, RowStep
<1> QED BY <1>2, <1>4, <1>5

LEMMA ThreadTypes ==
    ASSUME SubmitInv, NEW s \in Thread, SubmitStep(s)
    PROVE  SubmitInv'
<1>0. /\ JobsOK /\ SubOK /\ db \in [Database -> User \cup {None, External}]
      /\ sub[s] \in SubRecord /\ Sound(sub[s])
  BY DEF SubmitInv, SubOK
<1>1. db' = db
  BY DEF SubmitStep, Submit, CheckLock, CheckOwn, CheckDatabase, TransferOwnership, CheckGlobal,
     CheckUser, Insert, SupersedeCompleted
<1>2. CASE Submit(s)
  <2>1. PICK u \in User, t \in Database, c \in Consent :
           sub' = [sub EXCEPT ![s] = [at |-> "lock", user |-> u, target |-> t,
                                      overwrite |-> c[1], ack |-> c[2], old |-> None]]
    BY <1>2 DEF Submit
  <2>2. Sound([at |-> "lock", user |-> u, target |-> t, overwrite |-> c[1], ack |-> c[2], old |-> None])
    BY SubmissionAssumption DEF Sound, SubRecord, Check
  <2>3. SubOK'
    BY <1>0, <2>1, <2>2, SubStep
  <2>4. jobs' = jobs
    BY <1>2 DEF Submit
  <2> QED BY <1>0, <1>1, <2>3, <2>4 DEF SubmitInv, JobsOK
<1>3. CASE CheckLock(s) \/ CheckGlobal(s) \/ CheckUser(s)
  <2>1. jobs' = jobs
    BY <1>3 DEF CheckLock, CheckGlobal, CheckUser
  <2>2. SubOK'
    BY <1>0, <1>3, GoesOn DEF CheckLock, CheckGlobal, CheckUser, Check
  <2> QED BY <1>0, <1>1, <2>1, <2>2 DEF SubmitInv, JobsOK
<1>4. CASE CheckOwn(s)
  <2>1. SubOK'
    BY <1>0, <1>4, GoesOn DEF CheckOwn, Check
  <2>2. jobs' = jobs \/ \E j \in Row : SupersedeJob(j)
    BY <1>4 DEF CheckOwn, Of
  <2>3. JobsOK'
    BY <1>0, <2>2, StatusStep DEF SupersedeJob, JobStatus, Pending, JobsOK
  <2> QED BY <1>0, <1>1, <2>1, <2>3 DEF SubmitInv
<1>5. CASE CheckDatabase(s)
  <2>1. jobs' = jobs
    BY <1>5 DEF CheckDatabase
  <2>2. ASSUME NEW j \in Row, sub' = [sub EXCEPT ![s].at = "owner", ![s].old = j]
        PROVE  SubOK'
    <3> DEFINE x == [sub[s] EXCEPT !.at = "owner", !.old = j]
    <3>1. Sound(x)
      BY <1>0, <1>5 DEF Sound, SubRecord, Check, CheckDatabase
    <3>2. sub' = [sub EXCEPT ![s] = x]
      BY <2>2
    <3> HIDE DEF x
    <3> QED BY <1>0, <3>1, <3>2, SubStep
  <2>3. SubOK'
    BY <1>0, <1>5, <2>2, GoesOn DEF CheckDatabase, Check, Of
  <2> QED BY <1>0, <1>1, <2>1, <2>3 DEF SubmitInv, JobsOK
<1>6. CASE TransferOwnership(s)
  <2>1. sub[s].old \in Row
    BY <1>0, <1>6 DEF TransferOwnership, Sound
  <2>2. JobsOK'
    BY <1>0, <1>6, <2>1, StatusStep DEF TransferOwnership, Transferred, SupersedeJob, JobStatus, Pending
  <2> DEFINE x == [sub[s] EXCEPT !.at = "limits", !.old = None]
  <2>3. Sound(x)
    BY <1>0, <1>6 DEF Sound, SubRecord, Check, TransferOwnership
  <2>4. sub' = [sub EXCEPT ![s] = x]
    BY <1>6 DEF TransferOwnership
  <2> HIDE DEF x
  <2>5. SubOK'
    BY <1>0, <2>3, <2>4, SubStep
  <2> QED BY <1>0, <1>1, <2>2, <2>5 DEF SubmitInv
<1>7. CASE Insert(s)
  <2>1. SubOK'
    BY <1>0, <1>7, GoesOn DEF Insert, Check
  <2> DEFINE new == [Unused EXCEPT !.status = "queued", !.user = sub[s].user, !.target = sub[s].target]
  <2>2. new \in JobRecord /\ new.target = sub[s].target
    BY <1>0 DEF Unused, JobRecord, SubRecord, JobStatus
  <2>3. jobs' = jobs \/ (~Occupied(sub[s].target) /\ \E j \in Row : jobs' = [jobs EXCEPT ![j] = new])
    BY <1>7 DEF Insert
  <2> HIDE DEF new
  <2>4. JobsOK'
    BY <1>0, <2>2, <2>3, RowStep DEF JobsOK
  <2> QED BY <1>0, <1>1, <2>1, <2>4 DEF SubmitInv
<1>8. CASE SupersedeCompleted(s)
  <2>1. SubOK'
    BY <1>0, <1>8, GoesOn DEF SupersedeCompleted
  <2>2. jobs' = jobs \/ \E j \in Row : SupersedeJob(j)
    BY <1>8 DEF SupersedeCompleted, Of
  <2>3. JobsOK'
    BY <1>0, <2>2, StatusStep DEF SupersedeJob, JobStatus, Pending, JobsOK
  <2> QED BY <1>0, <1>1, <2>1, <2>3 DEF SubmitInv
<1> QED BY <1>2, <1>3, <1>4, <1>5, <1>6, <1>7, <1>8 DEF SubmitStep

LEMMA JobTypes ==
    ASSUME SubmitInv, NEW j \in Row, JobStep(j)
    PROVE  SubmitInv' /\ sub' = sub
<1>0. /\ JobsOK /\ SubOK /\ db \in [Database -> User \cup {None, External}]
      /\ jobs[j] \in JobRecord
  BY DEF SubmitInv, JobsOK
<1>1. sub' = sub
  BY DEF JobStep, Start, Deploy, Fail, Cancel, LockOrComplete, ClaimDatabase
<1>2. db' \in [Database -> User \cup {None, External}]
  <2>1. jobs[j].user \in User \cup {None}
    BY <1>0 DEF JobRecord
  <2> QED BY <1>0, <2>1 DEF JobStep, Start, Deploy, Fail, Cancel, LockOrComplete, ClaimDatabase
<1>3. CASE Start(j) \/ Deploy(j) \/ Cancel(j)
  <2>1. \E status \in {"running", "deployed", "canceling"} :
           jobs' = [jobs EXCEPT ![j].status = status] /\ jobs[j].status \in Pending
    BY <1>3 DEF Start, Deploy, Cancel, Pending
  <2>2. JobsOK'
    BY <1>0, <2>1, StatusStep DEF JobStatus
  <2> QED BY <1>0, <1>1, <1>2, <2>2 DEF SubmitInv, SubOK
<1>4. ASSUME NEW r \in JobRecord, jobs' = [jobs EXCEPT ![j] = r], r.status \notin Pending
      PROVE  SubmitInv'
  <2>1. JobsOK'
    BY <1>0, <1>4, RowStep
  <2> QED BY <1>0, <1>1, <1>2, <2>1 DEF SubmitInv, SubOK
<1>5. CASE Fail(j)
  <2>1. Unused \in JobRecord /\ Unused.status \notin Pending
    BY DEF Unused, JobRecord, JobStatus, Pending
  <2> QED BY <1>4, <1>5, <2>1 DEF Fail
<1>6. CASE LockOrComplete(j)
  <2>1. CASE jobs' = [jobs EXCEPT ![j].status = "complete"]
    <3>1. JobsOK'
      BY <1>0, <2>1, StatusStep DEF JobStatus, Pending
    <3> QED BY <1>0, <1>1, <1>2, <3>1 DEF SubmitInv, SubOK
  <2>2. CASE jobs' = [jobs EXCEPT ![j].locked = ~@]
    <3> DEFINE r == [jobs[j] EXCEPT !.locked = ~@]
    <3>1. r \in JobRecord /\ r.status \notin Pending
      BY <1>0, <1>6 DEF JobRecord, Pending, LockOrComplete
    <3>2. jobs' = [jobs EXCEPT ![j] = r]
      BY <2>2
    <3> HIDE DEF r
    <3> QED BY <1>1, <1>4, <3>1, <3>2
  <2> QED BY <1>6, <2>1, <2>2 DEF LockOrComplete
<1>7. CASE ClaimDatabase(j)
  <2>1. PICK u \in User, t \in Database :
           jobs' = [jobs EXCEPT ![j] = [status |-> "deployed", user |-> u, target |-> t,
                                        locked |-> FALSE, claimed |-> TRUE]]
    BY <1>7 DEF ClaimDatabase
  <2> DEFINE r == [status |-> "deployed", user |-> u, target |-> t, locked |-> FALSE, claimed |-> TRUE]
  <2>2. r \in JobRecord /\ r.status \notin Pending
    BY DEF JobRecord, JobStatus, Pending
  <2>3. jobs' = [jobs EXCEPT ![j] = r]
    BY <2>1
  <2> HIDE DEF r
  <2> QED BY <1>1, <1>4, <2>2, <2>3
<1> QED BY <1>1, <1>3, <1>5, <1>6, <1>7 DEF JobStep

\* Two jobs of one target are never active together, and the rest of the types.
THEOREM SubmitTypeCorrect == SubmitSpec => []SubmitTypeOK
<1>1. SubmitInit => SubmitInv
  BY InitSubmitInv
<1>2. SubmitInv /\ [SubmitNext]_submitVars => SubmitInv'
  <2> SUFFICES ASSUME SubmitInv, [SubmitNext]_submitVars PROVE SubmitInv'
    OBVIOUS
  <2>1. CASE UNCHANGED submitVars
    BY <2>1 DEF submitVars, SubmitInv, JobsOK, SubOK
  <2> QED BY <2>1, ThreadTypes, JobTypes DEF SubmitNext
<1>3. SubmitInv => SubmitTypeOK
  BY DEF SubmitInv, JobsOK, SubOK, Sound, SubmitTypeOK, JobRecord, SubRecord
<1> QED BY <1>1, <1>2, <1>3, PTL DEF SubmitSpec

-----------------------------------------------------------------------------
(* The limits.                                                             *)

\* The threads that have passed the global check and not inserted, and those
\* of a user that have passed the check of the user.
Passed == {s \in Thread : sub[s].at \in {"user", "insert"}}
Ready(u) == {s \in Thread : sub[s].at = "insert" /\ sub[s].user = u}

\* The active jobs and the threads on their way to one.
Total(active, waiting) == Cardinality(active) + Cardinality(waiting)

LimitInv ==
    /\ Limit > 0 => Total(Active, Passed) <= Limit - 1 + Cardinality(Thread)
    /\ UserLimit > 0 => \A u \in User : Total(ActiveOf(u), Ready(u)) <= UserLimit - 1 + Cardinality(Thread)

Less(active, active2, waiting, waiting2) == active2 \subseteq active /\ waiting2 \subseteq waiting
\* One thread becomes one job.
Moved(active, active2, waiting, waiting2) ==
    \E j, s : active2 \subseteq active \cup {j} /\ s \in waiting /\ waiting2 \subseteq waiting \ {s}

\* Neither makes the sum larger.
LEMMA SumKept ==
    ASSUME NEW active, NEW active2, NEW waiting, NEW waiting2,
           IsFiniteSet(active), IsFiniteSet(waiting),
           \/ Less(active, active2, waiting, waiting2)
           \/ Moved(active, active2, waiting, waiting2)
    PROVE  /\ Total(active2, waiting2) \in Nat /\ Total(active, waiting) \in Nat
           /\ Total(active2, waiting2) <= Total(active, waiting)
<1>1. Cardinality(active) \in Nat /\ Cardinality(waiting) \in Nat
  BY FS_CardinalityType
<1>2. CASE Less(active, active2, waiting, waiting2)
  <2>1. /\ Cardinality(active2) \in Nat /\ Cardinality(active2) <= Cardinality(active)
        /\ Cardinality(waiting2) \in Nat /\ Cardinality(waiting2) <= Cardinality(waiting)
    BY <1>2, FS_Subset, FS_CardinalityType DEF Less
  <2> QED BY <1>1, <2>1 DEF Total
<1>3. CASE Moved(active, active2, waiting, waiting2)
  <2>1. PICK j, s : active2 \subseteq active \cup {j} /\ s \in waiting /\ waiting2 \subseteq waiting \ {s}
    BY <1>3 DEF Moved
  <2>2. IsFiniteSet(active \cup {j}) /\ Cardinality(active \cup {j}) \in Nat
        /\ Cardinality(active \cup {j}) <= Cardinality(active) + 1
    <3>1. /\ IsFiniteSet(active \cup {j})
          /\ Cardinality(active \cup {j}) = IF j \in active THEN Cardinality(active) ELSE Cardinality(active) + 1
      BY FS_AddElement
    <3> QED BY <1>1, <3>1
  <2>3. IsFiniteSet(waiting \ {s}) /\ Cardinality(waiting \ {s}) = Cardinality(waiting) - 1
    BY <2>1, FS_RemoveElement
  <2>4. Cardinality(waiting \ {s}) \in Nat
    BY <2>3, FS_CardinalityType
  <2>5. Cardinality(active2) \in Nat /\ Cardinality(active2) <= Cardinality(active \cup {j})
    BY <2>1, <2>2, FS_Subset, FS_CardinalityType
  <2>6. Cardinality(waiting2) \in Nat /\ Cardinality(waiting2) <= Cardinality(waiting \ {s})
    BY <2>1, <2>3, FS_Subset, FS_CardinalityType
  <2> QED BY <1>1, <2>2, <2>3, <2>4, <2>5, <2>6 DEF Total
<1> QED BY <1>2, <1>3

\* A thread passes a check that found room.
LEMMA SumAtCheck ==
    ASSUME NEW active, NEW waiting, NEW limit \in Nat, limit > 0,
           IsFiniteSet(active), IsFiniteSet(Thread), waiting \subseteq Thread, HasRoom(active, limit)
    PROVE  Total(active, waiting) <= limit - 1 + Cardinality(Thread)
<1>1. Cardinality(active) \in Nat /\ Cardinality(active) < limit
  BY FS_CardinalityType DEF HasRoom
<1>2. Cardinality(waiting) \in Nat /\ Cardinality(Thread) \in Nat /\ Cardinality(waiting) <= Cardinality(Thread)
  BY FS_Subset, FS_CardinalityType
<1> QED BY <1>1, <1>2 DEF Total

\* What a step does to the sums.
GlobalStep ==
    \/ Less(Active, Active', Passed, Passed')
    \/ Moved(Active, Active', Passed, Passed')
    \/ HasRoom(Active, Limit) /\ Active' = Active

UserStep(u) ==
    \/ Less(ActiveOf(u), ActiveOf(u)', Ready(u), Ready(u)')
    \/ Moved(ActiveOf(u), ActiveOf(u)', Ready(u), Ready(u)')
    \/ HasRoom(ActiveOf(u), UserLimit) /\ ActiveOf(u)' = ActiveOf(u)

LEMMA LimitStep ==
    ASSUME LimitInv, GlobalStep, \A u \in User : UserStep(u)
    PROVE  LimitInv'
<1>0. /\ IsFiniteSet(Active) /\ IsFiniteSet(Passed) /\ Passed' \subseteq Thread
      /\ Cardinality(Thread) \in Nat /\ Limit \in Nat /\ UserLimit \in Nat
      /\ IsFiniteSet(Thread)
  BY SubmissionAssumption, FS_Subset, FS_CardinalityType DEF Active, Passed
<1>1. ASSUME NEW u \in User
      PROVE  IsFiniteSet(ActiveOf(u)) /\ IsFiniteSet(Ready(u)) /\ Ready(u)' \subseteq Thread
  BY <1>0, FS_Subset DEF ActiveOf, Ready
<1>2. Limit > 0 => Total(Active', Passed') <= Limit - 1 + Cardinality(Thread)
  <2> SUFFICES ASSUME Limit > 0 PROVE Total(Active', Passed') <= Limit - 1 + Cardinality(Thread)
    OBVIOUS
  <2>1. CASE Less(Active, Active', Passed, Passed') \/ Moved(Active, Active', Passed, Passed')
    <3>1. /\ Total(Active', Passed') \in Nat /\ Total(Active, Passed) \in Nat
          /\ Total(Active', Passed') <= Total(Active, Passed)
      BY <1>0, <2>1, SumKept
    <3>2. Total(Active, Passed) <= Limit - 1 + Cardinality(Thread)
      BY DEF LimitInv
    <3> QED BY <1>0, <3>1, <3>2
  <2>2. CASE HasRoom(Active, Limit) /\ Active' = Active
    BY <1>0, <2>2, SumAtCheck
  <2> QED BY <2>1, <2>2 DEF GlobalStep
<1>3. ASSUME NEW u \in User, UserLimit > 0
      PROVE  Total(ActiveOf(u)', Ready(u)') <= UserLimit - 1 + Cardinality(Thread)
  <2>1. CASE Less(ActiveOf(u), ActiveOf(u)', Ready(u), Ready(u)') \/ Moved(ActiveOf(u), ActiveOf(u)', Ready(u), Ready(u)')
    <3>1. /\ Total(ActiveOf(u)', Ready(u)') \in Nat /\ Total(ActiveOf(u), Ready(u)) \in Nat
          /\ Total(ActiveOf(u)', Ready(u)') <= Total(ActiveOf(u), Ready(u))
      BY <1>1, <2>1, SumKept
    <3>2. Total(ActiveOf(u), Ready(u)) <= UserLimit - 1 + Cardinality(Thread)
      BY <1>3 DEF LimitInv
    <3> QED BY <1>0, <3>1, <3>2
  <2>2. CASE HasRoom(ActiveOf(u), UserLimit) /\ ActiveOf(u)' = ActiveOf(u)
    BY <1>0, <1>1, <1>3, <2>2, SumAtCheck
  <2> QED BY <2>1, <2>2 DEF UserStep
<1> QED BY <1>2, <1>3 DEF LimitInv, Total

\* A thread that goes anywhere but to the insert is counted no more.
LEMMA Leaves ==
    ASSUME SubOK, NEW s \in Thread, NEW x, sub' = [sub EXCEPT ![s] = x], x.at \notin {"user", "insert"}
    PROVE  Passed' \subseteq Passed \ {s} /\ \A u \in User : Ready(u)' \subseteq Ready(u) \ {s}
BY DEF SubOK, Passed, Ready

LEMMA Withdraws ==
    ASSUME SubOK, NEW s \in Thread,
           Refuse(s) \/ \E at \in Check \ {"user", "insert"} : Goto(s, at)
    PROVE  Passed' \subseteq Passed \ {s} /\ \A u \in User : Ready(u)' \subseteq Ready(u) \ {s}
<1>1. CASE Refuse(s)
  <2>1. Free.at \notin {"user", "insert"}
    BY DEF Free
  <2> QED BY <1>1, <2>1, Leaves DEF Refuse
<1>2. CASE \E at \in Check \ {"user", "insert"} : Goto(s, at)
  <2>1. PICK at \in Check \ {"user", "insert"} : Goto(s, at)
    BY <1>2
  <2>2. sub' = [sub EXCEPT ![s] = [sub[s] EXCEPT !.at = at]] /\ [sub[s] EXCEPT !.at = at].at = at
    BY <2>1 DEF Goto, SubOK, SubRecord
  <2> QED BY <2>1, <2>2, Leaves
<1> QED BY <1>1, <1>2

\* No job becomes active, and no thread passes a check.
LEMMA Shrinks ==
    ASSUME Active' \subseteq Active, \A u \in User : ActiveOf(u)' \subseteq ActiveOf(u),
           Passed' \subseteq Passed, \A u \in User : Ready(u)' \subseteq Ready(u)
    PROVE  GlobalStep /\ \A u \in User : UserStep(u)
BY DEF GlobalStep, UserStep, Less

\* A job that is superseded is no longer active.
LEMMA Superseded ==
    ASSUME SubmitInv, jobs' = jobs \/ \E j \in Row : SupersedeJob(j)
    PROVE  Active' \subseteq Active /\ \A u \in User : ActiveOf(u)' \subseteq ActiveOf(u)
<1>1. CASE jobs' = jobs
  BY <1>1 DEF Active, ActiveOf
<1>2. CASE \E j \in Row : SupersedeJob(j)
  <2>1. PICK j \in Row : SupersedeJob(j)
    BY <1>2
  <2>2. jobs'[j].status = "superseded" /\ \A k \in Row \ {j} : jobs'[k] = jobs[k]
    BY <2>1, StatusStep DEF SupersedeJob, JobStatus, Pending, SubmitInv
  <2> QED BY <2>2 DEF Active, ActiveOf
<1> QED BY <1>1, <1>2

LEMMA ThreadLimits ==
    ASSUME SubmitInv, NEW s \in Thread, SubmitStep(s)
    PROVE  GlobalStep /\ \A u \in User : UserStep(u)
<1>0. /\ SubOK /\ sub[s] \in SubRecord /\ sub \in [Thread -> SubRecord]
      /\ jobs \in [Row -> JobRecord]
  BY DEF SubmitInv, SubOK, JobsOK
<1>1. CASE CheckGlobal(s) /\ Goto(s, "user") /\ HasRoom(Active, Limit)
  <2>1. jobs' = jobs /\ sub[s].at = "limits"
    BY <1>1 DEF CheckGlobal
  <2>2. Active' = Active /\ \A u \in User : ActiveOf(u)' = ActiveOf(u)
    BY <2>1 DEF Active, ActiveOf
  <2>3. \A u \in User : Ready(u)' \subseteq Ready(u)
    BY <1>0, <1>1 DEF Ready, Goto, SubRecord
  <2> QED BY <1>1, <2>2, <2>3 DEF GlobalStep, UserStep, Less
<1>2. CASE CheckUser(s) /\ Goto(s, "insert") /\ HasRoom(ActiveOf(sub[s].user), UserLimit)
  <2>1. jobs' = jobs /\ sub[s].at = "user"
    BY <1>2 DEF CheckUser
  <2>2. Active' = Active /\ \A u \in User : ActiveOf(u)' = ActiveOf(u)
    BY <2>1 DEF Active, ActiveOf
  <2>3. Passed' \subseteq Passed
    BY <1>0, <1>2, <2>1 DEF Passed, Goto, SubRecord
  <2>4. \A u \in User : u # sub[s].user => Ready(u)' \subseteq Ready(u)
    BY <1>0, <1>2 DEF Ready, Goto, SubRecord
  <2> QED BY <1>2, <2>2, <2>3, <2>4 DEF GlobalStep, UserStep, Less
<1>3. CASE Insert(s) /\ Goto(s, "after")
  <2>1. PICK j \in Row : jobs' = [jobs EXCEPT ![j] =
            [Unused EXCEPT !.status = "queued", !.user = sub[s].user, !.target = sub[s].target]]
    BY <1>0, <1>3 DEF Insert, Refuse, Goto, Free, SubRecord
  <2>2. jobs'[j].user = sub[s].user /\ \A k \in Row \ {j} : jobs'[k] = jobs[k]
    BY <1>0, <2>1 DEF Unused
  <2>3. /\ s \in Passed /\ s \in Ready(sub[s].user)
        /\ Passed' \subseteq Passed \ {s} /\ \A u \in User : Ready(u)' \subseteq Ready(u) \ {s}
    BY <1>0, <1>3, Withdraws DEF Insert, Passed, Ready, Check
  <2>4. /\ Active' \subseteq Active \cup {j}
        /\ \A u \in User : ActiveOf(u)' \subseteq ActiveOf(u) \cup {j}
        /\ \A u \in User : u # sub[s].user => ActiveOf(u)' \subseteq ActiveOf(u)
    BY <2>2 DEF Active, ActiveOf
  <2> QED BY <2>3, <2>4 DEF GlobalStep, UserStep, Less, Moved
<1>4. CASE Submit(s) \/ CheckLock(s) \/ CheckDatabase(s) \/ (CheckGlobal(s) /\ Refuse(s))
           \/ (CheckUser(s) /\ Refuse(s)) \/ (Insert(s) /\ Refuse(s) /\ jobs' = jobs)
  <2>1. jobs' = jobs
    BY <1>4 DEF Submit, CheckLock, CheckDatabase, CheckGlobal, CheckUser
  <2>2. Passed' \subseteq Passed /\ \A u \in User : Ready(u)' \subseteq Ready(u)
    <3>1. CASE Submit(s)
      <4>1. PICK u \in User, t \in Database, c \in Consent :
               sub' = [sub EXCEPT ![s] = [at |-> "lock", user |-> u, target |-> t,
                                          overwrite |-> c[1], ack |-> c[2], old |-> None]]
        BY <3>1 DEF Submit
      <4> QED BY <1>0, <4>1, Leaves
    <3>2. ASSUME NEW j \in Row, sub' = [sub EXCEPT ![s].at = "owner", ![s].old = j]
          PROVE  Passed' \subseteq Passed /\ \A u \in User : Ready(u)' \subseteq Ready(u)
      BY <1>0, <3>2 DEF Passed, Ready, SubRecord
    <3>3. CASE CheckDatabase(s)
      BY <1>0, <3>2, <3>3, Withdraws DEF CheckDatabase, Check, Of
    <3> QED BY <1>0, <1>4, <3>1, <3>3, Withdraws DEF CheckLock, Check
  <2>3. Active' \subseteq Active /\ \A u \in User : ActiveOf(u)' \subseteq ActiveOf(u)
    BY <2>1, Superseded
  <2> QED BY <2>2, <2>3, Shrinks
<1>5. CASE CheckOwn(s) \/ TransferOwnership(s) \/ SupersedeCompleted(s)
  <2>1. jobs' = jobs \/ \E j \in Row : SupersedeJob(j)
    <3>1. sub[s].at = "owner" => sub[s].old \in Row
      BY DEF SubmitInv, SubOK, Sound
    <3> QED BY <1>5, <3>1 DEF CheckOwn, TransferOwnership, Transferred, SupersedeCompleted, Of
  <2>2. Passed' \subseteq Passed /\ \A u \in User : Ready(u)' \subseteq Ready(u)
    <3>1. CASE TransferOwnership(s)
      BY <1>0, <3>1 DEF TransferOwnership, Passed, Ready, SubRecord
    <3> QED BY <1>0, <1>5, <3>1, Withdraws DEF CheckOwn, SupersedeCompleted, Check
  <2> QED BY <2>1, <2>2, Superseded, Shrinks
<1> QED BY <1>1, <1>2, <1>3, <1>4, <1>5 DEF SubmitStep, CheckGlobal, CheckUser, Insert, HasUserRoom

LEMMA JobLimits ==
    ASSUME SubmitInv, NEW j \in Row, JobStep(j)
    PROVE  GlobalStep /\ \A u \in User : UserStep(u)
<1>0. jobs \in [Row -> JobRecord] /\ sub' = sub
  BY JobTypes DEF SubmitInv, JobsOK
<1>1. /\ \A k \in Row \ {j} : jobs'[k] = jobs[k]
      /\ jobs'[j].status \in {"queued", "running"} =>
            jobs[j].status \in {"queued", "running"} /\ jobs'[j].user = jobs[j].user
  BY <1>0 DEF JobStep, Start, Deploy, Fail, Cancel, LockOrComplete, ClaimDatabase, Unused, JobRecord
<1>2. Active' \subseteq Active /\ \A u \in User : ActiveOf(u)' \subseteq ActiveOf(u)
  BY <1>1 DEF Active, ActiveOf
<1>3. Passed' \subseteq Passed /\ \A u \in User : Ready(u)' \subseteq Ready(u)
  BY <1>0 DEF Passed, Ready
<1> QED BY <1>2, <1>3, Shrinks

\* Overlapping submissions overrun a limit by no more than one job for each
\* thread but one, however many there are.
THEOREM LimitsHold == SubmitSpec => []LimitsNearlyHold
<1>1. SubmitInit => SubmitInv /\ LimitInv
  <2> SUFFICES ASSUME SubmitInit PROVE LimitInv
    BY InitSubmitInv
  <2>1. Active = {} /\ Passed = {} /\ \A u \in User : ActiveOf(u) = {} /\ Ready(u) = {}
    BY DEF SubmitInit, Unused, Free, Active, Passed, ActiveOf, Ready
  <2>2. Cardinality({}) = 0 /\ Cardinality(Thread) \in Nat /\ Limit \in Nat /\ UserLimit \in Nat
    BY SubmissionAssumption, FS_EmptySet, FS_CardinalityType
  <2>3. Total(Active, Passed) = 0 /\ \A u \in User : Total(ActiveOf(u), Ready(u)) = 0
    BY <2>1, <2>2 DEF Total
  <2> QED BY <2>2, <2>3 DEF LimitInv
<1>2. SubmitInv /\ LimitInv /\ [SubmitNext]_submitVars => (SubmitInv /\ LimitInv)'
  <2> SUFFICES ASSUME SubmitInv, LimitInv, [SubmitNext]_submitVars PROVE (SubmitInv /\ LimitInv)'
    OBVIOUS
  <2>1. CASE UNCHANGED submitVars
    <3>1. SubmitInv'
      BY <2>1 DEF submitVars, SubmitInv, JobsOK, SubOK
    <3>2. LimitInv'
      BY <2>1 DEF submitVars, LimitInv, Total, Active, ActiveOf, Passed, Ready
    <3> QED BY <3>1, <3>2
  <2>2. ASSUME NEW s \in Thread, SubmitStep(s) PROVE (SubmitInv /\ LimitInv)'
    BY <2>2, ThreadTypes, ThreadLimits, LimitStep
  <2>3. ASSUME NEW j \in Row, JobStep(j) PROVE (SubmitInv /\ LimitInv)'
    BY <2>3, JobTypes, JobLimits, LimitStep
  <2> QED BY <2>1, <2>2, <2>3 DEF SubmitNext
<1>3. LimitInv => LimitsNearlyHold
  <2> SUFFICES ASSUME LimitInv PROVE LimitsNearlyHold
    OBVIOUS
  <2>1. /\ Cardinality(Active) \in Nat /\ Cardinality(Passed) \in Nat /\ Cardinality(Thread) \in Nat
        /\ \A u \in User : Cardinality(ActiveOf(u)) \in Nat /\ Cardinality(Ready(u)) \in Nat
    BY SubmissionAssumption, FS_Subset, FS_CardinalityType DEF Active, ActiveOf, Passed, Ready
  <2>2. Limit \in Nat /\ UserLimit \in Nat
    BY SubmissionAssumption
  <2> QED BY <2>1, <2>2 DEF LimitInv, LimitsNearlyHold, Total
<1> QED BY <1>1, <1>2, <1>3, PTL DEF SubmitSpec

-----------------------------------------------------------------------------
(* Who owns what is deployed.                                              *)

\* The restored jobs that are listed as deployed to a target, and all of a user's.
DeployedAt(t) == {j \in Row : jobs[j].target = t /\ jobs[j].status = "deployed" /\ ~jobs[j].claimed}
Holds(u, t) == Of(u, t, {"deployed"})

\* A restored job is its owner's only one, and the owner is the database's.
\* While a job is on its way to the target there is none, and its user has
\* not claimed the target either.
TargetOK(t) ==
    /\ \A j \in DeployedAt(t) : jobs[j].user = db[t] /\ Holds(db[t], t) = {j}
    /\ Occupied(t) => DeployedAt(t) = {} /\ db[t] # External
    /\ \A i \in Row : jobs[i].target = t /\ jobs[i].status \in Pending => Holds(jobs[i].user, t) = {}

RowOK(j) ==
    /\ jobs[j].status \in Pending \cup {"deployed"} => jobs[j].user \in User /\ jobs[j].target \in Database
    /\ jobs[j].status \in Pending => ~jobs[j].claimed

\* What a submission has found out stays true until its insert.
SubmissionOK(s) ==
    LET t == sub[s].target
        own == Holds(sub[s].user, t)
    IN  /\ sub[s].at = "own" => \A j \in own : ~jobs[j].locked
        /\ sub[s].at = "exists" => own = {}
        /\ sub[s].at = "owner" => own = {} /\ DeployedAt(t) \subseteq {sub[s].old} /\ db[t] # External
        /\ sub[s].at \in {"limits", "user", "insert"} => own = {} /\ DeployedAt(t) = {} /\ db[t] # External

OwnersInv ==
    /\ \A t \in Database : t \notin disturbed => TargetOK(t)
    /\ \A j \in Row : RowOK(j)
    /\ \A s \in Thread : sub[s].target \notin disturbed => SubmissionOK(s)

\* A step that deploys nothing to a target, gives it no job and locks none.
TargetKept(t) ==
    /\ db'[t] = db[t]
    /\ \A j \in Row :
          jobs'[j].target = t /\ jobs'[j].status \in Pending \cup {"deployed"} =>
              /\ jobs[j].target = t /\ jobs[j].user = jobs'[j].user
              /\ jobs[j].claimed = jobs'[j].claimed /\ jobs[j].locked = jobs'[j].locked
              /\ jobs[j].status \in Pending \cup {"deployed"}
              /\ jobs[j].status = "deployed" <=> jobs'[j].status = "deployed"

\* Nothing is added to what is deployed or on its way.
LEMMA KeptSets ==
    ASSUME NEW t, TargetKept(t)
    PROVE  /\ DeployedAt(t)' \subseteq DeployedAt(t)
           /\ Occupied(t)' => Occupied(t)
           /\ \A u : Of(u, t, {"deployed"})' \subseteq Holds(u, t)
           /\ \A j \in DeployedAt(t)' : jobs'[j].user = jobs[j].user
<1>1. "deployed" \notin Pending
  BY DEF Pending
<1> QED BY <1>1 DEF TargetKept, DeployedAt, Holds, Of, Occupied

LEMMA KeptTarget ==
    ASSUME NEW t, TargetOK(t), TargetKept(t)
    PROVE  TargetOK(t)'
<1>1. "deployed" \notin Pending
  BY DEF Pending
<1>2. ASSUME NEW j \in DeployedAt(t)'
      PROVE  jobs'[j].user = db'[t] /\ Holds(db[t], t)' = {j}
  <2>1. j \in DeployedAt(t) /\ jobs'[j].user = jobs[j].user /\ db'[t] = db[t]
    BY <1>2, KeptSets DEF TargetKept
  <2>2. jobs[j].user = db[t] /\ Holds(db[t], t) = {j}
    BY <2>1 DEF TargetOK
  <2>3. Holds(db[t], t)' \subseteq {j}
    BY <2>1, <2>2, KeptSets DEF Holds
  <2>4. j \in Holds(db[t], t)'
    BY <1>2, <2>1, <2>2 DEF DeployedAt, Holds, Of
  <2> QED BY <2>1, <2>2, <2>3, <2>4
<1>3. Occupied(t)' => DeployedAt(t)' = {} /\ db'[t] # External
  BY KeptSets DEF TargetOK, TargetKept
<1>4. ASSUME NEW i \in Row, jobs'[i].target = t, jobs'[i].status \in Pending
      PROVE  Holds(jobs[i].user, t)' = {}
  <2>1. jobs[i].target = t /\ jobs[i].status \in Pending /\ jobs'[i].user = jobs[i].user
    BY <1>1, <1>4 DEF TargetKept
  <2>2. Holds(jobs[i].user, t) = {}
    BY <2>1 DEF TargetOK
  <2> PICK u : u = jobs[i].user
    OBVIOUS
  <2>3. Of(u, t, {"deployed"})' \subseteq {}
    BY <2>2, KeptSets
  <2> QED BY <2>1, <2>3 DEF Holds
<1> QED BY <1>2, <1>3, <1>4 DEF TargetOK

LEMMA KeptSubmission ==
    ASSUME NEW s \in Thread, SubmissionOK(s), sub'[s] = sub[s], TargetKept(sub[s].target)
    PROVE  SubmissionOK(s)'
<1> DEFINE t == sub[s].target
<1>1. /\ DeployedAt(t)' \subseteq DeployedAt(t) /\ db'[t] = db[t]
      /\ \A u : Of(u, t, {"deployed"})' \subseteq Of(u, t, {"deployed"})
  BY KeptSets DEF TargetKept, Holds
<1>2. \A j \in Of(sub[s].user, t, {"deployed"})' : jobs'[j].locked = jobs[j].locked
  BY DEF TargetKept, Of
<1>3. Holds(sub[s].user, t)' \subseteq Holds(sub[s].user, t)
  BY <1>1 DEF Holds
<1> QED BY <1>1, <1>2, <1>3 DEF SubmissionOK, Holds

\* Rows that leave the table of active and deployed jobs take nothing with them.
RowsShrink ==
    \A k \in Row : jobs'[k] = jobs[k] \/ jobs'[k].status \notin Pending \cup {"deployed"}

LEMMA ShrinkKept ==
    ASSUME OwnersInv, RowsShrink, db' = db
    PROVE  /\ \A t : TargetKept(t)
           /\ \A t \in Database : t \notin disturbed => TargetOK(t)'
           /\ \A j \in Row : RowOK(j)'
<1>1. ASSUME NEW t PROVE TargetKept(t)
  BY DEF TargetKept, RowsShrink
<1>2. \A j \in Row : RowOK(j)'
  BY DEF OwnersInv, RowOK, RowsShrink
<1> QED BY <1>1, <1>2, KeptTarget DEF OwnersInv

LEMMA SupersedeShrinks ==
    ASSUME JobsOK, jobs' = jobs \/ \E j \in Row : SupersedeJob(j)
    PROVE  RowsShrink
BY StatusStep DEF SupersedeJob, RowsShrink, JobStatus, Pending

\* A submission's next step, when the rows only shrink.
LEMMA CheckKept ==
    ASSUME SubmitInv, OwnersInv, NEW s \in Thread, RowsShrink, db' = db, disturbed' = disturbed,
           \A r \in Thread \ {s} : sub'[r] = sub[r],
           sub'[s].target \notin disturbed => SubmissionOK(s)'
    PROVE  OwnersInv'
<1>1. ASSUME NEW r \in Thread \ {s}, sub[r].target \notin disturbed PROVE SubmissionOK(r)'
  BY <1>1, ShrinkKept, KeptSubmission DEF OwnersInv
<1> QED BY <1>1, ShrinkKept DEF OwnersInv

\* Where a submission goes, and what it keeps.
LEMMA SubNext ==
    ASSUME SubOK, NEW s \in Thread
    PROVE  /\ Refuse(s) => sub'[s].at = "idle"
           /\ \A at : Goto(s, at) => /\ sub'[s].at = at /\ sub'[s].user = sub[s].user
                                     /\ sub'[s].target = sub[s].target /\ sub'[s].old = sub[s].old
           /\ Refuse(s) \/ (\E at : Goto(s, at)) => \A r \in Thread \ {s} : sub'[r] = sub[r]
<1>1. sub[s] \in SubRecord /\ sub \in [Thread -> SubRecord]
  BY DEF SubOK
<1>2. Refuse(s) => sub'[s] = Free /\ \A r \in Thread \ {s} : sub'[r] = sub[r]
  BY <1>1 DEF Refuse
<1>3. ASSUME NEW at, Goto(s, at)
      PROVE  sub'[s] = [sub[s] EXCEPT !.at = at] /\ \A r \in Thread \ {s} : sub'[r] = sub[r]
  BY <1>1, <1>3 DEF Goto
<1>4. ASSUME NEW at, Goto(s, at)
      PROVE  /\ sub'[s].at = at /\ sub'[s].user = sub[s].user
             /\ sub'[s].target = sub[s].target /\ sub'[s].old = sub[s].old
  <2>1. sub'[s] = [sub[s] EXCEPT !.at = at]
    BY <1>3, <1>4
  <2> QED BY <1>1, <2>1 DEF SubRecord
<1>5. Free.at = "idle"
  BY DEF Free
<1>6. Refuse(s) => sub'[s].at = "idle"
  BY <1>2, <1>5
<1>7. Refuse(s) \/ (\E at : Goto(s, at)) => \A r \in Thread \ {s} : sub'[r] = sub[r]
  BY <1>2, <1>3
<1> QED BY <1>4, <1>6, <1>7

LEMMA CheckOwners ==
    ASSUME SubmitInv, OwnersInv, NEW s \in Thread, disturbed' = disturbed,
           \/ Submit(s) \/ CheckLock(s) \/ CheckOwn(s) \/ CheckDatabase(s) \/ TransferOwnership(s)
           \/ CheckGlobal(s) \/ CheckUser(s) \/ SupersedeCompleted(s)
    PROVE  OwnersInv'
<1> PICK t : t = sub[s].target
  OBVIOUS
<1> PICK u : u = sub[s].user
  OBVIOUS
<1>1. /\ SubOK /\ JobsOK /\ sub \in [Thread -> SubRecord] /\ sub[s] \in SubRecord
      /\ sub[s].at # "idle" => t \in Database /\ u \in User
      /\ sub[s].at = "owner" => sub[s].old \in Row
  BY DEF SubmitInv, SubOK, Sound, SubRecord
<1>2. db' = db
  BY DEF Submit, CheckLock, CheckOwn, CheckDatabase, TransferOwnership, CheckGlobal,
     CheckUser, SupersedeCompleted
<1>3. jobs' = jobs \/ \E j \in Row : SupersedeJob(j)
  BY <1>1 DEF Submit, CheckLock, CheckOwn, CheckDatabase, TransferOwnership, Transferred, CheckGlobal,
     CheckUser, SupersedeCompleted, Of
<1>4. RowsShrink
  BY <1>1, <1>3, SupersedeShrinks
<1>5. /\ DeployedAt(t)' \subseteq DeployedAt(t)
      /\ \A v : Of(v, t, {"deployed"})' \subseteq Holds(v, t)
  BY <1>2, <1>4, ShrinkKept, KeptSets
<1>6. t \notin disturbed => SubmissionOK(s) /\ (t \in Database => TargetOK(t))
  BY DEF OwnersInv
<1>7. CASE Refuse(s)
  <2>1. SubmissionOK(s)' /\ \A r \in Thread \ {s} : sub'[r] = sub[r]
    BY <1>1, <1>7, SubNext DEF SubmissionOK
  <2> QED BY <1>2, <1>4, <2>1, CheckKept
<1>8. CASE Submit(s)
  <2>1. sub'[s].at = "lock" /\ \A r \in Thread \ {s} : sub'[r] = sub[r]
    BY <1>1, <1>8 DEF Submit
  <2>2. SubmissionOK(s)'
    BY <2>1 DEF SubmissionOK
  <2> QED BY <1>2, <1>4, <2>1, <2>2, CheckKept
<1>9. CASE CheckLock(s) /\ Goto(s, "own")
  <2>1. /\ sub'[s].at = "own" /\ sub'[s].user = u /\ sub'[s].target = t
        /\ \A r \in Thread \ {s} : sub'[r] = sub[r]
    BY <1>1, <1>9, SubNext
  <2>2. jobs' = jobs /\ \A j \in Of(u, t, JobStatus \ {"superseded"}) : ~jobs[j].locked
    BY <1>1, <1>9, <2>1, SubNext DEF CheckLock
  <2>3. SubmissionOK(s)'
    BY <2>1, <2>2 DEF SubmissionOK, Holds, Of, JobStatus
  <2> QED BY <1>2, <1>4, <2>1, <2>3, CheckKept
<1>10. CASE CheckOwn(s) /\ Goto(s, "exists")
  <2>1. /\ sub'[s].at = "exists" /\ sub'[s].user = u /\ sub'[s].target = t
        /\ \A r \in Thread \ {s} : sub'[r] = sub[r]
    BY <1>1, <1>10, SubNext
  <2>2. t \in Database /\ sub[s].at = "own"
    BY <1>1, <1>10 DEF CheckOwn
  <2>3. ASSUME t \notin disturbed PROVE Of(u, t, {"deployed"})' = {}
    <3>1. CASE Holds(u, t) = {}
      BY <1>5, <3>1
    <3>2. ASSUME NEW j \in Holds(u, t), ~jobs[j].claimed,
                 IF jobs[j].locked THEN UNCHANGED jobs ELSE SupersedeJob(j)
          PROVE  Of(u, t, {"deployed"})' = {}
      <4>1. j \in Row /\ j \in DeployedAt(t) /\ ~jobs[j].locked /\ jobs[j].user = u
        BY <1>6, <2>2, <2>3, <3>2 DEF SubmissionOK, Holds, Of, DeployedAt
      <4>2. Holds(u, t) = {j}
        BY <1>6, <2>2, <2>3, <4>1 DEF TargetOK
      <4>3. jobs'[j].status = "superseded"
        BY <1>1, <3>2, <4>1, StatusStep DEF SupersedeJob, JobStatus, Pending
      <4>4. j \notin Of(u, t, {"deployed"})'
        BY <4>3 DEF Of
      <4> QED BY <1>5, <4>2, <4>4
    <3> QED BY <1>1, <1>10, <3>1, <3>2, <2>1, SubNext DEF CheckOwn, Holds
  <2>4. t \notin disturbed => SubmissionOK(s)'
    <3> SUFFICES ASSUME t \notin disturbed PROVE SubmissionOK(s)'
      OBVIOUS
    <3> QED BY <2>1, <2>3 DEF SubmissionOK, Holds
  <2> QED BY <1>2, <1>4, <2>1, <2>4, CheckKept
<1>11. CASE CheckDatabase(s) /\ ~Refuse(s)
  <2>1. t \in Database /\ sub[s].at = "exists" /\ jobs' = jobs
    BY <1>1, <1>11 DEF CheckDatabase
  <2>2. /\ sub'[s].at \in {"limits", "owner"} /\ sub'[s].target = t /\ sub'[s].user = u
        /\ \A r \in Thread \ {s} : sub'[r] = sub[r]
    <3>1. CASE Goto(s, "limits")
      BY <1>1, <3>1, SubNext
    <3>2. CASE \E j \in Row : sub' = [sub EXCEPT ![s].at = "owner", ![s].old = j]
      BY <1>1, <3>2 DEF SubRecord
    <3> QED BY <1>11, <3>1, <3>2 DEF CheckDatabase, Of
  <2>3. ASSUME t \notin disturbed PROVE SubmissionOK(s)'
    <3>1. TargetOK(t) /\ Holds(u, t) = {} /\ Of(u, t, {"deployed"})' = {}
      BY <1>5, <1>6, <2>1, <2>3 DEF SubmissionOK
    <3>2. \A j \in DeployedAt(t) : j \in Holds(db[t], t) /\ jobs[j].user \in User
      BY <3>1 DEF TargetOK, OwnersInv, RowOK, DeployedAt
    <3>3. CASE Goto(s, "limits")
      <4>1. sub'[s].at = "limits"
        BY <1>1, <3>3, SubNext
      <4>2. DeployedAt(t) = {} /\ db[t] # External
        <5>1. CASE db[t] = None
          BY <3>1, <3>2, <5>1, SubmissionAssumption DEF TargetOK
        <5>2. CASE db[t] = u
          BY <1>1, <2>1, <3>1, <3>2, <5>2, SubmissionAssumption
        <5>3. CASE db[t] \in User /\ Holds(db[t], t) = {}
          BY <3>2, <5>3, SubmissionAssumption
        <5>4. \A j \in Row : ~(sub' = [sub EXCEPT ![s].at = "owner", ![s].old = j])
          <6>1. ASSUME NEW j \in Row, sub' = [sub EXCEPT ![s].at = "owner", ![s].old = j] PROVE FALSE
            <7>1. sub'[s].at = "owner"
              BY <1>1, <6>1 DEF SubRecord
            <7> QED BY <4>1, <7>1
          <6> QED BY <6>1
        <5> QED BY <1>11, <5>1, <5>2, <5>3, <5>4 DEF CheckDatabase, Holds, Of
      <4>3. DeployedAt(t)' = {} /\ db'[t] # External
        BY <1>2, <1>5, <4>2
      <4> QED BY <2>2, <3>1, <4>1, <4>3 DEF SubmissionOK, Holds
    <3>4. ASSUME NEW j \in Holds(db[t], t), db[t] \in User,
                 sub' = [sub EXCEPT ![s].at = "owner", ![s].old = j]
          PROVE  SubmissionOK(s)'
      <4>1. sub'[s].at = "owner" /\ sub'[s].old = j
        BY <1>1, <3>4 DEF SubRecord
      <4>2. DeployedAt(t) \subseteq {j}
        BY <3>1, <3>2 DEF TargetOK
      <4>3. DeployedAt(t)' \subseteq {j} /\ db'[t] # External
        BY <1>2, <1>5, <3>4, <4>2, SubmissionAssumption
      <4> QED BY <2>2, <3>1, <4>1, <4>3 DEF SubmissionOK, Holds
    <3> QED BY <1>11, <3>3, <3>4 DEF CheckDatabase, Holds
  <2> QED BY <1>2, <1>4, <2>2, <2>3, CheckKept
<1>12. CASE TransferOwnership(s)
  <2>1. /\ sub'[s].at = "limits" /\ sub'[s].target = t /\ sub'[s].user = u
        /\ \A r \in Thread \ {s} : sub'[r] = sub[r]
    BY <1>1, <1>12 DEF TransferOwnership, SubRecord
  <2>2. ASSUME t \notin disturbed PROVE SubmissionOK(s)'
    <3>1. /\ sub[s].at = "owner" /\ sub[s].old \in Row /\ Holds(u, t) = {}
          /\ DeployedAt(t) \subseteq {sub[s].old} /\ db[t] # External
      BY <1>1, <1>6, <1>12, <2>2 DEF TransferOwnership, SubmissionOK
    <3>2. jobs'[sub[s].old].status = "superseded"
      BY <1>1, <1>12, <3>1, StatusStep DEF TransferOwnership, Transferred, SupersedeJob, JobStatus, Pending
    <3>3. DeployedAt(t)' = {}
      <4>1. \A j \in DeployedAt(t)' : j = sub[s].old /\ jobs'[j].status = "deployed"
        BY <1>5, <3>1 DEF DeployedAt
      <4> QED BY <3>2, <4>1
    <3> QED BY <1>2, <1>5, <2>1, <3>1, <3>3 DEF SubmissionOK, Holds
  <2> QED BY <1>2, <1>4, <2>1, <2>2, CheckKept
<1>13. CASE (CheckGlobal(s) /\ Goto(s, "user")) \/ (CheckUser(s) /\ Goto(s, "insert"))
  <2>1. sub[s].at \in {"limits", "user"}
    BY <1>13 DEF CheckGlobal, CheckUser
  <2>2. /\ sub'[s].at \in {"user", "insert"} /\ sub'[s].target = t /\ sub'[s].user = u
        /\ \A r \in Thread \ {s} : sub'[r] = sub[r]
    BY <1>1, <1>13, SubNext
  <2>3. t \notin disturbed => SubmissionOK(s)'
    BY <1>2, <1>5, <1>6, <2>1, <2>2 DEF SubmissionOK, Holds
  <2> QED BY <1>2, <1>4, <2>2, <2>3, CheckKept
<1> QED BY <1>7, <1>8, <1>9, <1>10, <1>11, <1>12, <1>13
        DEF CheckLock, CheckOwn, CheckGlobal, CheckUser, SupersedeCompleted

\* A step that replaces one row of a target disturbs no other target.
LEMMA Elsewhere ==
    ASSUME NEW j \in Row, NEW t, \A k \in Row \ {j} : jobs'[k] = jobs[k],
           jobs'[j].target \in {t, None}, \A u \in Database \ {t} : db'[u] = db[u]
    PROVE  \A u \in Database \ {t} : TargetKept(u)
BY SubmissionAssumption DEF TargetKept

\* The insert finds what the checks have found.
LEMMA InsertOwners ==
    ASSUME SubmitInv, OwnersInv, NEW s \in Thread, Insert(s), disturbed' = disturbed
    PROVE  OwnersInv'
<1> PICK t : t = sub[s].target
  OBVIOUS
<1> PICK u : u = sub[s].user
  OBVIOUS
<1> DEFINE new == [Unused EXCEPT !.status = "queued", !.user = sub[s].user, !.target = sub[s].target]
<1>1. /\ SubOK /\ jobs \in [Row -> JobRecord] /\ db' = db /\ t \in Database /\ u \in User
  BY DEF Insert, SubmitInv, SubOK, Sound, SubRecord, JobsOK
<1>2. \A r \in Thread \ {s} : sub'[r] = sub[r]
  BY <1>1, SubNext DEF Insert
<1>3. SubmissionOK(s)'
  BY <1>1, SubNext DEF Insert, SubmissionOK
<1>4. CASE jobs' = jobs
  BY <1>1, <1>2, <1>3, <1>4, CheckKept DEF RowsShrink
<1>5. ASSUME NEW j \in Row, jobs[j] = Unused, jobs' = [jobs EXCEPT ![j] = new], ~Occupied(t)
      PROVE  OwnersInv'
  <2>1. /\ new.status = "queued" /\ new.user = u /\ new.target = t /\ ~new.claimed
        /\ Unused.status = "none" /\ Unused.target = None
    BY DEF Unused
  <2>2. jobs'[j] = new /\ \A k \in Row \ {j} : jobs'[k] = jobs[k]
    BY <1>1, <1>5
  <2> HIDE DEF new
  <2>3. \A d \in Database \ {t} : TargetKept(d)
    BY <1>1, <2>1, <2>2, Elsewhere
  <2>4. /\ DeployedAt(t)' = DeployedAt(t)
        /\ \A v : Of(v, t, {"deployed"})' = Holds(v, t)
    BY <1>5, <2>1, <2>2 DEF DeployedAt, Of, Holds
  <2>5. ASSUME t \notin disturbed PROVE TargetOK(t)'
    <3>1. Holds(u, t) = {} /\ DeployedAt(t) = {} /\ db[t] # External
      BY <2>5 DEF OwnersInv, SubmissionOK, Insert
    <3>2. ASSUME NEW i \in Row, jobs'[i].target = t, jobs'[i].status \in Pending
          PROVE  jobs'[i].user = u
      BY <1>5, <2>1, <2>2, <3>2 DEF Occupied
    <3>3. \A i \in Row : jobs'[i].target = t /\ jobs'[i].status \in Pending => Holds(jobs[i].user, t)' = {}
      BY <2>4, <3>1, <3>2 DEF Holds
    <3> QED BY <1>1, <2>4, <3>1, <3>3 DEF TargetOK
  <2>6. ASSUME NEW d \in Database, d \notin disturbed PROVE TargetOK(d)'
    <3>1. CASE d = t
      BY <2>5, <2>6, <3>1
    <3>2. CASE d # t
      BY <2>3, <2>6, <3>2, KeptTarget DEF OwnersInv
    <3> QED BY <3>1, <3>2
  <2>7. ASSUME NEW k \in Row PROVE RowOK(k)'
    BY <1>1, <2>1, <2>2 DEF OwnersInv, RowOK
  <2>8. ASSUME NEW r \in Thread \ {s}, sub[r].target \notin disturbed PROVE SubmissionOK(r)'
    <3>1. SubmissionOK(r) /\ sub'[r] = sub[r]
      BY <1>2, <2>8 DEF OwnersInv
    <3>2. CASE sub[r].target = t
      <4>1. \A k \in Of(sub[r].user, t, {"deployed"}) : jobs'[k] = jobs[k]
        BY <1>5, <2>1, <2>2 DEF Of
      <4> QED BY <1>1, <2>4, <3>1, <3>2, <4>1 DEF SubmissionOK, Holds
    <3>3. CASE sub[r].at = "idle"
      BY <3>1, <3>3 DEF SubmissionOK
    <3>4. CASE sub[r].target \in Database \ {t}
      BY <2>3, <3>1, <3>4, KeptSubmission
    <3> QED BY <1>1, <3>2, <3>3, <3>4 DEF SubOK, Sound
  <2> QED BY <1>2, <1>3, <2>6, <2>7, <2>8 DEF OwnersInv
<1> QED BY <1>4, <1>5 DEF Insert

\* A row's step keeps what it does to the other targets and submissions.
LEMMA RowOwners ==
    ASSUME SubmitInv, OwnersInv, NEW j \in Row, NEW t, sub' = sub,
           \A k \in Row \ {j} : jobs'[k] = jobs[k], jobs'[j].target \in {t, None},
           \A u \in Database \ {t} : db'[u] = db[u],
           disturbed \subseteq disturbed', RowOK(j)',
           t \in Database /\ t \notin disturbed' => TargetOK(t)',
           t \in Database /\ t \notin disturbed' =>
               TargetKept(t) \/ \A s \in Thread : sub[s].target # t \/ sub[s].at = "after"
    PROVE  OwnersInv'
<1>1. \A u \in Database \ {t} : TargetKept(u)
  BY Elsewhere
<1>2. ASSUME NEW u \in Database, u \notin disturbed' PROVE TargetOK(u)'
  <2>1. CASE u = t
    BY <1>2, <2>1
  <2>2. CASE u # t
    BY <1>1, <1>2, <2>2, KeptTarget DEF OwnersInv
  <2> QED BY <2>1, <2>2
<1>3. ASSUME NEW k \in Row PROVE RowOK(k)'
  BY DEF OwnersInv, RowOK
<1>4. ASSUME NEW s \in Thread, sub[s].target \notin disturbed' PROVE SubmissionOK(s)'
  <2>1. SubmissionOK(s)
    BY <1>4 DEF OwnersInv
  <2>2. CASE sub[s].at \in {"idle", "after"}
    BY <2>2 DEF SubmissionOK
  <2>3. CASE sub[s].at \notin {"idle", "after"}
    <3>1. sub[s].target \in Database
      BY <2>3 DEF SubmitInv, SubOK, Sound
    <3> QED BY <1>1, <1>4, <2>1, <2>3, <3>1, KeptSubmission
  <2> QED BY <2>2, <2>3
<1> QED BY <1>2, <1>3, <1>4 DEF OwnersInv

\* The rest of a job's life, in which the databases change.
LEMMA JobOwners ==
    ASSUME SubmitInv, OwnersInv, NEW j \in Row, JobStep(j),
           disturbed' = disturbed \cup {t \in Database : Disturbs(j, t)}
    PROVE  OwnersInv'
<1>1. /\ JobsOK /\ jobs \in [Row -> JobRecord] /\ jobs[j] \in JobRecord
      /\ db \in [Database -> User \cup {None, External}] /\ sub' = sub
      /\ RowOK(j) /\ disturbed \subseteq disturbed' /\ "deployed" \notin Pending
  BY JobTypes DEF SubmitInv, JobsOK, OwnersInv, Pending
<1>2. \A k \in Row \ {j} : jobs'[k] = jobs[k]
  BY <1>1 DEF JobStep, Start, Deploy, Fail, Cancel, LockOrComplete, ClaimDatabase
<1>3. ASSUME NEW t \in Database, t \in {jobs[j].target, jobs'[j].target}, jobs'[j].status \notin Pending,
             t \notin disturbed'
      PROVE  /\ \A s \in Thread : sub[s].target # t \/ sub[s].at = "after"
             /\ jobs[j] = Unused => ~Occupied(t)
  BY <1>1, <1>3 DEF Disturbs
<1>4. CASE Start(j) \/ Cancel(j)
  <2> PICK t : t = jobs[j].target
    OBVIOUS
  <2>1. /\ jobs[j].status \in Pending /\ jobs'[j].status \in Pending /\ db' = db
        /\ jobs'[j].target = t /\ jobs'[j].user = jobs[j].user /\ jobs'[j].claimed = jobs[j].claimed
        /\ jobs'[j].locked = jobs[j].locked
    BY <1>1, <1>4 DEF Start, Cancel, Pending, JobRecord
  <2>2. TargetKept(t)
    BY <1>1, <1>2, <2>1 DEF TargetKept
  <2>3. t \in Database /\ t \notin disturbed' => TargetOK(t)'
    BY <1>1, <2>2, KeptTarget DEF OwnersInv
  <2>4. RowOK(j)'
    BY <1>1, <2>1 DEF RowOK
  <2> QED BY <1>1, <1>2, <2>1, <2>2, <2>3, <2>4, RowOwners
<1>5. ASSUME jobs[j].status \in Pending
      PROVE  /\ jobs[j].target \in Database /\ jobs[j].user \in User /\ ~jobs[j].claimed
             /\ jobs[j].target \notin disturbed =>
                  /\ DeployedAt(jobs[j].target) = {} /\ Holds(jobs[j].user, jobs[j].target) = {}
                  /\ db[jobs[j].target] # External
             /\ \A k \in Row \ {j} : jobs[k].target = jobs[j].target => jobs[k].status \notin Pending
  <2>1. jobs[j].target \in Database /\ jobs[j].user \in User /\ ~jobs[j].claimed
    BY <1>1, <1>5 DEF RowOK
  <2>2. Occupied(jobs[j].target)
    BY <1>5 DEF Occupied
  <2>3. jobs[j].target \notin disturbed =>
                  /\ DeployedAt(jobs[j].target) = {} /\ Holds(jobs[j].user, jobs[j].target) = {}
                  /\ db[jobs[j].target] # External
    BY <1>5, <2>1, <2>2 DEF OwnersInv, TargetOK
  <2>4. \A k \in Row \ {j} : jobs[k].target = jobs[j].target => jobs[k].status \notin Pending
    BY <1>1, <1>5 DEF JobsOK
  <2> QED BY <2>1, <2>3, <2>4
<1>6. CASE Deploy(j)
  <2> PICK t : t = jobs[j].target
    OBVIOUS
  <2> PICK u : u = jobs[j].user
    OBVIOUS
  <2>1. /\ jobs[j].status \in Pending /\ jobs'[j].status = "deployed"
        /\ jobs'[j].target = t /\ jobs'[j].user = u /\ jobs'[j].claimed = jobs[j].claimed
        /\ db' = [db EXCEPT ![t] = u]
    BY <1>1, <1>6 DEF Deploy, Pending, JobRecord
  <2>2. t \in Database /\ u \in User /\ ~jobs[j].claimed /\ db'[t] = u
        /\ \A d \in Database \ {t} : db'[d] = db[d]
    BY <1>1, <1>5, <2>1
  <2>3. ASSUME t \notin disturbed' PROVE TargetOK(t)'
    <3>1. DeployedAt(t) = {} /\ Holds(u, t) = {}
      BY <1>1, <1>5, <2>1, <2>3
    <3>2. DeployedAt(t)' = {j}
      BY <1>2, <2>1, <2>2, <3>1 DEF DeployedAt
    <3>3. Of(u, t, {"deployed"})' = {j}
      BY <1>2, <2>1, <2>2, <3>1 DEF Holds, Of
    <3>4. \A i \in Row : jobs'[i].target = t => jobs'[i].status \notin Pending
      BY <1>1, <1>2, <1>5, <2>1
    <3> QED BY <2>1, <2>2, <3>2, <3>3, <3>4 DEF TargetOK, Occupied, Holds
  <2>4. RowOK(j)'
    BY <1>1, <2>1, <2>2 DEF RowOK
  <2>5. t \notin disturbed' => \A s \in Thread : sub[s].target # t \/ sub[s].at = "after"
    BY <1>1, <1>3, <2>1, <2>2
  <2> QED BY <1>1, <1>2, <2>1, <2>2, <2>3, <2>4, <2>5, RowOwners
<1>7. CASE Fail(j)
  <2> PICK t : t = jobs[j].target
    OBVIOUS
  <2>1. /\ jobs[j].status \in Pending /\ jobs'[j].target = None /\ jobs'[j].status = "none"
        /\ db' = db \/ db' = [db EXCEPT ![t] = None]
    BY <1>1, <1>7 DEF Fail, Unused, Pending
  <2>2. /\ t \in Database /\ db'[t] \in {db[t], None} /\ "none" \notin Pending \cup {"deployed"}
        /\ \A d \in Database \ {t} : db'[d] = db[d]
    BY <1>1, <1>5, <2>1 DEF Pending
  <2>3. ASSUME t \notin disturbed' PROVE TargetOK(t)'
    <3>1. DeployedAt(t) = {}
      BY <1>1, <1>5, <2>1, <2>3
    <3>2. DeployedAt(t)' = {}
      BY <1>2, <2>1, <2>2, <3>1 DEF DeployedAt
    <3>3. \A i \in Row : jobs'[i].target = t => jobs'[i].status \notin Pending
      BY <1>1, <1>2, <1>5, <2>1, <2>2
    <3> QED BY <3>2, <3>3 DEF TargetOK, Occupied
  <2>4. RowOK(j)'
    BY <2>1, <2>2 DEF RowOK
  <2>5. t \notin disturbed' => \A s \in Thread : sub[s].target # t \/ sub[s].at = "after"
    BY <1>1, <1>3, <2>1, <2>2
  <2> QED BY <1>1, <1>2, <2>1, <2>2, <2>3, <2>4, <2>5, RowOwners
<1>8. CASE LockOrComplete(j)
  <2> PICK t : t = jobs[j].target
    OBVIOUS
  <2>1. /\ jobs[j].status = "deployed" /\ db' = db
        /\ jobs'[j].target = t /\ jobs'[j].user = jobs[j].user /\ jobs'[j].claimed = jobs[j].claimed
        /\ jobs'[j].status \in {"deployed", "complete"}
    BY <1>1, <1>8 DEF LockOrComplete, JobRecord
  <2>2. t \in Database /\ jobs'[j].status \notin Pending
    BY <1>1, <2>1 DEF RowOK, Pending
  <2>3. ASSUME t \notin disturbed' PROVE TargetOK(t)'
    <3>1. TargetOK(t)
      BY <1>1, <2>2, <2>3 DEF OwnersInv
    <3>2. /\ DeployedAt(t)' \subseteq DeployedAt(t) /\ (Occupied(t)' => Occupied(t))
          /\ \A v : Of(v, t, {"deployed"})' \subseteq Holds(v, t)
      BY <1>2, <2>1, <2>2 DEF DeployedAt, Occupied, Holds, Of
    <3>3. ASSUME NEW k \in DeployedAt(t)' PROVE jobs'[k].user = db'[t] /\ Holds(db[t], t)' = {k}
      <4> PICK o : o = db[t]
        OBVIOUS
      <4>1. jobs'[k].user = jobs[k].user /\ k \in DeployedAt(t)
        <5>1. k \in DeployedAt(t) /\ k \in Row
          BY <3>2, <3>3 DEF DeployedAt
        <5> QED BY <1>2, <2>1, <5>1
      <4>2. jobs[k].user = o /\ Holds(o, t) = {k}
        BY <3>1, <4>1 DEF TargetOK
      <4>3. Of(o, t, {"deployed"})' \subseteq {k}
        BY <3>2, <4>2
      <4>4. k \in Row /\ jobs'[k].target = t /\ jobs'[k].status = "deployed"
        BY <3>3 DEF DeployedAt
      <4>5. k \in Of(o, t, {"deployed"})'
        BY <4>1, <4>2, <4>4 DEF Of
      <4> QED BY <2>1, <4>1, <4>2, <4>3, <4>5 DEF Holds
    <3>4. ASSUME NEW i \in Row, jobs'[i].target = t, jobs'[i].status \in Pending
          PROVE  Holds(jobs[i].user, t)' = {}
      <4>1. i # j /\ jobs'[i] = jobs[i] /\ Holds(jobs[i].user, t) = {}
        BY <1>2, <2>2, <3>1, <3>4 DEF TargetOK
      <4> PICK v : v = jobs[i].user
        OBVIOUS
      <4>2. Of(v, t, {"deployed"})' \subseteq {}
        BY <3>2, <4>1
      <4> QED BY <4>1, <4>2 DEF Holds
    <3>5. Occupied(t)' => DeployedAt(t)' = {} /\ db'[t] # External
      BY <2>1, <3>1, <3>2 DEF TargetOK
    <3> QED BY <3>3, <3>4, <3>5 DEF TargetOK
  <2>4. RowOK(j)'
    BY <1>1, <2>1, <2>2 DEF RowOK
  <2>5. t \notin disturbed' => \A s \in Thread : sub[s].target # t \/ sub[s].at = "after"
    BY <1>3, <2>1, <2>2
  <2> QED BY <1>1, <1>2, <2>1, <2>2, <2>3, <2>4, <2>5, RowOwners
<1>9. CASE ClaimDatabase(j)
  <2>1. PICK u \in User, t \in Database :
           /\ \A k \in Row : jobs[k].target = t => jobs[k].status # "deployed"
           /\ jobs' = [jobs EXCEPT ![j] = [status |-> "deployed", user |-> u, target |-> t,
                                           locked |-> FALSE, claimed |-> TRUE]]
    BY <1>9 DEF ClaimDatabase
  <2>2. /\ jobs'[j].status = "deployed" /\ jobs'[j].claimed /\ jobs'[j].target = t
        /\ jobs'[j].user = u /\ db' = db /\ jobs[j] = Unused
    BY <1>1, <1>9, <2>1 DEF ClaimDatabase
  <2>3. ASSUME t \notin disturbed' PROVE TargetOK(t)'
    <3>1. ~Occupied(t)
      BY <1>1, <1>3, <2>2, <2>3
    <3>2. DeployedAt(t)' = {}
      BY <1>2, <2>1, <2>2 DEF DeployedAt
    <3>3. \A i \in Row : jobs'[i].target = t => jobs'[i].status \notin Pending
      BY <1>1, <1>2, <2>2, <3>1 DEF Occupied
    <3> QED BY <3>2, <3>3 DEF TargetOK, Occupied
  <2>4. RowOK(j)'
    BY <1>1, <2>2 DEF RowOK
  <2>5. t \notin disturbed' => \A s \in Thread : sub[s].target # t \/ sub[s].at = "after"
    BY <1>1, <1>3, <2>2
  <2> QED BY <1>1, <1>2, <2>1, <2>2, <2>3, <2>4, <2>5, RowOwners
<1> QED BY <1>4, <1>6, <1>7, <1>8, <1>9 DEF JobStep

\* However the submissions and restores of any number of users overlap, and
\* whoever claims a database: a restored job that is listed as deployed is its
\* owner's, because a submission supersedes the job it displaces before it
\* inserts its own, unless something ended at the target between its checks.
THEOREM OwnersHold == SubmitSpec => []DeployedIsOwners
<1>1. SubmitInit => SubmitInv /\ OwnersInv
  <2> SUFFICES ASSUME SubmitInit PROVE OwnersInv
    BY InitSubmitInv
  <2>1. \A j \in Row : jobs[j].status = "none"
    BY DEF SubmitInit, Unused
  <2>2. \A s \in Thread : sub[s].at = "idle"
    BY DEF SubmitInit, Free
  <2>3. "none" \notin Pending \cup {"deployed"}
    BY DEF Pending
  <2>4. ASSUME NEW t PROVE DeployedAt(t) = {} /\ ~Occupied(t)
    BY <2>1, <2>3 DEF DeployedAt, Occupied
  <2> QED BY <2>1, <2>2, <2>3, <2>4 DEF OwnersInv, TargetOK, RowOK, SubmissionOK
<1>2. SubmitInv /\ OwnersInv /\ [SubmitNext]_submitVars => (SubmitInv /\ OwnersInv)'
  <2> SUFFICES ASSUME SubmitInv, OwnersInv, [SubmitNext]_submitVars PROVE (SubmitInv /\ OwnersInv)'
    OBVIOUS
  <2>1. CASE UNCHANGED submitVars
    <3>1. SubmitInv'
      BY <2>1 DEF submitVars, SubmitInv, JobsOK, SubOK
    <3>2. OwnersInv'
      BY <2>1 DEF submitVars, OwnersInv, TargetOK, RowOK, SubmissionOK, DeployedAt, Occupied, Holds, Of
    <3> QED BY <3>1, <3>2
  <2>2. ASSUME NEW s \in Thread, SubmitStep(s), disturbed' = disturbed PROVE (SubmitInv /\ OwnersInv)'
    BY <2>2, ThreadTypes, CheckOwners, InsertOwners DEF SubmitStep
  <2>3. ASSUME NEW j \in Row, JobStep(j), disturbed' = disturbed \cup {t \in Database : Disturbs(j, t)}
        PROVE (SubmitInv /\ OwnersInv)'
    BY <2>3, JobTypes, JobOwners
  <2> QED BY <2>1, <2>2, <2>3 DEF SubmitNext
<1>3. SubmitInv /\ OwnersInv => DeployedIsOwners
  BY DEF OwnersInv, TargetOK, RowOK, DeployedAt, DeployedIsOwners
<1> QED BY <1>1, <1>2, <1>3, PTL DEF SubmitSpec
=============================================================================
