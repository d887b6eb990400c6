---------------------------- MODULE JobLifecycle ----------------------------
(***************************************************************************)
(* What the queue promises of a job, with nothing said of how: the order   *)
(* of JobStatus that the UPDATEs of mysql_jobs.py are to keep, up to the   *)
(* end of a restore.  A job waits, is worked on and gets one verdict; a    *)
(* target has at most one job under way and at most one live database      *)
(* record; a live record ends only by making way for a newer restore.      *)
(***************************************************************************)
CONSTANTS Job, Place

VARIABLES
    phase,  \* how far each job is
    at      \* the target database of each submitted job

lifecycleVars == <<phase, at>>

UnderWay == {"waiting", "working"}

InPhase(S, p) == {j \in Job : phase[j] \in S /\ at[j] = p}

LifecycleTypeOK ==
    /\ phase \in [Job -> {"absent", "waiting", "working", "live", "ended", "replaced"}]
    /\ at \in [Job -> Place]

LifecycleInit ==
    /\ phase = [j \in Job |-> "absent"]
    /\ at \in [Job -> Place]

\* A new job makes the live records of its target way.
SubmitJob(j, p) ==
    /\ phase[j] = "absent"
    /\ InPhase(UnderWay, p) = {}
    /\ at' = [at EXCEPT ![j] = p]
    /\ phase' = [k \in Job |-> IF k = j THEN "waiting"
                               ELSE IF k \in InPhase({"live"}, p) THEN "replaced"
                               ELSE phase[k]]

Advance(j, from, to) ==
    /\ phase[j] \in from
    /\ phase' = [phase EXCEPT ![j] = to]
    /\ UNCHANGED at

Begin(j) == Advance(j, {"waiting"}, "working")

GoLive(j) == InPhase({"live"}, at[j]) = {} /\ Advance(j, {"working"}, "live")

End(j) == Advance(j, UnderWay, "ended")

MakeWay(j) == Advance(j, {"live"}, "replaced")

LifecycleNext ==
    \E j \in Job : \/ \E p \in Place : SubmitJob(j, p)
                   \/ Begin(j) \/ GoLive(j) \/ End(j) \/ MakeWay(j)

LifecycleSpec == LifecycleInit /\ [][LifecycleNext]_lifecycleVars
=============================================================================
