----------------------------- MODULE MCDeletion -----------------------------
(***************************************************************************)
(* Instances of Deletion for TLC.  part, which never changes, leaves out   *)
(* the sweep or the workers' retries and the removal of the host: two of   *)
(* the three, with the users' handlers, are on the target at once.         *)
(***************************************************************************)
EXTENDS Deletion, TLC

VARIABLE part

JobSymmetry == Permutations(Job)

Init == DeletionInit /\ part \in {"retry", "sweep"}

Next ==
    /\ DeletionNext
    /\ part = "retry" => \A j \in Job : ~jobs'[j].lapsed
    /\ part = "sweep" => hostKnown' /\ \A w \in Worker : del'[w].pc = "idle"
    /\ UNCHANGED part

Spec == Init /\ [][Next]_<<allVars, part>>

\* What a row holds that some later step can still read: no job comes back
\* from a deletion, so lapsed matters in three states only, and the attempts
\* and the age of a deletion are the workers' affair.
View ==
    LET Live(j) == [jobs[j] EXCEPT
                       !.lapsed = @ /\ jobs[j].status \in {"deployed", "complete", "expired"},
                       !.cancelReq = @ /\ restore[j] = "prep",
                       !.stale = @ /\ jobs[j].status = "deleting" /\ part = "retry",
                       !.retry = IF part = "retry" THEN @ ELSE 0]
    IN  <<part, [j \in Job |-> Live(j)], db, staging, restore, del, sweep, hostKnown,
          requests, crashes, overtaken>>
=============================================================================
