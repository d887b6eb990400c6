--------------------------- MODULE AtomicReplace ---------------------------
(***************************************************************************)
(* What a cut-over promises: the content of a target database changes in   *)
(* one step from what it held to everything that one job restored.         *)
(***************************************************************************)
CONSTANTS Job, Target, Old, TargetOf, Backup, Before

VARIABLE content   \* the tables of each target, each with the job it came from

ReplaceInit == content = [t \in Target |-> {Old} \X Before[t]]

ReplaceContent(j) ==
    content' = [content EXCEPT ![TargetOf[j]] = {j} \X Backup[j]]

ReplaceSpec == ReplaceInit /\ [][\E j \in Job : ReplaceContent(j)]_content
=============================================================================
