--------------------------- MODULE MCRestoreQueue ---------------------------
(* Instances of RestoreQueue for TLC. *)
EXTENDS RestoreQueue, TLC

\* How many restores every host runs at once.
OneEach == [h \in Host |-> 1]
TwoEach == [h \in Host |-> 2]

\* One host runs one restore, the others two.
OneAndTwo == [h \in Host |-> IF h = CHOOSE g \in Host : TRUE THEN 1 ELSE 2]

\* Workers and target names are interchangeable; hosts are not.
Symmetry == Permutations(Worker) \cup Permutations(Name)
=============================================================================
