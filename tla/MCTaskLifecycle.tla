--------------------------- MODULE MCTaskLifecycle ---------------------------
(* TaskLifecycle for TLC: tasks are interchangeable, and so are runs. *)
EXTENDS TaskLifecycle, TLC

Symmetry == Permutations(Tasks) \cup Permutations(Runs)
=============================================================================
