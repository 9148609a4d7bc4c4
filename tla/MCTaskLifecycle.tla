-------------------------- MODULE MCTaskLifecycle --------------------------
(* Small instances of TaskLifecycle for TLC.                               *)
EXTENDS TaskLifecycle, TLC

MCBranches == Tasks \cup {Plain}

MCSymmetry == Permutations(Procs)

MCSymmetryTasks == Permutations(Procs) \cup Permutations(Tasks)

=============================================================================
