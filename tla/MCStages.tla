------------------------------ MODULE MCStages ------------------------------
(* Small instances of Stages for TLC.                                      *)
EXTENDS Stages, TLC

MCSymmetry == Permutations(Procs) \cup Permutations(Ids)

=============================================================================
