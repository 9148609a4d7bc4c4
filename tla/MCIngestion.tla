---------------------------- MODULE MCIngestion ----------------------------
(* Small instances of Ingestion for TLC.                                   *)
EXTENDS Ingestion, TLC

MCSymmetry == Permutations(Procs) \cup Permutations(Nodes)
                \cup Permutations(Contents)

=============================================================================
