---------------------------- MODULE MCCompaction ----------------------------
(***************************************************************************)
(* Instances of Compaction for TLC: which runs and which authors there are *)
(* is up to symmetry.                                                      *)
(***************************************************************************)
EXTENDS Compaction, TLC

Symmetry == Permutations(Runner) \cup Permutations(Sub)
=============================================================================
