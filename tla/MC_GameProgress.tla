-------------------------- MODULE MC_GameProgress --------------------------
(* Instances of GameProgress for TLC. *)
EXTENDS GameProgress, TLC

Symmetry == Permutations(Procs)
=============================================================================
