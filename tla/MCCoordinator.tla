--------------------------- MODULE MCCoordinator ---------------------------
(* The Coordinator for TLC: runs of the command and samples are interchangeable. *)
EXTENDS Coordinator, TLC

Symmetry == Permutations(Runs) \union Permutations(Samples)
=============================================================================
