---------------------------- MODULE MCCoordinator ----------------------------
(***************************************************************************)
(* Coordinator on small instances.                                         *)
(***************************************************************************)
EXTENDS Coordinator, TLC

Symmetry == Permutations(Runs)
=============================================================================
