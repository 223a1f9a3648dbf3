----------------------------- MODULE MCTaskRuns -----------------------------
(***************************************************************************)
(* TaskRuns on small instances.  Runs and owners are only compared for     *)
(* equality, so they may be permuted.                                      *)
(***************************************************************************)
EXTENDS TaskRuns, TLC

Symmetry == Permutations(Runs) \cup Permutations(Owners)
=============================================================================
