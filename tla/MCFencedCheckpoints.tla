-------------------------- MODULE MCFencedCheckpoints --------------------------
(* FencedCheckpoints as TLC checks it. *)
EXTENDS FencedCheckpoints
=============================================================================
