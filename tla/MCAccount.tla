------------------------------- MODULE MCAccount -------------------------------
(* Instances of Account for TLC.  No symmetry: the run has liveness. *)
EXTENDS Account
=============================================================================
