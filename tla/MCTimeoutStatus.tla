--------------------------- MODULE MCTimeoutStatus ---------------------------
(* Instances of TimeoutStatus for TLC.  No symmetry: the run has liveness. *)
EXTENDS TimeoutStatus
=============================================================================
