---------------------------- MODULE MCTimeoutCache ----------------------------
(* Instances of TimeoutCache for TLC. *)
EXTENDS TimeoutCache
=============================================================================
