------------------------------- MODULE MCPubSub -------------------------------
(* Instances of PubSub for TLC.  No symmetry: the run has liveness. *)
EXTENDS PubSub
=============================================================================
