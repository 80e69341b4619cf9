------------------------------- MODULE MCXiaoAi -------------------------------
(* Instances of XiaoAi for TLC.  No symmetry: the runs have liveness. *)
EXTENDS XiaoAi
=============================================================================
