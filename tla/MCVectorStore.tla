----------------------------- MODULE MCVectorStore -----------------------------
(* Instances of VectorStore for TLC.  No symmetry: the run has liveness. *)
EXTENDS VectorStore
=============================================================================
