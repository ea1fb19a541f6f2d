--------------------------- MODULE MCMeshReliable ---------------------------
(* Instances of MeshReliable for TLC. *)
EXTENDS MeshReliable, TLC

\* No step compares receivers.
Symmetry == Permutations(Peer)
===========================================================================
