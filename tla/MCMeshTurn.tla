---------------------------- MODULE MCMeshTurn ----------------------------
(* Instances of MeshTurn for TLC. *)
EXTENDS MeshTurn, FiniteSetsExt, TLC

\* Bounds: samples outstanding in the group, frames in flight.
CONSTANTS MaxPending, MaxNet

Small ==
    /\ MapThenSumSet(LAMBDA n : Cardinality(pending[n]), Node) <= MaxPending
    /\ Cardinality(net) <= MaxNet

\* Only runs in which every silence deadline outlasts the transactions.
Healthy == ~hasty

\* No handler compares the identity of a token or the order of two numbers.
Symmetry == Permutations(Token) \cup Permutations(SeqNo)
===========================================================================
