--------------------------- MODULE MCOverlayLease ---------------------------
(* Instances of OverlayLease for TLC. *)
EXTENDS OverlayLease, TLC

\* Threads are interchangeable.
Symmetry == Permutations(Thread)
===========================================================================
