----------------------------- MODULE MCLoopStore -----------------------------
(* Instances of LoopStore for TLC.                                         *)
EXTENDS LoopStore

CONSTANTS p1, p2, p3

Symmetry == Permutations(Procs)
=============================================================================
