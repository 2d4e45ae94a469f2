------------------------------ MODULE MCRegAlloc ------------------------------
(* Every set of four intervals over a few program points, every number of  *)
(* registers up to the bound.                                              *)
EXTENDS RegAlloc, TLC

Symmetry == Permutations(Interval)
=============================================================================
