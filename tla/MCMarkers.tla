------------------------------ MODULE MCMarkers ------------------------------
(* Two graphs and two blocks that inlining may move between them; two      *)
(* slots, so that a leaked one and the last free one occur, and a bound on *)
(* the epochs that lets every slot be reused.                              *)
EXTENDS Markers, TLC

Symmetry == Permutations(Graph) \cup Permutations(Block)
=============================================================================
