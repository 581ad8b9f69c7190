-------------------------- MODULE MCDisplayService --------------------------
(* Model of DisplayService for TLC. *)
EXTENDS DisplayService, TLC
Symmetry == Permutations(Conns) \cup Permutations(Displays)
=============================================================================
