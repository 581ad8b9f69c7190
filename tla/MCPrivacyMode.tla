---------------------------- MODULE MCPrivacyMode ----------------------------
(* Two connections, told apart by nothing. *)
EXTENDS PrivacyMode, TLC

Symmetry == Permutations(Conns)

(* A run is looked at until something is left behind for good. *)
NothingLeft == left = {}
=============================================================================
