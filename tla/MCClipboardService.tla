------------------------- MODULE MCClipboardService -------------------------
(* Model of ClipboardService for TLC. *)
EXTENDS ClipboardService, TLC
Symmetry == Permutations(Conns) \cup Permutations(Texts)
=============================================================================
