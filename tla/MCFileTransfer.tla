--------------------------- MODULE MCFileTransfer ---------------------------
(* Model of FileTransfer for TLC: a file of several blocks, an empty one   *)
(* and one of a single block.                                              *)
EXTENDS FileTransfer

MCSize == [f \in Files |-> CASE f = 0 -> 2 [] f = 1 -> 0 [] OTHER -> 1]
=============================================================================
