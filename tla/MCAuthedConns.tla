--------------------------- MODULE MCAuthedConns ---------------------------
(* Model of AuthedConns for TLC. *)
EXTENDS AuthedConns, TLC

CONSTANT MaxBacklog   \* bound: messages the wake-lock thread is behind

ConnSymmetry == Permutations(Remote)

SmallBacklog == Len(channel) <= MaxBacklog

(* The steps that change displays and those of the wake-lock thread have   *)
(* no variable in common, and the former are the same wherever there are   *)
(* any: here displays are changed on Linux only.                           *)
DisplaysOnLinux == platform # "linux" => \A c \in Conns : changing[c] = NoChange
=============================================================================
