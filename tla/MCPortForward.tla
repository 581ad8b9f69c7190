--------------------------- MODULE MCPortForward ---------------------------
(* Model of PortForward for TLC: with bytes of 8 values, a message of one  *)
(* byte has a head of one byte and the PeerInfo, of two, has one of two.   *)
EXTENDS PortForward
MCLength == [m \in Messages |-> IF m = "peer_info" THEN 2 ELSE 1]
MCWritten == [e \in Ends |-> IF e = "host" THEN 2 ELSE 1]
=============================================================================
