--------------------------- MODULE MCRegistration ---------------------------
(* Model of Registration for TLC: the first id is refused by one server,   *)
(* the second by the other.                                                *)
EXTENDS Registration
CONSTANTS h1, h2
MCTaken == [h \in Hosts |-> IF h = h1 THEN {0} ELSE {1}]
=============================================================================
