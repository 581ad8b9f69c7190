---------------------------- MODULE MCRendezvous ----------------------------
(* Model of Rendezvous for TLC: the service runs with two servers, or with *)
(* the first alone, or is stopped.                                         *)
EXTENDS Rendezvous
CONSTANTS h1, h2
MCSettings ==
    {[stop |-> FALSE, servers |-> {h1, h2}], [stop |-> FALSE, servers |-> {h1}],
     [stop |-> TRUE, servers |-> {h1, h2}]}
=============================================================================
