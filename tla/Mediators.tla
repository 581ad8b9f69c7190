----------------------------- MODULE Mediators ------------------------------
(***************************************************************************)
(* The rendezvous servers, to each of which the host of a service has one  *)
(* mediator task in a round (src/src/rendezvous_mediator.rs): the rounds   *)
(* are in Rendezvous, what the tasks say to their servers in Registration. *)
(***************************************************************************)
CONSTANTS
    Hosts,      \* rendezvous servers
    None        \* none of them, and no settings
=============================================================================
