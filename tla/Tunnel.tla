------------------------------- MODULE Tunnel -------------------------------
(***************************************************************************)
(* What a forwarded port promises to the program that connects to it and   *)
(* to the service it is connected with: once the tunnel is open, what one  *)
(* of them writes comes out at the other's end, all of it and in order, as *)
(* long as no end is closed.  Something foreign may come out too, but only *)
(* before the first byte that was written.  A login may also be refused    *)
(* for good: then nothing that was written comes out, although something   *)
(* foreign still may.  PortForward implements it.                          *)
(***************************************************************************)
EXTENDS Integers

CONSTANT Ends   \* where bytes come out

VARIABLES
    open,       \* the login has been accepted
    refused,    \* it has been refused for good
    closed,     \* one end has given up
    written,    \* per end: how many bytes were written to come out there
    delivered,  \* per end: how many of them have
    foreign     \* per end: something else has come out

vars == <<open, refused, closed, written, delivered, foreign>>

Init ==
    /\ open = FALSE /\ refused = FALSE /\ closed = FALSE
    /\ written = [e \in Ends |-> 0]
    /\ delivered = [e \in Ends |-> 0]
    /\ foreign = [e \in Ends |-> FALSE]

(* Each login before the tunnel is open connects with the service anew.    *)
Begins == UNCHANGED written \/ \E e \in Ends : written' = [written EXCEPT ![e] = 0]

Open ==
    /\ ~open /\ ~refused /\ open' = TRUE
    /\ Begins
    /\ UNCHANGED <<refused, closed, delivered, foreign>>

(* For good: one end may be closed by it. *)
Refuse ==
    /\ ~open /\ ~refused /\ refused' = TRUE
    /\ closed' \in {closed, TRUE}
    /\ Begins
    /\ UNCHANGED <<open, delivered, foreign>>

(* The user has to try again. *)
Retry ==
    /\ ~open /\ ~refused /\ Begins
    /\ UNCHANGED <<open, refused, closed, delivered, foreign>>

Close ==
    /\ ~closed /\ closed' = TRUE
    /\ UNCHANGED <<open, refused, written, delivered, foreign>>

Write(e) ==
    /\ written' = [written EXCEPT ![e] = @ + 1]
    /\ UNCHANGED <<open, refused, closed, delivered, foreign>>

ForeignFirst(e) == foreign' = foreign \/ (delivered[e] = 0 /\ foreign' = [foreign EXCEPT ![e] = TRUE])

Deliver(e) ==
    /\ open
    /\ \E n \in delivered[e] + 1..written[e] : delivered' = [delivered EXCEPT ![e] = n]
    /\ ForeignFirst(e)
    /\ UNCHANGED <<open, refused, closed, written>>

Inject(e) ==
    /\ open \/ refused
    /\ ForeignFirst(e)
    /\ UNCHANGED <<open, refused, closed, written, delivered>>

Next ==
    \/ Open \/ Refuse \/ Retry \/ Close
    \/ \E e \in Ends : Write(e) \/ Deliver(e) \/ Inject(e)

(* What has been written arrives, while both ends are there. *)
Spec ==
    /\ Init /\ [][Next]_vars
    /\ \A e \in Ends : WF_vars(~closed /\ Deliver(e))
=============================================================================
