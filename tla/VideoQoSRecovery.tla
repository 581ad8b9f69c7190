-------------------------- MODULE VideoQoSRecovery --------------------------
(***************************************************************************)
(* VideoQoS in a network that becomes good and stays good: from some       *)
(* moment on every measured delay is 0, every peer answers in time and     *)
(* nobody changes an option.  Until then anything may have happened.       *)
(***************************************************************************)
EXTENDS VideoQoS

ASSUME CalmAssumption == 0 \in Samples

VARIABLE calm    \* the network has become good for ever

recoveryVars == <<vars, calm>>

RecoveryInit == Init /\ calm = FALSE

BecomeCalm ==
    /\ ~calm
    /\ calm' = TRUE
    /\ UNCHANGED vars

Turbulent == ~calm /\ Next /\ UNCHANGED calm

GoodSample(c) ==
    /\ calm
    /\ c \in Conns \ closed
    /\ user_first_delay(c, 0) \/ user_network_delay(c, 0)
    /\ UNCHANGED calm

InTime(c) ==
    /\ calm
    /\ c \in Conns \ closed
    /\ user_delay_response_elapsed(c, FALSE)
    /\ UNCHANGED calm

RecoveryNext ==
    \/ Turbulent
    \/ BecomeCalm
    \/ \E c \in Conns : GoodSample(c) \/ InTime(c)

(* Every connection's timer asks for a delay once a second, and the peer   *)
(* answers.                                                                *)
RecoverySpec ==
    /\ RecoveryInit
    /\ [][RecoveryNext]_recoveryVars
    /\ \A c \in Conns :
          WF_recoveryVars(GoodSample(c)) /\ WF_recoveryVars(InTime(c))

(* What the users would get if nobody ever had a slow network. *)
AskedFps == fps_of([c \in DOMAIN users |->
                      [users[c] EXCEPT !.delay = None, !.response_delayed = FALSE]])

(* The controller never gets stuck below what was asked for: after any     *)
(* history of delays, once the network is good for ever, the frame rate    *)
(* and, through as many steps as it takes, the quality come back.          *)
Recovers ==
    <>calm => <>[](fps = AskedFps /\ quality = latest_quality(users, order))
=============================================================================
