---------------------------- MODULE VideoService ----------------------------
(***************************************************************************)
(* The video service of one display: the thread made by ServiceTmpl::run   *)
(* around the callback run of src/src/server/video_service.rs, with the    *)
(* subscription table of Service.                                          *)
(*                                                                         *)
(* An encoder's first frame is a key frame, its others can be decoded only *)
(* by who has had all since the key frame.  Every reason to start over     *)
(* (a new codec, recording, privacy mode, a changed display, a refresh,    *)
(* newcomers) makes the callback fail with SWITCH, and the loop around it  *)
(* makes a new encoder.  How frames are acknowledged is in FrameFlow.      *)
(***************************************************************************)
EXTENDS Service

CONSTANT MaxRequests    \* bound: settings changed, refreshes and switches of display

ASSUME RequestsAssumption == MaxRequests \in Nat
(* video_service::new asks for snapshots. *)
ASSUME VideoNeedsSnapshot == NeedSnapshot = TRUE

VARIABLES
    pc,          \* where the service's thread is
    fresh,       \* the present encoder has made no frame yet
    outdated,    \* what differs from when it was set up, a subset of Settings
    refresh,     \* OPTION_REFRESH of the service
    requests,    \* number of requests so far
    decoding,    \* history: who has had all the present encoder's frames
    undecodable, \* history: who was last sent a frame it cannot decode
    alone,       \* history: who was moved over while nobody was watching
    asked        \* history: who waits for the key frame of a refresh

videoVars ==
    <<vars, pc, fresh, outdated, refresh, requests, decoding, undecodable, alone, asked>>

frameVars == <<decoding, undecodable, alone, asked>>

(* Codec, colour format, recording or privacy mode; and the display itself. *)
Settings == {"config", "display"}

(* Where the thread is inside the callback, with its encoder set up. *)
InLoop == {"loop", "checks", "frame", "snap", "snap_has", "swap_ok", "encode",
           "send", "wait"}

ThreadSteps == InLoop \cup
    {"top", "has", "setup", "clear", "changed", "swap_switch", "exit"}

VideoTypeOK ==
    /\ TypeOK
    /\ pc \in ThreadSteps
    /\ fresh \in BOOLEAN
    /\ outdated \subseteq Settings
    /\ refresh \in BOOLEAN
    /\ requests \in 0..MaxRequests
    /\ decoding \subseteq Conns
    /\ undecodable \subseteq Conns
    /\ alone \subseteq Conns
    /\ asked \subseteq Conns

VideoInit ==
    /\ Init
    /\ pc = "top"
    /\ fresh = TRUE
    /\ outdated = {}
    /\ refresh = FALSE
    /\ requests = 0
    /\ decoding = {} /\ undecodable = {} /\ alone = {} /\ asked = {}

-----------------------------------------------------------------------------
(* The thread.  As in Service, a definition named after a deviation is the *)
(* one after it with a plausible mistake, unused by the specification.     *)

Goto(from, to) == pc = from /\ pc' = to

(* ServiceTmpl::run. *)
run_top ==
    /\ pc = "top"
    /\ pc' = IF active THEN "has" ELSE "exit"
    /\ UNCHANGED <<vars, fresh, outdated, refresh, requests, frameVars>>

run_has_subscribes ==
    /\ pc = "has"
    /\ pc' = IF Subscribed # {} THEN "setup" ELSE "top"
    /\ UNCHANGED <<vars, fresh, outdated, refresh, requests, frameVars>>

(* The callback makes a capturer and an encoder for the present settings,  *)
(* or fails.                                                               *)
setup_encoder ==
    /\ Goto("setup", "clear")
    /\ fresh' = TRUE
    /\ outdated' = {}
    /\ UNCHANGED <<vars, refresh, requests, frameVars>>

setup_fails ==
    /\ Goto("setup", "top")
    /\ UNCHANGED <<vars, fresh, outdated, refresh, requests, frameVars>>

(* A refresh that was asked for until here is met by the new encoder. *)
clear_refresh ==
    /\ Goto("clear", "loop")
    /\ refresh' = FALSE
    /\ UNCHANGED <<vars, fresh, outdated, requests, frameVars>>

(* while sp.ok() *)
callback_ok ==
    /\ pc = "loop"
    /\ pc' = IF active /\ Subscribed # {} THEN "checks" ELSE "top"
    /\ UNCHANGED <<vars, fresh, outdated, refresh, requests, frameVars>>

check_settings_forgets_refresh ==
    /\ pc = "checks"
    /\ pc' = IF outdated # {} THEN "top" ELSE "frame"
    /\ refresh' = FALSE
    /\ UNCHANGED <<vars, fresh, outdated, requests, frameVars>>

(* The reasons for SWITCH.  The settings are compared every time, the      *)
(* display on a refresh and once a second.                                 *)
check_settings ==
    /\ pc = "checks"
    /\ \/ "config" \in outdated /\ pc' = "top"
       \/ refresh /\ "display" \notin outdated /\ pc' = "top"
       \/ "display" \in outdated /\ (refresh \/ "config" \notin outdated) /\ pc' = "changed"
       \/ ~refresh /\ "config" \notin outdated /\ pc' = "frame"
    /\ UNCHANGED <<vars, fresh, outdated, refresh, requests, frameVars>>

(* A changed display is broadcast, also to the newcomers, who are moved    *)
(* over by that, and then switched.                                        *)
try_broadcast_display_changed ==
    /\ pc = "changed"
    /\ pc' = IF new_subscribes # {} THEN "swap_switch" ELSE "top"
    /\ UNCHANGED <<vars, fresh, outdated, refresh, requests, frameVars>>

(* The capturer has a frame, none yet (WouldBlock), or fails. *)
capture_frame ==
    /\ Goto("frame", "snap")
    /\ UNCHANGED <<vars, fresh, outdated, refresh, requests, frameVars>>

capture_would_block ==
    /\ Goto("frame", "loop")
    /\ UNCHANGED <<vars, fresh, outdated, refresh, requests, frameVars>>

capture_fails ==
    /\ Goto("frame", IF "display" \in outdated THEN "changed" ELSE "top")
    /\ UNCHANGED <<vars, fresh, outdated, refresh, requests, frameVars>>

(* handle_one_frame: newcomers are looked for ... *)
frame_snapshot ==
    /\ pc = "snap"
    /\ pc' = IF new_subscribes # {} THEN "snap_has" ELSE "encode"
    /\ UNCHANGED <<vars, fresh, outdated, refresh, requests, frameVars>>

snapshot_never_switches ==
    /\ Goto("snap_has", "swap_ok")
    /\ UNCHANGED <<vars, fresh, outdated, refresh, requests, frameVars>>

(* ... if others are watching the encoder is given up ... *)
snapshot_has_subscribes ==
    /\ pc = "snap_has"
    /\ pc' = IF subscribes # {} THEN "swap_switch" ELSE "swap_ok"
    /\ UNCHANGED <<vars, fresh, outdated, refresh, requests, frameVars>>

snapshot_swap_old_lost ==
    /\ \/ Goto("swap_ok", "encode")
       \/ Goto("swap_switch", "top")
    /\ subscribes' = new_subscribes /\ new_subscribes' = {}
    /\ UNCHANGED <<serverVars, raced, fresh, outdated, refresh, requests, frameVars>>

(* ... and in any case the newcomers are moved over. *)
snapshot_swap ==
    /\ \/ Goto("swap_ok", "encode")
       \/ Goto("swap_switch", "top")
    /\ ThreadSwap
    /\ alone' = IF subscribes = {} THEN alone \cup new_subscribes ELSE alone
    /\ UNCHANGED <<fresh, outdated, refresh, requests, decoding, undecodable, asked>>

encode_ok ==
    /\ Goto("encode", "send")
    /\ UNCHANGED <<vars, fresh, outdated, refresh, requests, frameVars>>

(* ENCODE_NEED_SWITCH gives the encoder up, any other error the frame. *)
encode_fails ==
    /\ Goto("encode", "top") \/ Goto("encode", "wait")
    /\ UNCHANGED <<vars, fresh, outdated, refresh, requests, frameVars>>

(* A key frame can be decoded by all it is sent to, another frame by those *)
(* that have had all before it.                                            *)
send_video_frame ==
    /\ Goto("send", "wait")
    /\ fresh' = FALSE
    /\ IF fresh
       THEN /\ decoding' = subscribes
            /\ undecodable' = undecodable \ subscribes
            /\ alone' = alone \ subscribes
            /\ asked' = asked \ subscribes
       ELSE /\ decoding' = decoding \cap subscribes
            /\ undecodable' = undecodable \cup (subscribes \ decoding)
            /\ UNCHANGED <<alone, asked>>
    /\ UNCHANGED <<vars, outdated, refresh, requests>>

(* The wait for the peers is over, or privacy mode was switched meanwhile. *)
wait_ends ==
    /\ Goto("wait", "loop") \/ ("config" \in outdated /\ Goto("wait", "top"))
    /\ UNCHANGED <<vars, fresh, outdated, refresh, requests, frameVars>>

ThreadStep ==
    \/ run_top \/ run_has_subscribes \/ setup_encoder \/ setup_fails
    \/ clear_refresh \/ callback_ok \/ check_settings
    \/ try_broadcast_display_changed
    \/ capture_frame \/ capture_would_block \/ capture_fails
    \/ frame_snapshot \/ snapshot_has_subscribes \/ snapshot_swap
    \/ encode_ok \/ encode_fails \/ send_video_frame \/ wait_ends

-----------------------------------------------------------------------------
(* The others.                                                             *)

Request == requests < MaxRequests /\ requests' = requests + 1

(* Codec, recording, privacy mode or the display itself change. *)
change_settings(x) ==
    /\ Request
    /\ outdated' = outdated \cup {x}
    /\ UNCHANGED <<vars, pc, fresh, refresh, frameVars>>

(* Connection::refresh_video_display for the peer's RefreshVideo. *)
refresh_video_display(c) ==
    /\ ServerFree /\ c \in connections
    /\ Request
    /\ refresh' = TRUE
    /\ asked' = IF c \in Subscribed THEN asked \cup {c} ELSE asked
    /\ UNCHANGED <<vars, pc, fresh, outdated, decoding, undecodable, alone>>

(* Leaving the table a connection stops waiting. *)
Leave(c) ==
    /\ asked' = asked \ {c}
    /\ undecodable' = undecodable \ {c}
    /\ UNCHANGED <<pc, fresh, outdated, refresh, requests, decoding, alone>>

join_service(c) ==
    /\ add_connection(c, TRUE)
    /\ ClearRaced(c)
    /\ UNCHANGED <<pc, fresh, outdated, refresh, requests, frameVars>>

leave_service(c) ==
    /\ remove_connection(c)
    /\ ClearRaced(c)
    /\ Leave(c)

(* Server::capture_displays takes this display in or leaves it out. *)
capture_displays(c, sub) ==
    /\ c \in connections
    /\ Request
    /\ is_subed_first_read(c, sub)
    /\ ClearRaced(c)
    /\ UNCHANGED <<pc, fresh, outdated, refresh, frameVars>>

capture_displays_goes_on ==
    /\ is_subed_second_read
    /\ UNCHANGED <<raced, pc, fresh, outdated, refresh, requests, frameVars>>

capture_displays_applies ==
    /\ subscribe_apply
    /\ UNCHANGED raced
    /\ IF caller.sub
       THEN UNCHANGED <<pc, fresh, outdated, refresh, requests, frameVars>>
       ELSE Leave(caller.conn)

shut_down ==
    /\ join
    /\ UNCHANGED <<raced, pc, fresh, outdated, refresh, requests, frameVars>>

VideoNext ==
    \/ ThreadStep
    \/ \E x \in Settings : change_settings(x)
    \/ \E c \in Conns :
          \/ refresh_video_display(c)
          \/ join_service(c) \/ leave_service(c)
          \/ \E sub \in BOOLEAN : capture_displays(c, sub)
    \/ capture_displays_goes_on \/ capture_displays_applies
    \/ shut_down

(* The thread keeps running and a call to the Server returns; capturing,   *)
(* encoding and setting up do not fail every time.                         *)
VideoFairness ==
    /\ WF_videoVars(ThreadStep)
    /\ WF_videoVars(capture_displays_goes_on \/ capture_displays_applies)
    /\ SF_videoVars(setup_encoder)
    /\ SF_videoVars(capture_frame)
    /\ SF_videoVars(encode_ok)

VideoSpec == VideoInit /\ [][VideoNext]_videoVars /\ VideoFairness

-----------------------------------------------------------------------------
(* A newcomer that finds somebody watching starts with a key frame, and    *)
(* so does everybody after a switch: the only frames that cannot be        *)
(* decoded go to connections that were moved over while subscribes was     *)
(* empty.                                                                  *)
StartsWithKeyFrame == undecodable \subseteq alone

(* The inductive invariant: as long as the thread uses an encoder that has *)
(* made frames, all subscribers have had them or came while nobody was     *)
(* watching; and who is moved over without a switch finds no one there.    *)
VideoInv ==
    /\ VideoTypeOK
    /\ pc = "swap_ok" => subscribes = {}
    /\ (pc \in InLoop /\ ~fresh) => subscribes \subseteq decoding \cup alone
    /\ pc = "clear" => fresh
    /\ undecodable \subseteq alone

(* The thread and the connections change the table only by the steps of    *)
(* Service: what holds of every service's table holds of this one.         *)
UsesTheTable == Spec

(* A refresh is never lost, whenever it comes: who asks for one and stays  *)
(* gets a key frame.                                                       *)
RefreshGivesKeyFrame ==
    \A c \in Conns : c \in asked ~> (c \notin asked \/ ~active)
=============================================================================
