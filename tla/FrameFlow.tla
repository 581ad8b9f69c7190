------------------------------ MODULE FrameFlow ------------------------------
(***************************************************************************)
(* Flow control of the video: after each frame a display's capture thread  *)
(* waits until its viewers have fetched it, at most three seconds.         *)
(* src/src/server/video_service.rs, VideoFrameController and the end of    *)
(* run; src/src/server/connection.rs, the rx_video branch of start.        *)
(*                                                                         *)
(* The connections announce what they fetch by their id, on the one        *)
(* channel FRAME_FETCHED_NOTIFIER that all displays' threads read; its     *)
(* mutex admits one of them at a time.  Peers that acknowledge frames      *)
(* themselves (video_ack_required) only announce them later.               *)
(***************************************************************************)
EXTENDS Naturals, Sequences, FiniteSets, FiniteSetsExt, SequencesExt

CONSTANTS
    Conns,
    Displays,
    MaxWait,     \* timeouts of try_wait_next that make up the three seconds
    MaxFrames    \* bound: messages sent, on all displays

ASSUME WaitAssumption == MaxWait \in Nat \ {0} /\ MaxFrames \in Nat

VARIABLES
    viewers,    \* per display: subscribes of its video service
    closed,     \* connections whose loop has ended
    queue,      \* per connection: rx_video, a frame standing for its display
    channel,    \* FRAME_FETCHED_NOTIFIER: connection ids
    outdated,   \* displays captured for another privacy mode than the present
    pc,         \* per display: "send", or in the wait "check" or "wait"
    send_conn_ids,
    fetched_conn_ids,
    waited,     \* per display: timeouts in the present wait
    frames,     \* messages sent so far
    given_up    \* history: ids that come, or do not come, without a wait for them

vars == <<viewers, closed, queue, channel, outdated, pc, send_conn_ids,
          fetched_conn_ids, waited, frames, given_up>>

Init ==
    /\ viewers \in [Displays -> SUBSET Conns]
    /\ closed = {}
    /\ queue = [c \in Conns |-> <<>>]
    /\ channel = <<>>
    /\ outdated = {}
    /\ pc = [d \in Displays |-> "send"]
    /\ send_conn_ids = [d \in Displays |-> {}]
    /\ fetched_conn_ids = [d \in Displays |-> {}]
    /\ waited = [d \in Displays |-> 0]
    /\ frames = 0
    /\ given_up = 0

-----------------------------------------------------------------------------
(* The capture thread of display d.  Definitions named after a deviation   *)
(* are the ones after them with a plausible mistake.                       *)

(* Into the queue of every subscriber of d's service; nobody reads that of *)
(* a closed one any more.                                                  *)
SendTo(d, m) ==
    [c \in Conns |-> IF c \in viewers[d] \ closed THEN Append(queue[c], m) ELSE queue[c]]

(* check_privacy_mode_changed, at the head of the loop and of the wait. *)
privacy_mode_changed(d) == d \in outdated

(* Privacy mode was switched before d captures a frame: run starts anew.   *)
(* The other reasons for SWITCH come there too, with nothing to wait for.  *)
run_anew(d) ==
    /\ pc[d] = "send" /\ privacy_mode_changed(d)
    /\ outdated' = outdated \ {d}
    /\ UNCHANGED <<viewers, closed, queue, channel, pc, send_conn_ids,
                   fetched_conn_ids, waited, frames, given_up>>

(* The thread goes on to the next frame with nothing to wait for; what is  *)
(* awaited yet is given up.  If privacy mode was switched, run starts anew *)
(* with a capturer for the present one.                                    *)
leave_wait(d, awaited) ==
    /\ pc' = [pc EXCEPT ![d] = "send"]
    /\ send_conn_ids' = [send_conn_ids EXCEPT ![d] = {}]
    /\ fetched_conn_ids' = [fetched_conn_ids EXCEPT ![d] = {}]
    /\ waited' = [waited EXCEPT ![d] = 0]
    /\ outdated' = outdated \ {d}
    /\ given_up' = given_up + awaited

(* The frame is sent; the wait begins with a look at the privacy mode,     *)
(* which may have been switched since the last.                            *)
send_video_frame(d) ==
    /\ pc[d] = "send"
    /\ frames < MaxFrames
    /\ frames' = frames + 1
    /\ queue' = SendTo(d, d)
    /\ IF privacy_mode_changed(d) THEN leave_wait(d, Cardinality(viewers[d]))
       ELSE /\ send_conn_ids' = [send_conn_ids EXCEPT ![d] = viewers[d]]
            /\ pc' = [pc EXCEPT ![d] = "wait"]
            /\ UNCHANGED <<outdated, fetched_conn_ids, waited, given_up>>
    /\ UNCHANGED <<viewers, closed, channel>>

(* SwitchDisplay travels with the frames, and is announced like one, but   *)
(* not waited for.                                                         *)
try_broadcast_display_changed(d) ==
    /\ pc[d] = "send"
    /\ frames < MaxFrames
    /\ frames' = frames + 1
    /\ queue' = SendTo(d, "SwitchDisplay")
    /\ given_up' = given_up + Cardinality(viewers[d])
    /\ UNCHANGED <<viewers, closed, channel, outdated, pc, send_conn_ids,
                   fetched_conn_ids, waited>>

all_fetched_any(d, fetched) == fetched # {} \/ send_conn_ids[d] = {}

all_fetched(d, fetched) == Cardinality(fetched) >= Cardinality(send_conn_ids[d])

time_is_up(w) == w >= MaxWait

(* What follows a call of try_wait_next that leaves the thread with        *)
(* fetched, after w timeouts.                                              *)
EndWait(d, fetched, w) ==
    /\ IF all_fetched(d, fetched) THEN leave_wait(d, 0)
       ELSE IF time_is_up(w) \/ privacy_mode_changed(d)
       THEN leave_wait(d, Cardinality(send_conn_ids[d]) - Cardinality(fetched))
       ELSE /\ fetched_conn_ids' = [fetched_conn_ids EXCEPT ![d] = fetched]
            /\ waited' = [waited EXCEPT ![d] = w]
            /\ UNCHANGED <<pc, send_conn_ids, outdated, given_up>>
    /\ UNCHANGED <<viewers, closed, queue, frames>>

nobody_to_wait_for(d) ==
    /\ pc[d] = "wait" /\ send_conn_ids[d] = {}
    /\ EndWait(d, {}, waited[d])
    /\ UNCHANGED channel

(* The first id in the channel is taken, soon or after a while. *)
try_wait_next(d) ==
    /\ pc[d] = "wait" /\ send_conn_ids[d] # {}
    /\ channel # <<>>
    /\ channel' = Tail(channel)
    /\ \E w \in {waited[d], waited[d] + 1} :
          EndWait(d, fetched_conn_ids[d] \cup {Head(channel)}, w)

wait_times_out_anew(d) ==
    /\ pc[d] = "wait" /\ send_conn_ids[d] # {}
    /\ channel = <<>>
    /\ EndWait(d, fetched_conn_ids[d], 0)
    /\ UNCHANGED channel

wait_times_out(d) ==
    /\ pc[d] = "wait" /\ send_conn_ids[d] # {}
    /\ channel = <<>>
    /\ EndWait(d, fetched_conn_ids[d], waited[d] + 1)
    /\ UNCHANGED channel

ThreadStep(d) ==
    \/ send_video_frame(d) \/ try_broadcast_display_changed(d)
    \/ run_anew(d) \/ nobody_to_wait_for(d) \/ try_wait_next(d) \/ wait_times_out(d)

-----------------------------------------------------------------------------
(* The connections.                                                        *)

notify_video_frame_fetched(c) == channel' = Append(channel, c)

threadVars == <<outdated, pc, send_conn_ids, fetched_conn_ids, waited, frames>>

(* The loop takes a frame from rx_video, announces it and sends it. *)
fetch(c) ==
    /\ c \notin closed
    /\ queue[c] # <<>>
    /\ queue' = [queue EXCEPT ![c] = Tail(@)]
    /\ notify_video_frame_fetched(c)
    /\ UNCHANGED <<viewers, closed, threadVars, given_up>>

(* The loop has ended: the connection is announced once more, so that      *)
(* nobody waits for it, and fetches nothing any more ...                   *)
close(c) ==
    /\ c \notin closed
    /\ closed' = closed \cup {c}
    /\ notify_video_frame_fetched(c)
    /\ queue' = [queue EXCEPT ![c] = <<>>]
    /\ given_up' = given_up + 1
    /\ UNCHANGED <<viewers, threadVars>>

(* ... and is removed from the services later. *)
remove(c) ==
    /\ c \in closed
    /\ viewers' = [d \in Displays |-> viewers[d] \ {c}]
    /\ UNCHANGED <<closed, queue, channel, threadVars, given_up>>

(* The peer looks at one more display, which its thread takes in before it *)
(* sends a frame, or at one less.                                          *)
capture(c, d) ==
    /\ c \notin closed /\ pc[d] = "send"
    /\ c \notin viewers[d]
    /\ viewers' = [viewers EXCEPT ![d] = @ \cup {c}]
    /\ UNCHANGED <<closed, queue, channel, threadVars, given_up>>

uncapture(c, d) ==
    /\ c \notin closed /\ c \in viewers[d]
    /\ viewers' = [viewers EXCEPT ![d] = @ \ {c}]
    /\ UNCHANGED <<closed, queue, channel, threadVars, given_up>>

(* A connection turns privacy mode on or off, or takes it over: what was   *)
(* captured for the mode so far is outdated, what was captured for another *)
(* may be right again.                                                     *)
switch_privacy_mode ==
    /\ \E right_again \in SUBSET outdated : outdated' = Displays \ right_again
    /\ UNCHANGED <<viewers, closed, queue, channel, pc, send_conn_ids,
                   fetched_conn_ids, waited, frames, given_up>>

Next ==
    \/ switch_privacy_mode
    \/ \E d \in Displays : ThreadStep(d)
    \/ \E c \in Conns : fetch(c) \/ close(c) \/ remove(c)
    \/ \E c \in Conns, d \in Displays : capture(c, d) \/ uncapture(c, d)

(* The capture threads run; no peer has to fetch anything. *)
Spec == Init /\ [][Next]_vars /\ \A d \in Displays : WF_vars(ThreadStep(d))

-----------------------------------------------------------------------------
(* Frames on their way to open connections, and announcements nobody has   *)
(* read.                                                                   *)
UnderWay == MapThenSumSet(LAMBDA c : Len(queue[c]), Conns) + Len(channel)

(* How many more ids the threads wait for. *)
Awaited ==
    MapThenSumSet(LAMBDA d : Cardinality(send_conn_ids[d]) - Cardinality(fetched_conn_ids[d]),
                  {d \in Displays : pc[d] = "wait"})

(* Although a display's thread counts ids it was not meant to, every frame *)
(* it sends is paid for by an id it takes: what is under way is at most    *)
(* what is awaited, and what timeouts, switches of privacy mode, closed     *)
(* connections and changed displays have left behind.  Without those a     *)
(* slow peer cannot fill the queues.                                       *)
BacklogIsBounded == UnderWay <= Awaited + given_up

(* A thread that waits goes on, whoever fetches or not and whichever       *)
(* thread takes the ids.                                                   *)
NobodyHoldsTheOthersUp == \A d \in Displays : []<>(pc[d] = "send")
=============================================================================
