----------------------------- MODULE VoiceCall -----------------------------
(***************************************************************************)
(* A voice call over one connection.  The client asks for it               *)
(* (src/src/client/io_loop.rs), the host's connection passes the question  *)
(* to the connection manager (src/src/server/connection.rs,                *)
(* src/src/ui_cm_interface.rs), somebody there accepts or declines, and    *)
(* either side closes.  Messages and clicks cross on four channels, each   *)
(* in order.  While a call lasts the host records from its default device  *)
(* instead of the chosen one; the option is set by threads of their own.   *)
(***************************************************************************)
EXTENDS Naturals, Sequences

CONSTANTS
    MaxRequests,    \* bound: requests of the client
    MaxClicks       \* bound: other clicks, on either side

None == 0                   \* no timestamp, no recorder
Chosen == "chosen"          \* the device of the host's settings
Default == "default"        \* get_default_sound_input

VARIABLES
    client,     \* timestamp, the recorder that can be stopped, what is shown
    recording,  \* threads that record on the client and send
    host,       \* timestamp and device before the call
    input,      \* the option audio-input of the host
    setters,    \* threads that are about to set it
    cm,         \* what the connection manager shows
    to_host, to_client, to_cm, from_cm,     \* messages under way
    connected,  \* the connection lasts
    asked, clicks,                          \* what the bounds count
    crossed,    \* history: while it waited, the client got an answer to an
                \* earlier request or the end of an earlier call
    revived,    \* history: it took one to a request it had given up
    overlaid,   \* history: a call was asked for while one side was in one
    raced       \* history: the option was read while a thread was about to
                \* set it

channels == <<to_host, to_client, to_cm, from_cm>>
bounds == <<asked, clicks>>
history == <<crossed, revived, overlaid, raced>>
vars == <<client, recording, host, input, setters, cm, channels, connected, bounds, history>>

Init ==
    /\ client = [ts |-> None, sender |-> None, shown |-> "notStarted"]
    /\ recording = {}
    /\ host = [ts |-> None, backup |-> {}]
    /\ input = Chosen
    /\ setters = <<>>
    /\ cm = "none"
    /\ to_host = <<>> /\ to_client = <<>> /\ to_cm = <<>> /\ from_cm = <<>>
    /\ connected = TRUE
    /\ asked = 0 /\ clicks = 0
    /\ crossed = FALSE /\ revived = FALSE /\ overlaid = FALSE /\ raced = FALSE

Clicks == clicks < MaxClicks /\ clicks' = clicks + 1

(* What is sent over the connection and between the processes. *)
Call(n) == [is |-> "request", connect |-> TRUE, ts |-> n]
HangUp == [is |-> "request", connect |-> FALSE, ts |-> None]
Answer(n, accepted) == [is |-> "response", accepted |-> accepted, ts |-> n]

-----------------------------------------------------------------------------
(* The client.  Definitions named after a deviation are the ones after     *)
(* them with a plausible mistake.                                          *)

onClient == <<host, input, setters, cm, to_cm, from_cm, connected>>

NewVoiceCall ==
    /\ connected /\ asked < MaxRequests
    /\ asked' = asked + 1
    /\ client' = [client EXCEPT !.ts = asked + 1, !.shown = "waiting"]
    /\ to_host' = Append(to_host, Call(asked + 1))
    /\ overlaid' = (overlaid \/ client.sender # None)
    /\ UNCHANGED <<recording, to_client, clicks, crossed, revived, raced, onClient>>

stop_nothing == client

stop_voice_call == [client EXCEPT !.sender = None]

(* The button is there while the client waits or is in a call. *)
CloseVoiceCall ==
    /\ connected /\ client.shown # "notStarted" /\ Clicks
    /\ client' = [stop_voice_call EXCEPT !.shown = "notStarted"]
    /\ to_host' = Append(to_host, HangUp)
    /\ UNCHANGED <<recording, to_client, asked, history, onClient>>

(* The host hangs up: only a call is closed, not a request. *)
on_hang_up ==
    /\ connected /\ to_client # <<>> /\ Head(to_client) = HangUp
    /\ to_client' = Tail(to_client)
    /\ client' = IF client.sender = None THEN client
                 ELSE [client EXCEPT !.sender = None, !.shown = "notStarted"]
    /\ crossed' = (crossed \/ (client.sender = None /\ client.shown = "waiting"))
    /\ UNCHANGED <<recording, to_host, bounds, revived, overlaid, raced, onClient>>

response_any(r) == client.ts # None

(* Is it the answer to the present request? *)
response_fits(r) == client.ts = r.ts

(* The timestamp is taken whether it fits or not.  A new recorder replaces *)
(* one that was left.                                                      *)
on_response ==
    /\ connected /\ to_client # <<>> /\ Head(to_client) # HangUp
    /\ to_client' = Tail(to_client)
    /\ LET r == Head(to_client) IN
          \/ /\ response_fits(r) /\ r.accepted
             /\ client' = [ts |-> None, sender |-> r.ts, shown |-> "connected"]
             /\ recording' = recording \cup {r.ts}
             /\ revived' = (revived \/ client.shown # "waiting")
             /\ UNCHANGED crossed
          \/ /\ response_fits(r) /\ ~r.accepted
             /\ client' = [client EXCEPT !.ts = None, !.shown = "notStarted"]
             /\ UNCHANGED <<recording, crossed, revived>>
          \/ /\ ~response_fits(r)
             /\ client' = [client EXCEPT !.ts = None]
             /\ crossed' = (crossed \/ client.ts # None)
             /\ UNCHANGED <<recording, revived>>
    /\ UNCHANGED <<to_host, bounds, overlaid, raced, onClient>>

(* A recorder sees that its sender has sent or is gone. *)
recorder_exits(n) ==
    /\ client.sender # n
    /\ recording' = recording \ {n}
    /\ UNCHANGED <<client, to_host, to_client, bounds, history, onClient>>

-----------------------------------------------------------------------------
(* The host.                                                               *)

(* set_sound_input: the option is read now and set later.  The name is     *)
(* that of the device, which may be the one of before.                     *)
set_sound_input(device) ==
    /\ setters' = IF input = device THEN setters ELSE Append(setters, device)
    /\ raced' = (raced \/ setters # <<>>)

setter_runs(i) ==
    /\ input' = setters[i]
    /\ setters' = [j \in 1 .. Len(setters) - 1 |-> IF j < i THEN setters[j] ELSE setters[j + 1]]
    /\ UNCHANGED <<client, recording, host, cm, channels, connected, bounds, history>>

onHost == <<client, recording, cm, connected, bounds, input, crossed, revived>>

on_call ==
    /\ connected /\ to_host # <<>> /\ Head(to_host) # HangUp
    /\ to_host' = Tail(to_host)
    /\ host' = [host EXCEPT !.ts = Head(to_host).ts]
    /\ overlaid' = (overlaid \/ host.backup # {})
    /\ to_cm' = Append(to_cm, "VoiceCallIncoming")
    /\ UNCHANGED <<to_client, from_cm, setters, raced, onHost>>

close_keeps_device ==
    /\ host' = [host EXCEPT !.backup = {}]
    /\ to_cm' = Append(to_cm, "CloseVoiceCall")
    /\ UNCHANGED <<setters, raced>>

close_voice_call ==
    /\ host' = [host EXCEPT !.backup = {}]
    /\ \/ \E device \in host.backup : set_sound_input(device)
       \/ host.backup = {} /\ UNCHANGED <<setters, raced>>
    /\ to_cm' = Append(to_cm, "CloseVoiceCall")

close_by_client ==
    /\ connected /\ to_host # <<>> /\ Head(to_host) = HangUp
    /\ to_host' = Tail(to_host)
    /\ close_voice_call
    /\ UNCHANGED <<to_client, from_cm, overlaid, onHost>>

(* Without a timestamp the answer of the connection manager is ignored.    *)
(* There may be no default device.                                         *)
handle_voice_call ==
    /\ connected /\ from_cm # <<>> /\ Head(from_cm) # "close"
    /\ from_cm' = Tail(from_cm)
    /\ \/ /\ host.ts # None /\ Head(from_cm) = "accept"
          /\ host' = [ts |-> None, backup |-> {input}]
          /\ \/ set_sound_input(Default)
             \/ raced' = (raced \/ setters # <<>>) /\ UNCHANGED setters
          /\ to_cm' = Append(to_cm, "StartVoiceCall")
          /\ to_client' = Append(to_client, Answer(host.ts, TRUE))
       \/ /\ host.ts # None /\ Head(from_cm) = "decline"
          /\ host' = [host EXCEPT !.ts = None]
          /\ to_cm' = Append(to_cm, "CloseVoiceCall")
          /\ to_client' = Append(to_client, Answer(host.ts, FALSE))
          /\ UNCHANGED <<setters, raced>>
       \/ /\ host.ts = None
          /\ UNCHANGED <<host, setters, raced, to_cm, to_client>>
    /\ UNCHANGED <<to_host, overlaid, onHost>>

close_by_cm ==
    /\ connected /\ from_cm # <<>> /\ Head(from_cm) = "close"
    /\ from_cm' = Tail(from_cm)
    /\ close_voice_call
    /\ to_client' = Append(to_client, HangUp)
    /\ UNCHANGED <<to_host, overlaid, onHost>>

-----------------------------------------------------------------------------
(* The connection manager and whoever sits before it.                      *)

cm_shows(m) ==
    CASE m = "VoiceCallIncoming" -> "incoming"
      [] m = "StartVoiceCall" -> "in_call"
      [] OTHER -> "none"

onCm == <<client, recording, host, input, setters, to_host, to_client, connected, asked, history>>

cm_receives ==
    /\ connected /\ to_cm # <<>>
    /\ to_cm' = Tail(to_cm)
    /\ cm' = cm_shows(Head(to_cm))
    /\ UNCHANGED <<from_cm, clicks, onCm>>

(* Clicks change nothing here before the host has answered, so there may   *)
(* be several.                                                             *)
cm_clicks ==
    /\ connected /\ Clicks
    /\ \/ cm = "incoming" /\ \E a \in {"accept", "decline"} : from_cm' = Append(from_cm, a)
       \/ cm = "in_call" /\ from_cm' = Append(from_cm, "close")
    /\ UNCHANGED <<cm, to_cm, onCm>>

-----------------------------------------------------------------------------
(* The connection ends, with all that is under way.  The client stops its  *)
(* recorder, the connection manager forgets the connection, and nobody     *)
(* remembers the host's device.                                            *)
connection_lost ==
    /\ connected
    /\ connected' = FALSE
    /\ client' = [ts |-> None, sender |-> None, shown |-> "notStarted"]
    /\ host' = [ts |-> None, backup |-> {}]
    /\ cm' = "none"
    /\ to_host' = <<>> /\ to_client' = <<>> /\ to_cm' = <<>> /\ from_cm' = <<>>
    /\ UNCHANGED <<recording, input, setters, bounds, history>>

Next ==
    \/ NewVoiceCall \/ CloseVoiceCall \/ on_hang_up \/ on_response
    \/ \E n \in recording : recorder_exits(n)
    \/ on_call \/ close_by_client \/ handle_voice_call \/ close_by_cm
    \/ \E i \in DOMAIN setters : setter_runs(i)
    \/ cm_receives \/ cm_clicks
    \/ connection_lost

(* Messages arrive and threads run.  Nobody has to click. *)
Fairness ==
    /\ WF_vars(on_hang_up \/ on_response)
    /\ WF_vars(on_call \/ close_by_client)
    /\ WF_vars(handle_voice_call \/ close_by_cm)
    /\ WF_vars(cm_receives)
    /\ WF_vars(\E n \in recording : recorder_exits(n))
    /\ WF_vars(\E i \in DOMAIN setters : setter_runs(i))

Spec == Init /\ [][Next]_vars /\ Fairness

-----------------------------------------------------------------------------
InCall == host.backup # {}

Quiet == connected /\ to_host = <<>> /\ to_client = <<>> /\ to_cm = <<>> /\ from_cm = <<>>

(* When nothing is under way, the three agree whether there is a call, and *)
(* a client that waits is one whose request can be answered: the manager   *)
(* shows it, and the answer will fit.  This holds whatever has crossed,    *)
(* except for an answer or an end that met a later request, an answer that *)
(* revived a request given up, and a call asked for during a call.         *)
PartiesAgree ==
    (Quiet /\ ~crossed /\ ~revived /\ ~overlaid) =>
        /\ InCall <=> client.shown = "connected"
        /\ InCall <=> client.sender # None
        /\ InCall <=> cm = "in_call"
        /\ client.shown = "waiting" <=> cm = "incoming"
        /\ client.shown = "waiting" => client.ts = host.ts

(* After a call the host records from the device that was chosen, unless   *)
(* the connection was lost in the call, the option was still being set     *)
(* when it was read, or a second call was accepted during the first.       *)
DeviceIsRestored ==
    (connected /\ ~InCall /\ setters = <<>> /\ ~raced /\ ~overlaid) => input = Chosen

(* A client that shows no call stops recording, unless it had asked for a  *)
(* call during a call: declining the second does not end the first.        *)
RecordingEnds ==
    (client.shown = "notStarted" /\ ~overlaid) ~> (recording = {} \/ client.shown # "notStarted")
-----------------------------------------------------------------------------
(* What makes these so, beginning with the types. *)
Stamps == Nat \ {None}
Requests == {HangUp} \cup [is : {"request"}, connect : {TRUE}, ts : Stamps]
Responses == {HangUp} \cup [is : {"response"}, accepted : BOOLEAN, ts : Stamps]

Devices == {Chosen, Default}
ClientStates == [ts : Nat, sender : Nat, shown : {"notStarted", "waiting", "connected"}]
HostStates == [ts : Nat, backup : SUBSET Devices]
CmMessages == {"VoiceCallIncoming", "StartVoiceCall", "CloseVoiceCall"}
CmAnswers == {"accept", "decline", "close"}

VoiceTypeOK ==
    /\ client \in ClientStates /\ host \in HostStates
    /\ input \in Devices /\ setters \in Seq(Devices)
    /\ cm \in {"none", "incoming", "in_call"}
    /\ to_host \in Seq(Requests) /\ to_client \in Seq(Responses)
    /\ to_cm \in Seq(CmMessages) /\ from_cm \in Seq(CmAnswers)
    /\ asked \in Nat
    /\ connected \in BOOLEAN /\ crossed \in BOOLEAN /\ revived \in BOOLEAN
    /\ overlaid \in BOOLEAN /\ raced \in BOOLEAN

(* Without a call during a call the host has no request to answer while it *)
(* is in one, and what the manager shows, or will once it has read its     *)
(* messages, is a call exactly when there is one and a question only when  *)
(* there is a request.                                                     *)
Finally == IF to_cm = <<>> THEN cm ELSE cm_shows(to_cm[Len(to_cm)])

HostInv ==
    ~overlaid =>
        /\ InCall => host.ts = None
        /\ InCall <=> Finally = "in_call"
        /\ Finally = "incoming" => host.ts # None

(* The device.  At most one thread is about to set the option, and outside *)
(* a call what it is about to set is the chosen device.                    *)
DeviceInv ==
    (connected /\ ~raced /\ ~overlaid) =>
        /\ Len(setters) <= 1
        /\ host.backup \in {{}, {Chosen}}
        /\ ~InCall => Chosen = IF setters = <<>> THEN input ELSE setters[1]

(* Where in a channel something else than the end of a call is. *)
Stamped(channel) == {i \in 1..Len(channel) : channel[i] # HangUp}

(* Every request is answered at most once: no request follows the latest,  *)
(* and once it is at the host no other is under way; its answer is the     *)
(* last, and leaves the host without a request.                            *)
StampInv ==
    /\ client.ts \in {None, asked} /\ host.ts <= asked
    /\ \A i \in Stamped(to_host) : to_host[i].ts <= asked
    /\ \A i \in Stamped(to_client) : to_client[i].ts <= asked
    /\ client.ts = None => host.ts = None /\ Stamped(to_host) = {} /\ Stamped(to_client) = {}
    /\ (client.ts # None /\ host.ts = client.ts) => Stamped(to_host) = {}
    /\ \A i, j \in Stamped(to_host) : i < j => to_host[i].ts # client.ts
    /\ \A i \in Stamped(to_client) : to_client[i].ts = client.ts =>
          /\ host.ts = None /\ Stamped(to_host) = {}
          /\ \A j \in Stamped(to_client) : j <= i
          /\ ~to_client[i].accepted => ~InCall

(* Where the client stands. A client that waits has its request before the *)
(* host or at it; when it was accepted, the call lasts unless its end      *)
(* follows the answer.                                                     *)
WaitingInv ==
    client.shown = "waiting" =>
        /\ client.ts # None /\ client.sender = None
        /\ to_host # <<>> => to_host[Len(to_host)] = Call(client.ts)
        /\ (to_host = <<>> /\ to_client = <<>>) =>
              host.ts = client.ts /\ ~InCall /\ Finally = "incoming"
        /\ \A i \in Stamped(to_client) :
              (to_client[i].ts = client.ts /\ to_client[i].accepted) =>
                  (InCall <=> i = Len(to_client))

ConnectedInv ==
    client.shown = "connected" =>
        /\ client.ts = None /\ client.sender # None /\ to_host = <<>>
        /\ InCall <=> to_client = <<>>

(* One that does neither has hung up last, if it has anything to say, and  *)
(* the host takes it so unless an answer is under way.                     *)
NotStartedInv ==
    client.shown = "notStarted" =>
        /\ client.sender = None
        /\ to_host # <<>> => to_host[Len(to_host)] = HangUp
        /\ (to_host = <<>> /\ Stamped(to_client) = {}) => Finally = "none"

AgreeInv ==
    (connected /\ ~crossed /\ ~revived /\ ~overlaid) =>
        StampInv /\ WaitingInv /\ ConnectedInv /\ NotStartedInv
=============================================================================
