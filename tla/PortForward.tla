---------------------------- MODULE PortForward ----------------------------
(***************************************************************************)
(* A forwarded port.  The client (src/src/port_forward.rs) and the host    *)
(* (src/src/server/connection.rs, Connection::start and                    *)
(* try_port_forward_loop) first exchange messages, each with a head, to    *)
(* log in; then each of them, at a moment of its own, takes its stream for *)
(* raw bytes (FramedStream::set_raw) and copies them from and to its       *)
(* socket: the client's to the local program, the host's to the service.   *)
(*                                                                         *)
(* A byte is a pair: <<"head", value>>, <<message, i>> for the i-th byte   *)
(* of a message, or <<end, i>> for the i-th byte written to come out at    *)
(* that end.  Who may log in is not decided here: a login, or a click in   *)
(* the connection manager, is accepted or not.                             *)
(***************************************************************************)
EXTENDS BytesCodec, FiniteSets, SequencesExt

CONSTANTS
    Length,      \* of each message
    MaxSent,     \* bound: messages sent, other than answers
    MaxWritten   \* bound: bytes written per end

Ends == {"client", "host"}
Peer(e) == IF e = "client" THEN "host" ELSE "client"
Messages == {"login", "reply", "peer_info", "test_delay", "other"}

ASSUME MessagesAssumption ==
    Length \in [Messages -> 1..Longest(4)] /\ MaxWritten \in [Ends -> Nat]

VARIABLES
    wire,       \* per end: bytes on their way to it
    buf,        \* bytes it has read and not decoded
    state,      \* DecodeState: Head, or Data(n) as n
    raw,        \* its codec is raw
    phase,      \* "login", "forward" or "closed"
    buffer,     \* of connect_and_login: what the local program sent so far
    socket,     \* port_forward_socket is Some
    authorized,
    last_test_delay,  \* is Some: an answer is awaited
    written,    \* per end: bytes written to come out there, ...
    taken,      \* read by the other end, ...
    got,        \* and what has come out
    sent,       \* how many messages were sent that are not answers
    left        \* history: by what the host left its loop of messages

codecVars == <<buf, state, raw>>
hostVars == <<socket, authorized, last_test_delay, left>>
dataVars == <<buffer, written, taken, got>>
vars == <<wire, codecVars, phase, hostVars, dataVars, sent>>

AtHead == -1

Init ==
    /\ wire = [e \in Ends |-> <<>>]
    /\ buf = [e \in Ends |-> <<>>]
    /\ state = [e \in Ends |-> AtHead]
    /\ raw = [e \in Ends |-> FALSE]
    /\ phase = [e \in Ends |-> "login"]
    /\ buffer = <<>>
    /\ socket = FALSE /\ authorized = FALSE /\ last_test_delay = FALSE
    /\ written = [e \in Ends |-> 0]
    /\ taken = [e \in Ends |-> 0]
    /\ got = [e \in Ends |-> <<>>]
    /\ sent = 0
    /\ left = "nothing"

-----------------------------------------------------------------------------
(* The codec of one end.  Definitions named after a deviation are the ones *)
(* after them with a plausible mistake.                                    *)

Frame(m) ==
    LET h == encode_head(Length[m])
    IN  [i \in 1..Len(h) |-> <<"head", h[i]>>] \o [i \in 1..Length[m] |-> <<m, i>>]

SendsBytes(e, bytes) == wire' = [wire EXCEPT ![Peer(e)] = @ \o bytes]

Answers(e, m) == SendsBytes(e, Frame(m)) /\ UNCHANGED sent

Sends(e, m) ==
    /\ sent < MaxSent /\ sent' = sent + 1
    /\ SendsBytes(e, Frame(m))

Drop(s, n) == SubSeq(s, n + 1, Len(s))

(* How many bytes the decoder needs to go on. *)
Needed(e) ==
    IF ~raw[e] /\ state[e] # AtHead THEN state[e]
    ELSE IF ~raw[e] /\ buf[e] # <<>> THEN head_len(buf[e][1][2])
    ELSE 1

CanDecode(e) == phase[e] # "closed" /\ Len(buf[e]) >= Needed(e)

(* Framed asks the network for more when the decoder cannot go on, and     *)
(* gets a chunk of any size.                                               *)
read(e) ==
    /\ phase[e] # "closed" /\ ~CanDecode(e)
    /\ \E k \in 1..Len(wire[e]) :
          /\ wire' = [wire EXCEPT ![e] = Drop(@, k)]
          /\ buf' = [buf EXCEPT ![e] = @ \o SubSeq(wire[e], 1, k)]
    /\ UNCHANGED <<state, raw, phase, hostVars, dataVars, sent>>

decode_head_of(e) ==
    /\ CanDecode(e) /\ ~raw[e] /\ state[e] = AtHead
    /\ buf[e][1][1] = "head"
    /\ LET k == head_len(buf[e][1][2])
       IN  /\ state' = [state EXCEPT ![e] = decode_head([i \in 1..k |-> buf[e][i][2]])]
           /\ buf' = [buf EXCEPT ![e] = Drop(@, k)]
    /\ UNCHANGED <<wire, raw, phase, hostVars, dataVars, sent>>

(* A complete message m is there, and is taken. *)
decode_data(e, m) ==
    /\ CanDecode(e) /\ ~raw[e] /\ state[e] # AtHead
    /\ m = buf[e][1][1]
    /\ buf' = [buf EXCEPT ![e] = Drop(@, state[e])]
    /\ state' = [state EXCEPT ![e] = AtHead]

(* The codec of a raw stream hands over what there is. *)
decode_raw(e) ==
    /\ CanDecode(e) /\ raw[e]
    /\ got' = [got EXCEPT ![e] = @ \o buf[e]]
    /\ buf' = [buf EXCEPT ![e] = <<>>]
    /\ UNCHANGED <<wire, state, raw, phase, hostVars, buffer, written, taken, sent>>

-----------------------------------------------------------------------------
(* The client.                                                             *)

(* The answer to the host's hash, and what the user enters later. *)
send_login ==
    /\ phase["client"] = "login"
    /\ Sends("client", "login")
    /\ UNCHANGED <<codecVars, phase, hostVars, dataVars>>

handle_test_delay ==
    /\ phase["client"] = "login"
    /\ decode_data("client", "test_delay")
    /\ Answers("client", "reply")
    /\ UNCHANGED <<raw, phase, hostVars, dataVars>>

peer_info_drops_buffer ==
    /\ phase["client"] = "login"
    /\ decode_data("client", "peer_info")
    /\ phase' = [phase EXCEPT !["client"] = "forward"]
    /\ raw' = [raw EXCEPT !["client"] = TRUE]
    /\ buffer' = <<>>
    /\ UNCHANGED <<wire, hostVars, written, taken, got, sent>>

(* The login has been accepted: what the local program has sent so far     *)
(* goes first.                                                             *)
handle_peer_info ==
    /\ phase["client"] = "login"
    /\ decode_data("client", "peer_info")
    /\ phase' = [phase EXCEPT !["client"] = "forward"]
    /\ raw' = [raw EXCEPT !["client"] = TRUE]
    /\ SendsBytes("client", buffer)
    /\ buffer' = <<>>
    /\ UNCHANGED <<hostVars, written, taken, got, sent>>

ignore_other ==
    /\ phase["client"] = "login"
    /\ decode_data("client", "other")
    /\ UNCHANGED <<wire, raw, phase, hostVars, dataVars, sent>>

(* Bytes of the service (see on_login_refused) read as a head: what        *)
(* follows is no message, or never complete, and the client gives up.      *)
no_message ==
    /\ phase["client"] = "login" /\ state["client"] = AtHead
    /\ buf["client"] # <<>> /\ buf["client"][1][1] # "head"
    /\ phase' = [phase EXCEPT !["client"] = "closed"]
    /\ UNCHANGED <<wire, codecVars, hostVars, dataVars, sent>>

-----------------------------------------------------------------------------
(* The host.                                                               *)

(* The loop of messages is left for try_port_forward_loop. *)
Leaves(leaves, by) ==
    /\ phase' = [phase EXCEPT !["host"] = IF leaves THEN "forward" ELSE @]
    /\ raw' = [raw EXCEPT !["host"] = leaves]
    /\ left' = IF leaves THEN by ELSE left

leaves_at_once(auth, awaits) == auth

(* "Avoid TestDelay reply injection into rdp data stream". *)
leaves_after_message(auth, awaits) == auth /\ ~awaits

(* The service is connected with, again if it was before: then it begins   *)
(* anew and what it has written to the first socket is lost.               *)
Connects == socket' = TRUE /\ written' = [written EXCEPT !["client"] = 0]

Unconnected == UNCHANGED <<socket, written>>

(* A login connects and is accepted, or the user has to try again, or to   *)
(* enter a code, which does not connect; once it is accepted a later one   *)
(* changes nothing.                                                        *)
on_login ==
    /\ phase["host"] = "login"
    /\ decode_data("host", "login")
    /\ \/ authorized /\ Unconnected /\ UNCHANGED <<authorized, wire, sent>>
       \/ /\ ~authorized /\ (Connects \/ (socket /\ Unconnected))
          /\ \/ authorized' = TRUE /\ Answers("host", "peer_info")
             \/ UNCHANGED authorized /\ Answers("host", "other")
             \/ UNCHANGED <<authorized, wire, sent>>
    /\ Leaves(leaves_after_message(authorized', last_test_delay), "message")
    /\ UNCHANGED <<last_test_delay, buffer, taken, got>>

(* A login refused for good ends the loop of messages, but it does not go  *)
(* through on_close: there may be a socket, of this login or of one before *)
(* it, and then the bytes of both are copied all the same.                 *)
on_login_refused ==
    /\ phase["host"] = "login" /\ ~authorized
    /\ decode_data("host", "login")
    /\ Connects \/ Unconnected
    /\ Answers("host", "other")
    /\ phase' = [phase EXCEPT !["host"] = IF socket' THEN "forward" ELSE "closed"]
    /\ raw' = [raw EXCEPT !["host"] = socket']
    /\ left' = "refusal"
    /\ UNCHANGED <<authorized, last_test_delay, buffer, taken, got>>

on_reply ==
    /\ phase["host"] = "login"
    /\ decode_data("host", "reply")
    /\ last_test_delay' = FALSE
    /\ Leaves(leaves_after_message(authorized /\ socket, FALSE), "message")
    /\ UNCHANGED <<wire, socket, authorized, dataVars, sent>>

(* ipc::Data::Authorize: accepted by a click. *)
on_authorize ==
    /\ phase["host"] = "login" /\ socket
    /\ authorized' = TRUE
    /\ IF authorized THEN UNCHANGED <<wire, sent>> ELSE Answers("host", "peer_info")
    /\ Leaves(TRUE, "click")
    /\ UNCHANGED <<buf, state, socket, last_test_delay, dataVars>>

test_delay_timer ==
    /\ phase["host"] = "login"
    /\ ~last_test_delay /\ ~(socket /\ authorized)
    /\ last_test_delay' = TRUE
    /\ Sends("host", "test_delay")
    /\ UNCHANGED <<codecVars, phase, socket, authorized, left, dataVars>>

(* A refused login, a permission, a chat message: anything else the loop   *)
(* of messages sends.                                                      *)
send_other ==
    /\ phase["host"] = "login"
    /\ Sends("host", "other")
    /\ UNCHANGED <<codecVars, phase, hostVars, dataVars>>

-----------------------------------------------------------------------------
(* Both: what comes from the sockets, and the end.                         *)

Write(e) ==
    /\ written[e] < MaxWritten[e]
    /\ e = "client" => socket
    /\ written' = [written EXCEPT ![e] = @ + 1]
    /\ UNCHANGED <<wire, codecVars, phase, hostVars, buffer, taken, got, sent>>

NewBytes(e) == [i \in 1..written[e] - taken[e] |-> <<e, taken[e] + i>>]

(* forward.next(), in connect_and_login ... *)
buffer_local ==
    /\ phase["client"] = "login" /\ taken["host"] < written["host"]
    /\ buffer' = buffer \o NewBytes("host")
    /\ taken' = [taken EXCEPT !["host"] = written["host"]]
    /\ UNCHANGED <<wire, codecVars, phase, hostVars, written, got, sent>>

(* ... and in run_forward and try_port_forward_loop. *)
forward(e) ==
    /\ phase[Peer(e)] = "forward" /\ taken[e] < written[e]
    /\ SendsBytes(Peer(e), NewBytes(e))
    /\ taken' = [taken EXCEPT ![e] = written[e]]
    /\ UNCHANGED <<codecVars, phase, hostVars, buffer, written, got, sent>>

(* The peer or the socket is gone, nothing is heard for too long, the user *)
(* gives up, the connection manager or the console ends it.                *)
close(e) ==
    /\ phase[e] # "closed"
    /\ phase' = [phase EXCEPT ![e] = "closed"]
    /\ UNCHANGED <<wire, codecVars, hostVars, dataVars, sent>>

-----------------------------------------------------------------------------
ClientStep ==
    \/ read("client") \/ decode_head_of("client") \/ decode_raw("client")
    \/ handle_test_delay \/ handle_peer_info \/ ignore_other \/ no_message

HostStep ==
    \/ read("host") \/ decode_head_of("host") \/ decode_raw("host")
    \/ on_login \/ on_login_refused \/ on_reply

Next ==
    \/ ClientStep \/ HostStep
    \/ send_login \/ buffer_local
    \/ on_authorize \/ test_delay_timer \/ send_other
    \/ \E e \in Ends : Write(e) \/ forward(e) \/ close(e)

(* Each end goes on with what has arrived on its stream and with what its  *)
(* socket has for it: select! takes its branches in random order.          *)
Fairness ==
    /\ WF_vars(ClientStep) /\ WF_vars(HostStep)
    /\ WF_vars(buffer_local) /\ \A e \in Ends : WF_vars(forward(e))

Spec == Init /\ [][Next]_vars /\ Fairness

-----------------------------------------------------------------------------
(* Types, and: whatever the chunks, and although the ends change to raw    *)
(* bytes at different moments, what an end finds that takes its stream for *)
(* messages is a whole message, or one whose head it has taken off; or,    *)
(* between messages, what the service has written, and then the host has   *)
(* refused a login, having answered it before.                             *)
HeadsAreHeads ==
    /\ \A e \in Ends : wire[e] \in Seq(STRING \X Nat) /\ buf[e] \in Seq(STRING \X Nat)
    /\ phase \in [Ends -> {"login", "forward", "closed"}]
    /\ raw \in [Ends -> BOOLEAN] /\ state \in [Ends -> {AtHead} \cup Nat]
    /\ left \in {"nothing", "message", "click", "refusal"}
    /\ \A e \in Ends :
        LET bytes == buf[e] \o wire[e]
        IN  (phase[e] = "login" /\ bytes # <<>>) =>
                \/ \E m \in Messages :
                    \/ state[e] = AtHead /\ IsPrefix(Frame(m), bytes)
                    \/ state[e] = Length[m] /\ IsPrefix([i \in 1..Length[m] |-> <<m, i>>], bytes)
                \/ left = "refusal" /\ state[e] = AtHead /\ bytes[1][1] = "client"

(* "Avoid TestDelay reply injection into rdp data stream": what the host   *)
(* waits for after a login that is accepted by a message does avoid that   *)
(* an answer to its TestDelay comes out at the service.  (A click that     *)
(* accepts a login, and a refusal, make it leave the loop with an answer   *)
(* under way.)                                                             *)
NoReplyAfterLogin ==
    left = "message" => \A i \in DOMAIN got["host"] : got["host"][i][1] # "reply"

(* The tunnel that comes out of all this: the foreign bytes are those      *)
(* before the first one that was written.                                  *)
Own(e) == SelectSeq(got[e], LAMBDA b : b[1] = e)

InOrder(e) ==
    LET k == Len(got[e]) - Len(Own(e))
    IN  \A i \in k + 1..Len(got[e]) : got[e][i] = <<e, i - k>>

tunnel == INSTANCE Tunnel WITH
    open <- authorized,
    refused <- left = "refusal",
    closed <- \E e \in Ends : phase[e] = "closed",
    delivered <- [e \in Ends |-> IF InOrder(e) THEN Len(Own(e)) ELSE -1],
    foreign <- [e \in Ends |-> \E i \in DOMAIN got[e] : got[e][i][1] # e]

(* A forwarded port is a Tunnel: login, buffering, heads, raw bytes and    *)
(* the change between them lose nothing, mix nothing up and go on; and     *)
(* what goes on after a refusal brings nothing that was written through.   *)
ImplementsTunnel == tunnel!Spec
=============================================================================
