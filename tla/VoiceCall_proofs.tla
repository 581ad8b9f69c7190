-------------------------- MODULE VoiceCall_proofs --------------------------
(***************************************************************************)
(* Proofs about VoiceCall, for any number of requests and clicks: client,  *)
(* host and connection manager agree whether there is a call, and after it *)
(* the host records from the device that was chosen.                       *)
(***************************************************************************)
EXTENDS VoiceCall, SequenceTheorems, TLAPS

(* What can be told apart of the messages. *)
LEMMA Messages ==
    /\ HangUp \in Requests /\ HangUp \in Responses
    /\ \A n \in Stamps : Call(n) \in Requests /\ Call(n) # HangUp /\ Call(n).ts = n
    /\ \A n \in Stamps, a \in BOOLEAN :
          /\ Answer(n, a) \in Responses /\ Answer(n, a) # HangUp
          /\ Answer(n, a).ts = n /\ Answer(n, a).accepted = a
    /\ \A m \in Requests : m # HangUp => m.ts \in Stamps
    /\ \A m \in Responses : m # HangUp => m.ts \in Stamps /\ m.accepted \in BOOLEAN
<1>1. HangUp \in Requests /\ HangUp \in Responses
    BY DEF Requests, Responses
<1>2. ASSUME NEW n \in Stamps
      PROVE  Call(n) \in Requests /\ Call(n) # HangUp /\ Call(n).ts = n
    BY DEF Requests, Call, HangUp
<1>3. ASSUME NEW n \in Stamps, NEW a \in BOOLEAN
      PROVE  /\ Answer(n, a) \in Responses /\ Answer(n, a) # HangUp
             /\ Answer(n, a).ts = n /\ Answer(n, a).accepted = a
    <2>1. Answer(n, a).is # HangUp.is
        BY DEF Answer, HangUp
    <2>. QED  BY <2>1 DEF Responses, Answer
<1>4. \A m \in Requests : m # HangUp => m.ts \in Stamps
    BY DEF Requests
<1>5. \A m \in Responses : m # HangUp => m.ts \in Stamps /\ m.accepted \in BOOLEAN
    BY DEF Responses
<1>. QED  BY <1>1, <1>2, <1>3, <1>4, <1>5

(* A channel after a message was sent: the others stay where they are. *)
LEMMA Sent ==
    ASSUME NEW S, NEW s \in Seq(S), NEW m \in S, NEW t, t = Append(s, m)
    PROVE  /\ t \in Seq(S) /\ t # <<>> /\ Len(t) = Len(s) + 1 /\ t[Len(t)] = m
           /\ \A i \in 1..Len(s) : t[i] = s[i]
    OBVIOUS

(* The end of a call changes nothing about who waits for what. *)
LEMMA SentHangUp ==
    ASSUME NEW S, NEW s \in Seq(S), HangUp \in S
    PROVE  Stamped(Append(s, HangUp)) = Stamped(s)
<1>. DEFINE t == Append(s, HangUp)
<1>1. Len(t) = Len(s) + 1 /\ t[Len(t)] = HangUp /\ Len(s) \in Nat
    OBVIOUS
<1>2. \A i \in 1..Len(s) : t[i] = s[i]
    OBVIOUS
<1>3. 1..Len(t) = 1..Len(s) \cup {Len(t)}
    BY <1>1
<1>. HIDE DEF t
<1>4. Stamped(t) = Stamped(s)
    BY <1>1, <1>2, <1>3 DEF Stamped
<1>. QED  BY <1>4 DEF t

(* Any other message has its place at the end. *)
LEMMA SentStamped ==
    ASSUME NEW S, NEW s \in Seq(S), NEW m \in S, m # HangUp
    PROVE  Stamped(Append(s, m)) = Stamped(s) \cup {Len(s) + 1}
<1>. DEFINE t == Append(s, m)
<1>1. Len(t) = Len(s) + 1 /\ t[Len(s) + 1] = m /\ Len(s) \in Nat
    OBVIOUS
<1>2. \A i \in 1..Len(s) : t[i] = s[i]
    OBVIOUS
<1>3. 1..Len(t) = 1..Len(s) \cup {Len(s) + 1}
    BY <1>1
<1>. HIDE DEF t
<1>4. Stamped(t) = Stamped(s) \cup {Len(s) + 1}
    BY <1>1, <1>2, <1>3 DEF Stamped
<1>. QED  BY <1>4 DEF t

(* A channel is empty when it has no message. *)
LEMMA NoMessage ==
    ASSUME NEW S, NEW s \in Seq(S)
    PROVE  s = <<>> <=> Len(s) = 0
<1>1. s = <<>> => Len(s) = 0
    BY EmptySeq
<1>2. s # <<>> => Len(s) # 0
    BY EmptySeq
<1>. QED  BY <1>1, <1>2

(* A channel after its first message was taken: the others move up. *)
LEMMA Taken ==
    ASSUME NEW S, NEW s \in Seq(S), s # <<>>, NEW t, t = Tail(s)
    PROVE  /\ t \in Seq(S) /\ Head(s) = s[1] /\ s[1] \in S
           /\ Len(s) \in Nat /\ Len(s) >= 1 /\ Len(t) = Len(s) - 1
           /\ \A i \in 1..Len(t) : t[i] = s[i + 1]
           /\ t # <<>> => t[Len(t)] = s[Len(s)]
           /\ t = <<>> <=> Len(s) = 1
<1>1. Len(s) \in Nat /\ Len(s) >= 1 /\ s[1] \in S /\ Head(s) = s[1]
    OBVIOUS
<1>2. t \in Seq(S) /\ Len(t) = Len(s) - 1
    BY <1>1
<1>3. \A i \in 1..Len(t) : t[i] = s[i + 1]
    BY <1>1, <1>2
<1>4. t = <<>> <=> Len(t) = 0
    BY <1>2, NoMessage, Zenon
<1>5. t = <<>> <=> Len(s) = 1
    BY <1>1, <1>2, <1>4
<1>6. t # <<>> => t[Len(t)] = s[Len(s)]
    BY <1>1, <1>2, <1>3, <1>4
<1>. QED  BY <1>1, <1>2, <1>3, <1>5, <1>6

-----------------------------------------------------------------------------
(* The types.                                                              *)

(* What a channel hands out is a message of it. *)
LEMMA FirstMessages ==
    ASSUME VoiceTypeOK
    PROVE  /\ to_host # <<>> => Head(to_host) = to_host[1] /\ to_host[1] \in Requests
           /\ to_client # <<>> => Head(to_client) = to_client[1] /\ to_client[1] \in Responses
    BY Taken DEF VoiceTypeOK

(* A client that takes another timestamp and shows something else. *)
LEMMA ClientTurns ==
    ASSUME client \in ClientStates, NEW n \in Nat,
           NEW v \in {"notStarted", "waiting", "connected"},
           client' = [client EXCEPT !.ts = n, !.shown = v]
    PROVE  /\ client' \in ClientStates
           /\ client'.ts = n /\ client'.shown = v /\ client'.sender = client.sender
    BY DEF ClientStates

(* A thread that has set the option is one of the setters no more. *)
LEMMA SetterType ==
    ASSUME VoiceTypeOK, NEW i \in DOMAIN setters, setter_runs(i)
    PROVE  /\ setters' \in Seq(Devices) /\ Len(setters) \in Nat
           /\ i \in 1..Len(setters) /\ Len(setters') = Len(setters) - 1
           /\ input' = setters[i] /\ input' \in Devices
<1>1. Len(setters) \in Nat /\ i \in 1..Len(setters) /\ setters \in [1..Len(setters) -> Devices]
    BY DEF VoiceTypeOK
<1>2. PICK n \in Nat : n = Len(setters) - 1
    <2>1. PICK k \in Nat : k = Len(setters)
        BY <1>1
    <2>2. k - 1 \in Nat
        BY <1>1, <2>1
    <2>. QED  BY <2>1, <2>2
<1>3. setters' \in [1..n -> Devices]
    BY <1>1, <1>2 DEF setter_runs
<1>4. setters' \in Seq(Devices) /\ Len(setters') = n
    <2>1. setters' \in Seq(Devices)
        BY <1>3, SeqDef
    <2>2. DOMAIN setters' = 1..n /\ DOMAIN setters' = 1..Len(setters') /\ Len(setters') \in Nat
        BY <1>3, <2>1
    <2>. QED  BY <2>1, <2>2
<1>. QED  BY <1>1, <1>2, <1>4 DEF setter_runs

(* Setting the option, now or later. *)
LEMMA SetType ==
    ASSUME VoiceTypeOK, NEW d \in Devices, set_sound_input(d)
    PROVE  setters' \in Seq(Devices) /\ raced' \in BOOLEAN
    BY DEF VoiceTypeOK, set_sound_input

(* Closing a call on the host. *)
LEMMA CloseType ==
    ASSUME VoiceTypeOK, close_voice_call
    PROVE  /\ host' \in HostStates /\ host'.backup = {} /\ host'.ts = host.ts
           /\ setters' \in Seq(Devices) /\ raced' \in BOOLEAN
           /\ to_cm' \in Seq(CmMessages)
<1>1. setters' \in Seq(Devices) /\ raced' \in BOOLEAN
    <2>1. host.backup \subseteq Devices
        BY DEF VoiceTypeOK, HostStates
    <2>2. ASSUME NEW d \in host.backup, set_sound_input(d)
          PROVE  setters' \in Seq(Devices) /\ raced' \in BOOLEAN
        BY <2>1, <2>2, SetType
    <2>. QED  BY <2>2 DEF VoiceTypeOK, close_voice_call
<1>2. host' \in HostStates /\ host'.backup = {} /\ host'.ts = host.ts
    BY DEF VoiceTypeOK, close_voice_call, HostStates
<1>3. to_cm' \in Seq(CmMessages)
    BY DEF VoiceTypeOK, close_voice_call, CmMessages
<1>. QED  BY <1>1, <1>2, <1>3

(* Every step keeps the types. *)
LEMMA TypeStep ==
    ASSUME VoiceTypeOK, [Next]_vars
    PROVE  VoiceTypeOK'
<1>. USE DEF channels, bounds, history, Clicks
<1>1. CASE UNCHANGED vars
    BY <1>1 DEF vars, VoiceTypeOK
<1>2. CASE NewVoiceCall
    <2>1. asked + 1 \in Stamps
        BY DEF VoiceTypeOK, Stamps, None
    <2>2. to_host' \in Seq(Requests)
        BY <1>2, <2>1, Messages DEF NewVoiceCall, VoiceTypeOK
    <2>3. client' \in ClientStates
        <3>1. PICK n \in Nat : n = asked + 1
            BY <2>1 DEF Stamps
        <3>. QED  BY <1>2, <3>1, ClientTurns DEF NewVoiceCall, VoiceTypeOK
    <2>. QED  BY <1>2, <2>1, <2>2, <2>3 DEF NewVoiceCall, onClient, VoiceTypeOK
<1>3. CASE CloseVoiceCall
    <2>1. to_host' \in Seq(Requests)
        BY <1>3, Messages DEF CloseVoiceCall, VoiceTypeOK
    <2>2. client' \in ClientStates
        BY <1>3 DEF CloseVoiceCall, stop_voice_call, VoiceTypeOK, ClientStates, None
    <2>. QED  BY <1>3, <2>1, <2>2 DEF CloseVoiceCall, onClient, VoiceTypeOK
<1>4. CASE on_hang_up
    <2>1. client' \in ClientStates
        BY <1>4 DEF on_hang_up, VoiceTypeOK, ClientStates, None
    <2>. QED  BY <1>4, <2>1 DEF on_hang_up, onClient, VoiceTypeOK
<1>5. CASE on_response
    <2>1. Head(to_client) \in Responses /\ Head(to_client) # HangUp
        BY <1>5, FirstMessages DEF on_response
    <2>2. Head(to_client).ts \in Nat
        BY <2>1, Messages DEF Stamps
    <2>3. client' \in ClientStates
        <3>1. \/ client' = [ts |-> None, sender |-> Head(to_client).ts, shown |-> "connected"]
              \/ client' = [client EXCEPT !.ts = None, !.shown = "notStarted"]
              \/ client' = [client EXCEPT !.ts = None]
            BY <1>5 DEF on_response
        <3>2. CASE client' = [ts |-> None, sender |-> Head(to_client).ts, shown |-> "connected"]
            BY <3>2, <2>2 DEF ClientStates, None
        <3>3. CASE client' = [client EXCEPT !.ts = None, !.shown = "notStarted"]
            BY <3>3, ClientTurns DEF VoiceTypeOK, None
        <3>4. CASE client' = [client EXCEPT !.ts = None]
            BY <3>4 DEF VoiceTypeOK, ClientStates, None
        <3>. QED  BY <3>1, <3>2, <3>3, <3>4
    <2>4. crossed' \in BOOLEAN /\ revived' \in BOOLEAN
        BY <1>5, Zenon DEF on_response, VoiceTypeOK
    <2>. QED  BY <1>5, <2>3, <2>4 DEF on_response, onClient, VoiceTypeOK
<1>6. ASSUME NEW n \in recording, recorder_exits(n) PROVE VoiceTypeOK'
    BY <1>6 DEF recorder_exits, onClient, VoiceTypeOK
<1>7. CASE on_call
    <2>1. Head(to_host).ts \in Nat
        BY <1>7, FirstMessages, Messages DEF on_call, Stamps
    <2>2. host' \in HostStates
        BY <1>7, <2>1 DEF on_call, VoiceTypeOK, HostStates
    <2>3. to_cm' \in Seq(CmMessages)
        BY <1>7 DEF on_call, VoiceTypeOK, CmMessages
    <2>. QED  BY <1>7, <2>2, <2>3 DEF on_call, onHost, VoiceTypeOK
<1>8. CASE close_by_client
    BY <1>8, CloseType DEF close_by_client, onHost, VoiceTypeOK
<1>9. CASE handle_voice_call
    <2>1. setters' \in Seq(Devices) /\ raced' \in BOOLEAN
        <3>1. Default \in Devices
            BY DEF Devices
        <3>. QED  BY <1>9, <3>1, SetType DEF handle_voice_call, VoiceTypeOK
    <2>2. host.ts # None => host.ts \in Stamps
        BY DEF VoiceTypeOK, HostStates, Stamps
    <2>3. to_client' \in Seq(Responses)
        <3>1. PICK m \in Responses : to_client' = Append(to_client, m) \/ to_client' = to_client
            BY <1>9, <2>2, Messages DEF handle_voice_call
        <3>2. to_client \in Seq(Responses)
            BY DEF VoiceTypeOK
        <3>. QED  BY <3>1, <3>2
    <2>4. host' \in HostStates
        <3>1. \/ host' = [ts |-> None, backup |-> {input}]
              \/ host' = [host EXCEPT !.ts = None]
              \/ host' = host
            BY <1>9 DEF handle_voice_call
        <3>2. CASE host' = [ts |-> None, backup |-> {input}]
            BY <3>2 DEF VoiceTypeOK, HostStates, None
        <3>3. CASE host' = [host EXCEPT !.ts = None]
            BY <3>3 DEF VoiceTypeOK, HostStates, None
        <3>. QED  BY <3>1, <3>2, <3>3 DEF VoiceTypeOK
    <2>5. to_cm' \in Seq(CmMessages)
        <3>1. PICK m \in CmMessages : to_cm' = Append(to_cm, m) \/ to_cm' = to_cm
            BY <1>9 DEF handle_voice_call, CmMessages
        <3>2. to_cm \in Seq(CmMessages)
            BY DEF VoiceTypeOK
        <3>. QED  BY <3>1, <3>2
    <2>. QED  BY <1>9, <2>1, <2>3, <2>4, <2>5 DEF handle_voice_call, onHost, VoiceTypeOK
<1>10. CASE close_by_cm
    BY <1>10, CloseType, Messages DEF close_by_cm, onHost, VoiceTypeOK
<1>11. ASSUME NEW i \in DOMAIN setters, setter_runs(i) PROVE VoiceTypeOK'
    BY <1>11, SetterType DEF setter_runs, VoiceTypeOK
<1>12. CASE cm_receives
    BY <1>12 DEF cm_receives, cm_shows, onCm, VoiceTypeOK
<1>13. CASE cm_clicks
    <2>1. \E m \in CmAnswers : from_cm' = Append(from_cm, m)
        BY <1>13 DEF cm_clicks, CmAnswers
    <2>. QED  BY <1>13, <2>1 DEF cm_clicks, onCm, VoiceTypeOK
<1>14. CASE connection_lost
    <2>1. client' \in ClientStates /\ host' \in HostStates
        BY <1>14 DEF connection_lost, ClientStates, HostStates, None
    <2>2. /\ to_host' \in Seq(Requests) /\ to_client' \in Seq(Responses)
          /\ to_cm' \in Seq(CmMessages) /\ from_cm' \in Seq(CmAnswers)
        BY <1>14, EmptySeq DEF connection_lost
    <2>. QED  BY <1>14, <2>1, <2>2 DEF connection_lost, VoiceTypeOK
<1>. QED
    BY <1>1, <1>2, <1>3, <1>4, <1>5, <1>6, <1>7, <1>8, <1>9, <1>10, <1>11, <1>12, <1>13,
       <1>14 DEF Next

(* The types hold at the start. *)
LEMMA TypeInit == Init => VoiceTypeOK
<1>. SUFFICES ASSUME Init PROVE VoiceTypeOK
    OBVIOUS
<1>1. client \in ClientStates /\ host \in HostStates
    BY DEF Init, ClientStates, HostStates, None
<1>2. /\ to_host \in Seq(Requests) /\ to_client \in Seq(Responses)
      /\ to_cm \in Seq(CmMessages) /\ from_cm \in Seq(CmAnswers) /\ setters \in Seq(Devices)
    BY EmptySeq DEF Init
<1>. QED  BY <1>1, <1>2 DEF Init, VoiceTypeOK, Devices

-----------------------------------------------------------------------------
(* The host and the connection manager.                                    *)

(* What the manager will show after one more message. *)
LEMMA CmTold ==
    ASSUME VoiceTypeOK, NEW m \in CmMessages, to_cm' = Append(to_cm, m)
    PROVE  Finally' = cm_shows(m)
<1>1. to_cm' # <<>> /\ to_cm'[Len(to_cm')] = m
    <2>1. to_cm \in Seq(CmMessages)
        BY DEF VoiceTypeOK
    <2>. QED  BY <2>1, Sent
<1>. QED  BY <1>1 DEF Finally, cm_shows

(* A closed call is none, for the manager too. *)
LEMMA Closed ==
    ASSUME VoiceTypeOK, close_voice_call
    PROVE  /\ ~InCall' /\ host'.ts = host.ts /\ Finally' = "none"
<1>1. host'.backup = {} /\ host'.ts = host.ts
    BY CloseType
<1>2. Finally' = cm_shows("CloseVoiceCall")
    BY CmTold DEF close_voice_call, CmMessages
<1>. QED  BY <1>1, <1>2 DEF InCall, cm_shows

(* What an answer of the manager comes to on the host. *)
LEMMA Answered ==
    ASSUME VoiceTypeOK, handle_voice_call
    PROVE  \/ /\ host.ts # None /\ host'.ts = None /\ InCall' /\ Finally' = "in_call"
              /\ host'.backup = {input}
              /\ to_client' = Append(to_client, Answer(host.ts, TRUE))
              /\ \/ set_sound_input(Default)
                 \/ raced' = (raced \/ setters # <<>>) /\ UNCHANGED setters
           \/ /\ host.ts # None /\ host'.ts = None /\ Finally' = "none"
              /\ host'.backup = host.backup
              /\ to_client' = Append(to_client, Answer(host.ts, FALSE))
              /\ UNCHANGED <<setters, raced>>
           \/ host.ts = None /\ UNCHANGED <<host, setters, raced, to_cm, to_client>>
<1>. DEFINE Accepts ==
               /\ host.ts # None
               /\ host' = [ts |-> None, backup |-> {input}]
               /\ \/ set_sound_input(Default)
                  \/ raced' = (raced \/ setters # <<>>) /\ UNCHANGED setters
               /\ to_cm' = Append(to_cm, "StartVoiceCall")
               /\ to_client' = Append(to_client, Answer(host.ts, TRUE))
            Declines ==
               /\ host.ts # None
               /\ host' = [host EXCEPT !.ts = None]
               /\ to_cm' = Append(to_cm, "CloseVoiceCall")
               /\ to_client' = Append(to_client, Answer(host.ts, FALSE))
               /\ UNCHANGED <<setters, raced>>
            Ignores == host.ts = None /\ UNCHANGED <<host, setters, raced, to_cm, to_client>>
<1>1. CASE Accepts
    <2>1. Finally' = cm_shows("StartVoiceCall")
        BY <1>1, CmTold DEF CmMessages
    <2>2. host'.ts = None /\ host'.backup = {input}
        BY <1>1
    <2>. QED  BY <1>1, <2>1, <2>2 DEF cm_shows, InCall
<1>2. CASE Declines
    <2>1. Finally' = cm_shows("CloseVoiceCall")
        BY <1>2, CmTold DEF CmMessages
    <2>2. host'.ts = None /\ host'.backup = host.backup
        BY <1>2 DEF VoiceTypeOK, HostStates
    <2>. QED  BY <1>2, <2>1, <2>2 DEF cm_shows
<1>3. CASE Ignores
    BY <1>3
<1>4. Accepts \/ Declines \/ Ignores
    BY DEF handle_voice_call
<1>. HIDE DEF Accepts, Declines, Ignores
<1>. QED  BY <1>1, <1>2, <1>3, <1>4

(* A request that reaches the host. *)
LEMMA Asked ==
    ASSUME VoiceTypeOK, on_call
    PROVE  /\ host'.ts = to_host[1].ts /\ to_host[1].ts \in Stamps
           /\ host'.backup = host.backup /\ Finally' = "incoming"
           /\ ~overlaid' => ~overlaid /\ ~InCall
<1>1. to_host[1].ts \in Stamps /\ Head(to_host) = to_host[1]
    BY FirstMessages, Messages DEF on_call
<1>2. host'.ts = to_host[1].ts /\ host'.backup = host.backup
    BY <1>1 DEF on_call, VoiceTypeOK, HostStates
<1>3. Finally' = cm_shows("VoiceCallIncoming")
    BY CmTold DEF on_call, CmMessages
<1>. QED  BY <1>1, <1>2, <1>3 DEF cm_shows, on_call, InCall

(* The manager reads what was on its way. *)
LEMMA CmReads ==
    ASSUME VoiceTypeOK, cm_receives
    PROVE  Finally' = Finally
<1>1. /\ to_cm # <<>> /\ cm' = cm_shows(to_cm[1]) /\ Len(to_cm) \in Nat
      /\ to_cm' = <<>> <=> Len(to_cm) = 1
      /\ to_cm' # <<>> => to_cm'[Len(to_cm')] = to_cm[Len(to_cm)]
    <2>1. to_cm \in Seq(CmMessages) /\ to_cm # <<>> /\ to_cm' = Tail(to_cm)
        BY DEF cm_receives, VoiceTypeOK
    <2>2. cm' = cm_shows(Head(to_cm))
        BY DEF cm_receives
    <2>. HIDE DEF cm_receives
    <2>. QED  BY <2>1, <2>2, Taken
<1>. QED  BY <1>1 DEF Finally, cm_shows

(* Every step keeps HostInv. *)
LEMMA HostStep ==
    ASSUME VoiceTypeOK, HostInv, [Next]_vars
    PROVE  HostInv'
<1>. USE DEF channels, bounds, history
<1>1. ASSUME UNCHANGED <<host, cm, to_cm>>, ~overlaid' => ~overlaid PROVE HostInv'
    BY <1>1 DEF HostInv, InCall, Finally, cm_shows
<1>2. CASE \/ NewVoiceCall \/ CloseVoiceCall \/ on_hang_up \/ on_response \/ UNCHANGED vars
    <2>1. UNCHANGED <<host, cm, to_cm>>
        BY <1>2 DEF NewVoiceCall, CloseVoiceCall, on_hang_up, on_response, onClient, vars
    <2>2. ~overlaid' => ~overlaid
        BY <1>2, Zenon DEF NewVoiceCall, CloseVoiceCall, on_hang_up, on_response, vars
    <2>. QED  BY <1>1, <2>1, <2>2
<1>3. CASE (\E n \in recording : recorder_exits(n)) \/ (\E i \in DOMAIN setters : setter_runs(i))
    BY <1>1, <1>3 DEF recorder_exits, onClient, setter_runs
<1>4. CASE on_call
    BY <1>4, Asked DEF HostInv, InCall, Stamps
<1>5. CASE close_by_client \/ close_by_cm
    <2>1. close_voice_call /\ overlaid' = overlaid
        BY <1>5 DEF close_by_client, close_by_cm, onHost
    <2>. QED  BY <2>1, Closed DEF HostInv
<1>6. CASE handle_voice_call
    <2>1. overlaid' = overlaid /\ cm' = cm
        BY <1>6 DEF handle_voice_call, onHost
    <2>. QED  BY <1>1, <1>6, <2>1, Answered DEF HostInv, InCall
<1>7. CASE cm_receives
    BY <1>7, CmReads DEF cm_receives, onCm, HostInv, InCall
<1>8. CASE cm_clicks
    BY <1>1, <1>8 DEF cm_clicks, onCm
<1>9. CASE connection_lost
    <2>1. host'.backup = {} /\ to_cm' = <<>> /\ cm' = "none"
        BY <1>9 DEF connection_lost
    <2>. QED  BY <2>1 DEF HostInv, InCall, Finally
<1>. QED  BY <1>2, <1>3, <1>4, <1>5, <1>6, <1>7, <1>8, <1>9 DEF Next

-----------------------------------------------------------------------------
(* The host's device.                                                      *)

(* With no thread about to set the option there is at most one afterwards, *)
(* and it makes the option what was asked for.                             *)
LEMMA SetOnce ==
    ASSUME VoiceTypeOK, NEW d \in Devices, set_sound_input(d), ~raced'
    PROVE  /\ setters = <<>> /\ ~raced
           /\ setters' = IF input = d THEN <<>> ELSE <<d>>
<1>1. setters = <<>> /\ ~raced
    BY DEF set_sound_input
<1>2. Append(<<>>, d) = <<d>>
    OBVIOUS
<1>. QED  BY <1>1, <1>2 DEF set_sound_input

(* A call closed on the host leaves the chosen device, now or soon. *)
LEMMA CloseDevice ==
    ASSUME VoiceTypeOK, DeviceInv, connected, close_voice_call, UNCHANGED <<input, overlaid>>
    PROVE  DeviceInv'
<1>. SUFFICES ASSUME ~raced', ~overlaid
              PROVE  /\ Len(setters') <= 1 /\ host'.backup = {}
                     /\ Chosen = IF setters' = <<>> THEN input ELSE setters'[1]
    BY DEF DeviceInv
<1>1. host'.backup = {}
    BY CloseType
<1>2. CASE host.backup = {} /\ UNCHANGED <<setters, raced>>
    BY <1>1, <1>2 DEF DeviceInv, InCall
<1>3. ASSUME NEW d \in host.backup, set_sound_input(d)
      PROVE  /\ Len(setters') <= 1
             /\ Chosen = IF setters' = <<>> THEN input ELSE setters'[1]
    <2>1. d \in Devices
        BY DEF VoiceTypeOK, HostStates
    <2>2. ~raced /\ setters' = IF input = d THEN <<>> ELSE <<d>>
        BY <1>3, <2>1, SetOnce
    <2>3. d = Chosen
        BY <2>2 DEF DeviceInv
    <2>4. CASE input = d
        BY <2>2, <2>3, <2>4
    <2>5. CASE input # d
        <3>1. <<d>> # <<>> /\ <<d>>[1] = d /\ Len(<<d>>) = 1
            OBVIOUS
        <3>. QED  BY <2>2, <2>3, <2>5, <3>1
    <2>. QED  BY <2>4, <2>5
<1>. QED  BY <1>1, <1>2, <1>3 DEF close_voice_call

(* Every step keeps DeviceInv. *)
LEMMA DeviceStep ==
    ASSUME VoiceTypeOK, HostInv, DeviceInv, [Next]_vars
    PROVE  DeviceInv'
<1>. USE DEF channels, bounds, history
<1>1. ASSUME host'.backup = host.backup, UNCHANGED <<input, setters, connected, raced>>,
             ~overlaid' => ~overlaid
      PROVE  DeviceInv'
    BY <1>1 DEF DeviceInv, InCall
<1>2. CASE \/ NewVoiceCall \/ CloseVoiceCall \/ on_hang_up \/ on_response \/ UNCHANGED vars
    <2>1. UNCHANGED <<host, input, setters, connected, raced>>
        BY <1>2 DEF NewVoiceCall, CloseVoiceCall, on_hang_up, on_response, onClient, vars
    <2>2. ~overlaid' => ~overlaid
        BY <1>2, Zenon DEF NewVoiceCall, CloseVoiceCall, on_hang_up, on_response, vars
    <2>. QED  BY <1>1, <2>1, <2>2
<1>3. CASE \E n \in recording : recorder_exits(n)
    BY <1>1, <1>3 DEF recorder_exits, onClient
<1>4. CASE on_call
    BY <1>1, <1>4, Asked DEF on_call, onHost
<1>5. CASE close_by_client \/ close_by_cm
    <2>1. close_voice_call /\ connected /\ UNCHANGED <<input, overlaid>>
        BY <1>5 DEF close_by_client, close_by_cm, onHost
    <2>. QED  BY <2>1, CloseDevice
<1>6. CASE handle_voice_call
    <2>1. connected /\ UNCHANGED <<input, overlaid, connected>>
        BY <1>6 DEF handle_voice_call, onHost
    <2>2. ASSUME host.ts # None, host'.backup = {input},
                 \/ set_sound_input(Default)
                 \/ raced' = (raced \/ setters # <<>>) /\ UNCHANGED setters
          PROVE  DeviceInv'
        <3>. SUFFICES ASSUME ~raced', ~overlaid
                      PROVE  Len(setters') <= 1 /\ host'.backup = {Chosen}
            BY <2>1, <2>2 DEF DeviceInv, InCall
        <3>1. setters = <<>> /\ ~raced
            BY <2>2 DEF set_sound_input
        <3>2. input = Chosen
            BY <2>1, <2>2, <3>1 DEF DeviceInv, HostInv
        <3>3. setters' = <<>> \/ setters' = <<Default>>
            BY <2>2, <3>1, SetOnce DEF Devices
        <3>4. Len(<<>>) = 0 /\ Len(<<Default>>) = 1
            OBVIOUS
        <3>5. Len(setters') <= 1
            BY <3>3, <3>4
        <3>. QED  BY <2>2, <3>2, <3>5
    <2>. QED  BY <1>1, <1>6, <2>1, <2>2, Answered
<1>7. ASSUME NEW i \in DOMAIN setters, setter_runs(i) PROVE DeviceInv'
    <2>. SUFFICES ASSUME connected, ~raced, ~overlaid
                  PROVE  /\ Len(setters') <= 1
                         /\ ~InCall => Chosen = IF setters' = <<>> THEN input' ELSE setters'[1]
        BY <1>7 DEF setter_runs, DeviceInv, InCall
    <2>1. /\ setters' \in Seq(Devices) /\ Len(setters) \in Nat /\ i \in 1..Len(setters)
          /\ Len(setters') = Len(setters) - 1 /\ input' = setters[i]
        BY <1>7, SetterType
    <2>2. Len(setters) = 1 /\ i = 1 /\ setters # <<>> /\ Len(setters') = 0
        BY <2>1 DEF DeviceInv
    <2>3. setters' = <<>>
        BY <2>1, <2>2, EmptySeq
    <2>. QED  BY <2>1, <2>2, <2>3 DEF DeviceInv
<1>8. CASE cm_receives \/ cm_clicks
    BY <1>1, <1>8 DEF cm_receives, cm_clicks, onCm
<1>9. CASE connection_lost
    BY <1>9 DEF connection_lost, DeviceInv
<1>. QED  BY <1>2, <1>3, <1>4, <1>5, <1>6, <1>7, <1>8, <1>9 DEF Next

(* The host and the manager agree at every moment, messages under way      *)
(* included, and the types hold.                                           *)
THEOREM HostInvHolds == Spec => [](VoiceTypeOK /\ HostInv)
<1>1. Init => HostInv
    BY DEF Init, HostInv, InCall, Finally
<1>. QED  BY <1>1, TypeInit, TypeStep, HostStep, PTL DEF Spec

(* After a call the host records from the chosen device, except for the    *)
(* losses the property names.                                              *)
THEOREM DeviceIsRestoredHolds == Spec => []DeviceIsRestored
<1>1. Init => DeviceInv
    BY DEF Init, DeviceInv, InCall
<1>2. DeviceInv => DeviceIsRestored
    BY DEF DeviceInv, DeviceIsRestored
<1>. QED  BY <1>1, <1>2, DeviceStep, HostInvHolds, PTL DEF Spec

-----------------------------------------------------------------------------
(* Client, host and manager.                                               *)

(* The invariant without the losses. *)
Agreed == StampInv /\ WaitingInv /\ ConnectedInv /\ NotStartedInv

(* The types of what StampInv speaks about. *)
LEMMA StampTypes ==
    ASSUME VoiceTypeOK
    PROVE  /\ client.ts \in Nat /\ client.sender \in Nat /\ host.ts \in Nat /\ asked \in Nat
           /\ Len(to_host) \in Nat /\ Len(to_client) \in Nat
           /\ Stamped(to_host) \subseteq 1..Len(to_host)
           /\ Stamped(to_client) \subseteq 1..Len(to_client)
           /\ \A i \in Stamped(to_host) : to_host[i].ts \in Stamps /\ to_host[i] # HangUp
           /\ \A i \in Stamped(to_client) : to_client[i].ts \in Stamps /\ to_client[i] # HangUp
           /\ to_host = <<>> => Stamped(to_host) = {}
           /\ to_client = <<>> => Stamped(to_client) = {}
           /\ to_host # <<>> => Len(to_host) \in 1..Len(to_host)
           /\ to_client # <<>> => Len(to_client) \in 1..Len(to_client)
<1>1. client.ts \in Nat /\ client.sender \in Nat /\ host.ts \in Nat /\ asked \in Nat
    BY DEF VoiceTypeOK, ClientStates, HostStates
<1>2. /\ Len(to_host) \in Nat /\ Len(to_client) \in Nat
      /\ Stamped(to_host) \subseteq 1..Len(to_host)
      /\ Stamped(to_client) \subseteq 1..Len(to_client)
    BY DEF VoiceTypeOK, Stamped
<1>3. \A i \in 1..Len(to_host) : to_host[i] \in Requests
    BY DEF VoiceTypeOK
<1>4. \A i \in 1..Len(to_client) : to_client[i] \in Responses
    BY DEF VoiceTypeOK
<1>5. /\ \A i \in Stamped(to_host) : to_host[i].ts \in Stamps /\ to_host[i] # HangUp
      /\ \A i \in Stamped(to_client) : to_client[i].ts \in Stamps /\ to_client[i] # HangUp
    BY <1>2, <1>3, <1>4, Messages DEF Stamped
<1>6. /\ to_host = <<>> => Len(to_host) = 0
      /\ to_client = <<>> => Len(to_client) = 0
    BY EmptySeq
<1>7. /\ to_host # <<>> => Len(to_host) # 0
      /\ to_client # <<>> => Len(to_client) # 0
    BY EmptySeq DEF VoiceTypeOK
<1>. QED  BY <1>1, <1>2, <1>5, <1>6, <1>7

(* Steps that do not concern the client and the host. *)
LEMMA AgreedKept ==
    ASSUME Agreed, UNCHANGED <<client, host, to_host, to_client, asked>>, Finally' = Finally
    PROVE  Agreed'
    BY DEF Agreed, StampInv, WaitingInv, ConnectedInv, NotStartedInv, InCall, Stamped

(* A new request. *)
LEMMA AgreedNew ==
    ASSUME VoiceTypeOK, Agreed, NewVoiceCall, ~overlaid'
    PROVE  Agreed'
<1>. USE DEF None
<1>1. PICK n \in Stamps : n = asked + 1
    BY StampTypes DEF Stamps
<1>2. /\ client'.ts = n /\ client'.shown = "waiting" /\ client'.sender = client.sender
      /\ asked' = n /\ client.sender = 0
    <2>1. client' = [client EXCEPT !.ts = n, !.shown = "waiting"] /\ n \in Nat
        BY <1>1 DEF NewVoiceCall, Stamps
    <2>. QED  BY <1>1, <2>1, ClientTurns DEF NewVoiceCall, VoiceTypeOK
<1>3. UNCHANGED <<host, to_client>> /\ to_host' = Append(to_host, Call(n))
    BY <1>1 DEF NewVoiceCall, onClient
<1>4. /\ to_host' # <<>> /\ Len(to_host') = Len(to_host) + 1 /\ to_host'[Len(to_host')] = Call(n)
      /\ \A i \in 1..Len(to_host) : to_host'[i] = to_host[i]
      /\ Stamped(to_host') = Stamped(to_host) \cup {Len(to_host')}
    <2>1. to_host \in Seq(Requests) /\ Call(n) \in Requests /\ Call(n) # HangUp
        BY Messages DEF VoiceTypeOK
    <2>2. /\ to_host' # <<>> /\ Len(to_host') = Len(to_host) + 1
          /\ to_host'[Len(to_host')] = Call(n)
          /\ \A i \in 1..Len(to_host) : to_host'[i] = to_host[i]
        BY <1>3, <2>1, Sent
    <2>3. Stamped(to_host') = Stamped(to_host) \cup {Len(to_host) + 1}
        BY <1>3, <2>1, SentStamped, Zenon
    <2>. QED  BY <2>2, <2>3
<1>5. Call(n).ts = n
    BY Messages
<1>6. StampInv'
    <2>1. host.ts < n /\ n \in Nat /\ n # 0
        BY <1>1, StampTypes DEF Agreed, StampInv, Stamps
    <2>2. \A i \in Stamped(to_host) : to_host'[i].ts < n /\ i < Len(to_host')
        BY <1>1, <1>4, StampTypes DEF Agreed, StampInv, Stamps
    <2>3. \A i \in Stamped(to_client) : to_client[i].ts < n
        BY <1>1, StampTypes DEF Agreed, StampInv, Stamps
    <2>. QED  BY <1>2, <1>3, <1>4, <1>5, <2>1, <2>2, <2>3, StampTypes DEF StampInv, Stamps
<1>7. WaitingInv'
    <2>1. n # 0 /\ \A i \in Stamped(to_client) : to_client[i].ts # n
        BY <1>1, StampTypes DEF Agreed, StampInv, Stamps
    <2>. QED  BY <1>2, <1>3, <1>4, <2>1 DEF WaitingInv
<1>8. ConnectedInv' /\ NotStartedInv'
    BY <1>2 DEF ConnectedInv, NotStartedInv
<1>. QED  BY <1>6, <1>7, <1>8 DEF Agreed

(* The client hangs up, or gives up its request. *)
LEMMA AgreedClose ==
    ASSUME VoiceTypeOK, Agreed, CloseVoiceCall
    PROVE  Agreed'
<1>. USE DEF None
<1>1. /\ client'.ts = client.ts /\ client'.shown = "notStarted" /\ client'.sender = 0
    BY DEF CloseVoiceCall, stop_voice_call, VoiceTypeOK, ClientStates
<1>2. UNCHANGED <<host, to_client, asked>> /\ to_host' = Append(to_host, HangUp)
    BY DEF CloseVoiceCall, onClient
<1>3. /\ to_host' # <<>> /\ to_host'[Len(to_host')] = HangUp
      /\ \A i \in 1..Len(to_host) : to_host'[i] = to_host[i]
      /\ Stamped(to_host') = Stamped(to_host)
    <2>1. to_host \in Seq(Requests) /\ HangUp \in Requests
        BY Messages DEF VoiceTypeOK
    <2>2. /\ to_host' # <<>> /\ to_host'[Len(to_host')] = HangUp
          /\ \A i \in 1..Len(to_host) : to_host'[i] = to_host[i]
        BY <1>2, <2>1, Sent
    <2>3. Stamped(to_host') = Stamped(to_host)
        BY <1>2, <2>1, SentHangUp, Zenon
    <2>. QED  BY <2>2, <2>3
<1>4. StampInv'
    BY <1>1, <1>2, <1>3, StampTypes DEF Agreed, StampInv, InCall
<1>5. WaitingInv' /\ ConnectedInv' /\ NotStartedInv'
    BY <1>1, <1>3 DEF WaitingInv, ConnectedInv, NotStartedInv
<1>. QED  BY <1>4, <1>5 DEF Agreed

(* What is left when the client has taken a message. *)
LEMMA ClientTakes ==
    ASSUME VoiceTypeOK, to_client # <<>>, to_client' = Tail(to_client)
    PROVE  /\ Head(to_client) = to_client[1]
           /\ Len(to_client) >= 1 /\ Len(to_client') = Len(to_client) - 1
           /\ \A i \in Stamped(to_client') :
                 /\ i \in 1..Len(to_client') /\ i + 1 \in Stamped(to_client)
                 /\ to_client'[i] = to_client[i + 1]
           /\ to_client[1] # HangUp => 1 \in Stamped(to_client)
           /\ to_client' = <<>> <=> Len(to_client) = 1
           /\ Stamped(to_client') = {} => \A i \in Stamped(to_client) : i = 1
           /\ to_client[1] = HangUp => 1 \notin Stamped(to_client)
<1>1. to_client \in Seq(Responses)
    BY DEF VoiceTypeOK
<1>2. /\ Head(to_client) = to_client[1] /\ Len(to_client) \in Nat
      /\ Len(to_client) >= 1 /\ Len(to_client') = Len(to_client) - 1
      /\ \A i \in 1..Len(to_client') : to_client'[i] = to_client[i + 1]
      /\ to_client' = <<>> <=> Len(to_client) = 1
    BY <1>1, Taken
<1>3. \A i \in 1..Len(to_client') : i + 1 \in 1..Len(to_client)
    BY <1>2
<1>4. \A i \in 1..Len(to_client) : i = 1 \/ \E j \in 1..Len(to_client') : i = j + 1
    <2>. SUFFICES ASSUME NEW i \in 1..Len(to_client), i # 1
                  PROVE  \E j \in 1..Len(to_client') : i = j + 1
        OBVIOUS
    <2>1. i - 1 \in 1..Len(to_client') /\ i = (i - 1) + 1
        BY <1>2
    <2>. QED  BY <2>1
<1>5. 1 \in 1..Len(to_client)
    BY <1>2
<1>6. ASSUME NEW i \in Stamped(to_client), i # 1
      PROVE  Stamped(to_client') # {}
    <2>1. PICK j \in 1..Len(to_client') : i = j + 1
        BY <1>4, <1>6 DEF Stamped
    <2>2. to_client'[j] = to_client[i] /\ to_client[i] # HangUp
        BY <1>2, <1>6, <2>1 DEF Stamped
    <2>. QED  BY <2>2 DEF Stamped
<1>7. \A i \in Stamped(to_client') :
         /\ i \in 1..Len(to_client') /\ i + 1 \in Stamped(to_client)
         /\ to_client'[i] = to_client[i + 1]
    BY <1>2, <1>3 DEF Stamped
<1>8. 1 \in Stamped(to_client) <=> to_client[1] # HangUp
    BY <1>5 DEF Stamped
<1>. QED  BY <1>2, <1>6, <1>7, <1>8

(* The client hears that the host has hung up. *)
LEMMA AgreedHangUp ==
    ASSUME VoiceTypeOK, HostInv, Agreed, on_hang_up, ~crossed', ~overlaid
    PROVE  Agreed'
<1>. USE DEF None
<1>1. /\ to_client # <<>> /\ to_client' = Tail(to_client) /\ to_client[1] = HangUp
      /\ UNCHANGED <<host, to_host, asked, to_cm, cm>>
    BY FirstMessages DEF on_hang_up, onClient, bounds
<1>2. Finally' = Finally
    BY <1>1 DEF Finally
<1>3. /\ client'.ts = client.ts /\ client'.sender = 0
      /\ client'.shown = IF client.sender = 0 THEN client.shown ELSE "notStarted"
    BY DEF on_hang_up, VoiceTypeOK, ClientStates
<1>4. ~(client.sender = 0 /\ client.shown = "waiting")
    BY DEF on_hang_up
<1>5. client.shown \in {"notStarted", "waiting", "connected"}
    BY DEF VoiceTypeOK, ClientStates
<1>6. /\ client.shown # "waiting" /\ client'.shown = "notStarted"
    BY <1>3, <1>4, <1>5 DEF Agreed, WaitingInv, ConnectedInv
<1>7. StampInv'
    <2>1. \A i \in Stamped(to_client') : i + 1 \in Stamped(to_client) /\ i \in 1..Len(to_client')
                                          /\ to_client'[i] = to_client[i + 1]
        BY <1>1, ClientTakes
    <2>2. Len(to_client') \in Nat
        BY <1>1, ClientTakes, StampTypes
    <2>. QED  BY <1>1, <1>3, <2>1, <2>2, StampTypes DEF Agreed, StampInv, InCall
<1>8. NotStartedInv'
    <2>1. CASE client.shown = "notStarted"
        <3>1. Stamped(to_client') = {} => Stamped(to_client) = {}
            BY <1>1, ClientTakes
        <3>. QED  BY <1>1, <1>2, <1>3, <2>1, <3>1 DEF Agreed, NotStartedInv
    <2>2. CASE client.shown = "connected"
        <3>1. to_host = <<>> /\ ~InCall /\ host.ts = 0
            BY <1>1, <2>2 DEF Agreed, ConnectedInv, StampInv
        <3>2. Finally = "none"
            BY <3>1 DEF HostInv, Finally, cm_shows, VoiceTypeOK
        <3>. QED  BY <1>1, <1>2, <1>3, <3>1, <3>2 DEF NotStartedInv
    <2>. QED  BY <1>5, <1>6, <2>1, <2>2
<1>. QED  BY <1>6, <1>7, <1>8 DEF Agreed, WaitingInv, ConnectedInv

(* The host hears that the client has hung up. *)
LEMMA HostTakes ==
    ASSUME VoiceTypeOK, to_host # <<>>, to_host' = Tail(to_host)
    PROVE  /\ Head(to_host) = to_host[1]
           /\ Len(to_host) >= 1 /\ Len(to_host') = Len(to_host) - 1
           /\ \A i \in Stamped(to_host') :
                 /\ i \in 1..Len(to_host') /\ i + 1 \in Stamped(to_host)
                 /\ to_host'[i] = to_host[i + 1]
           /\ to_host[1] # HangUp => 1 \in Stamped(to_host)
           /\ to_host' = <<>> <=> Len(to_host) = 1
           /\ to_host' # <<>> => to_host'[Len(to_host')] = to_host[Len(to_host)]
<1>1. to_host \in Seq(Requests)
    BY DEF VoiceTypeOK
<1>2. /\ Head(to_host) = to_host[1] /\ Len(to_host) \in Nat
      /\ Len(to_host) >= 1 /\ Len(to_host') = Len(to_host) - 1
      /\ \A i \in 1..Len(to_host') : to_host'[i] = to_host[i + 1]
      /\ to_host' = <<>> <=> Len(to_host) = 1
      /\ to_host' # <<>> => to_host'[Len(to_host')] = to_host[Len(to_host)]
    BY <1>1, Taken
<1>3. \A i \in 1..Len(to_host') : i + 1 \in 1..Len(to_host)
    BY <1>2
<1>4. 1 \in 1..Len(to_host)
    BY <1>2
<1>. QED  BY <1>2, <1>3, <1>4 DEF Stamped

(* The client takes an answer.  Without a loss it is the one to its        *)
(* request.                                                                *)
LEMMA AgreedResponse ==
    ASSUME VoiceTypeOK, HostInv, Agreed, on_response, ~crossed', ~revived', ~overlaid
    PROVE  Agreed'
<1>. USE DEF None
<1>1. /\ to_client # <<>> /\ to_client' = Tail(to_client) /\ to_client[1] # HangUp
      /\ Head(to_client) = to_client[1] /\ 1 \in Stamped(to_client)
      /\ UNCHANGED <<host, to_host, asked, to_cm, cm>>
    BY FirstMessages, ClientTakes DEF on_response, onClient, bounds
<1>2. Finally' = Finally
    BY <1>1 DEF Finally
<1>3. client.ts # 0
    BY <1>1 DEF Agreed, StampInv
<1>4. to_client[1].ts = client.ts /\ to_client[1].ts # 0
    BY <1>1, <1>3 DEF on_response, response_fits
<1>5. /\ host.ts = 0 /\ Stamped(to_host) = {} /\ \A j \in Stamped(to_client) : j <= 1
      /\ ~to_client[1].accepted => ~InCall
    BY <1>1, <1>4 DEF Agreed, StampInv
<1>6. Stamped(to_client') = {}
    <2>. SUFFICES ASSUME NEW i \in Stamped(to_client') PROVE FALSE
        OBVIOUS
    <2>1. i + 1 \in Stamped(to_client) /\ i \in 1..Len(to_client')
        BY <1>1, ClientTakes
    <2>. QED  BY <1>5, <2>1
<1>7. client'.ts = 0
    <2>1. \/ client' = [ts |-> None, sender |-> to_client[1].ts, shown |-> "connected"]
          \/ client' = [client EXCEPT !.ts = None, !.shown = "notStarted"]
        BY <1>1, <1>4 DEF on_response, response_fits
    <2>2. CASE client' = [client EXCEPT !.ts = None, !.shown = "notStarted"]
        BY <2>2, ClientTurns DEF VoiceTypeOK
    <2>. QED  BY <2>1, <2>2
<1>8. StampInv'
    BY <1>1, <1>5, <1>6, <1>7, StampTypes DEF Agreed, StampInv
<1>9. CASE to_client[1].accepted
    <2>1. /\ client' = [ts |-> None, sender |-> to_client[1].ts, shown |-> "connected"]
          /\ client.shown = "waiting"
        BY <1>1, <1>4, <1>9 DEF on_response, response_fits
    <2>2. client'.shown = "connected" /\ client'.sender # 0
        BY <1>4, <2>1
    <2>3. to_host = <<>>
        <3>1. to_host # <<>> => Len(to_host) \in Stamped(to_host)
            BY <1>3, <2>1, Messages, StampTypes
            DEF Agreed, WaitingInv, Stamped, Stamps
        <3>. QED  BY <1>5, <3>1
    <2>4. InCall <=> to_client' = <<>>
        <3>1. InCall <=> 1 = Len(to_client)
            BY <1>1, <1>4, <1>9, <2>1 DEF Agreed, WaitingInv
        <3>. QED  BY <1>1, <3>1, ClientTakes
    <2>5. ConnectedInv'
        BY <1>1, <1>7, <2>2, <2>3, <2>4 DEF ConnectedInv, InCall
    <2>. QED  BY <1>8, <2>2, <2>5 DEF Agreed, WaitingInv, NotStartedInv
<1>10. CASE ~to_client[1].accepted
    <2>1. client' = [client EXCEPT !.ts = None, !.shown = "notStarted"]
        BY <1>1, <1>4, <1>10 DEF on_response, response_fits
    <2>2. client'.shown = "notStarted" /\ client'.sender = client.sender
        BY <2>1, ClientTurns DEF VoiceTypeOK
    <2>3. client.shown = "waiting" \/ client.shown = "notStarted"
        BY <1>3 DEF Agreed, ConnectedInv, VoiceTypeOK, ClientStates
    <2>4. client.sender = 0
        BY <2>3 DEF Agreed, WaitingInv, NotStartedInv
    <2>5. to_host # <<>> => to_host[Len(to_host)] = HangUp
        <3>1. to_host # <<>> => Len(to_host) \in 1..Len(to_host)
            BY StampTypes
        <3>. QED  BY <1>5, <3>1 DEF Stamped
    <2>6. Finally = "none"
        BY <1>5, <1>10 DEF HostInv, Finally, cm_shows, VoiceTypeOK
    <2>7. NotStartedInv'
        BY <1>1, <1>2, <2>2, <2>4, <2>5, <2>6 DEF NotStartedInv
    <2>. QED  BY <1>8, <2>2, <2>7 DEF Agreed, WaitingInv, ConnectedInv
<1>. QED  BY <1>9, <1>10

(* A request reaches the host. *)
LEMMA AgreedCall ==
    ASSUME VoiceTypeOK, Agreed, on_call, ~overlaid'
    PROVE  Agreed'
<1>. USE DEF None
<1>1. /\ to_host # <<>> /\ to_host' = Tail(to_host) /\ to_host[1] # HangUp
      /\ 1 \in Stamped(to_host)
      /\ UNCHANGED <<client, to_client, asked>>
    BY FirstMessages, HostTakes DEF on_call, onHost, bounds
<1>2. /\ host'.ts = to_host[1].ts /\ to_host[1].ts \in Stamps
      /\ host'.backup = host.backup /\ Finally' = "incoming" /\ host.backup = {}
    BY Asked DEF InCall
<1>3. \A i \in Stamped(to_host') : /\ i \in 1..Len(to_host') /\ i + 1 \in Stamped(to_host)
                                    /\ to_host'[i] = to_host[i + 1]
    BY <1>1, HostTakes
<1>4. Len(to_host') \in Nat
    BY <1>1, HostTakes, StampTypes
<1>5. /\ client.ts # 0 /\ \A i \in Stamped(to_client) : to_client[i].ts # client.ts
    BY <1>1 DEF Agreed, StampInv
<1>6. host'.ts = client.ts => Stamped(to_host') = {}
    <2>. SUFFICES ASSUME host'.ts = client.ts, NEW i \in Stamped(to_host') PROVE FALSE
        OBVIOUS
    <2>1. i + 1 \in Stamped(to_host) /\ 1 < i + 1
        BY <1>3, <1>4
    <2>. QED  BY <1>1, <1>2, <2>1 DEF Agreed, StampInv
<1>7. StampInv'
    <2>1. \A i \in Stamped(to_host') : to_host'[i].ts <= asked
        BY <1>3 DEF Agreed, StampInv
    <2>2. \A i, j \in Stamped(to_host') : i < j => to_host'[i].ts # client.ts
        <3>. SUFFICES ASSUME NEW i \in Stamped(to_host'), NEW j \in Stamped(to_host'), i < j
                      PROVE  to_host'[i].ts # client.ts
            OBVIOUS
        <3>1. /\ i + 1 \in Stamped(to_host) /\ j + 1 \in Stamped(to_host) /\ i + 1 < j + 1
              /\ to_host'[i] = to_host[i + 1]
            BY <1>3, <1>4
        <3>. QED  BY <3>1 DEF Agreed, StampInv
    <2>3. host'.ts <= asked
        BY <1>1, <1>2 DEF Agreed, StampInv
    <2>4. client.ts \in {0, asked} /\ \A i \in Stamped(to_client) : to_client[i].ts <= asked
        BY DEF Agreed, StampInv
    <2>. QED  BY <1>1, <1>5, <1>6, <2>1, <2>2, <2>3, <2>4 DEF StampInv
<1>8. WaitingInv'
    <2>. SUFFICES ASSUME client.shown = "waiting" PROVE WaitingInv'
        BY <1>1 DEF WaitingInv
    <2>1. /\ client.sender = 0 /\ to_host[Len(to_host)] = Call(client.ts)
        BY <1>1 DEF Agreed, WaitingInv
    <2>2. to_host' # <<>> => to_host'[Len(to_host')] = Call(client.ts)
        BY <1>1, <2>1, HostTakes
    <2>3. to_host' = <<>> => host'.ts = client.ts
        <3>1. client.ts \in Stamps
            BY <1>5, StampTypes DEF Stamps
        <3>2. Call(client.ts).ts = client.ts
            BY <3>1, Messages
        <3>3. to_host' = <<>> => to_host[1] = Call(client.ts)
            BY <1>1, <2>1, HostTakes
        <3>. QED  BY <1>2, <3>2, <3>3
    <2>. QED  BY <1>1, <1>2, <1>5, <2>1, <2>2, <2>3 DEF WaitingInv, InCall
<1>9. ConnectedInv'
    BY <1>1, <1>5 DEF Agreed, ConnectedInv
<1>10. NotStartedInv'
    <2>. SUFFICES ASSUME client.shown = "notStarted" PROVE NotStartedInv'
        BY <1>1 DEF NotStartedInv
    <2>1. client.sender = 0 /\ to_host[Len(to_host)] = HangUp
        BY <1>1 DEF Agreed, NotStartedInv
    <2>2. to_host' # <<>> /\ to_host'[Len(to_host')] = HangUp
        BY <1>1, <2>1, HostTakes
    <2>. QED  BY <1>1, <2>1, <2>2 DEF NotStartedInv
<1>. QED  BY <1>7, <1>8, <1>9, <1>10 DEF Agreed

(* The host takes the end of a call from the client. *)
LEMMA AgreedClosedByClient ==
    ASSUME VoiceTypeOK, Agreed, close_by_client
    PROVE  Agreed'
<1>. USE DEF None
<1>1. /\ to_host # <<>> /\ to_host' = Tail(to_host) /\ to_host[1] = HangUp
      /\ UNCHANGED <<client, to_client, asked>> /\ close_voice_call
    BY FirstMessages DEF close_by_client, onHost, bounds
<1>2. ~InCall' /\ host'.ts = host.ts /\ Finally' = "none"
    BY <1>1, Closed
<1>3. \A i \in Stamped(to_host') : /\ i \in 1..Len(to_host') /\ i + 1 \in Stamped(to_host)
                                    /\ to_host'[i] = to_host[i + 1]
    BY <1>1, HostTakes
<1>4. Len(to_host') \in Nat
    BY <1>1, HostTakes, StampTypes
<1>5. StampInv'
    <2>1. \A i \in Stamped(to_host') : to_host'[i].ts <= asked
        BY <1>3 DEF Agreed, StampInv
    <2>2. \A i, j \in Stamped(to_host') : i < j => to_host'[i].ts # client.ts
        <3>. SUFFICES ASSUME NEW i \in Stamped(to_host'), NEW j \in Stamped(to_host'), i < j
                      PROVE  to_host'[i].ts # client.ts
            OBVIOUS
        <3>1. /\ i + 1 \in Stamped(to_host) /\ j + 1 \in Stamped(to_host) /\ i + 1 < j + 1
              /\ to_host'[i] = to_host[i + 1]
            BY <1>3, <1>4
        <3>. QED  BY <3>1 DEF Agreed, StampInv
    <2>3. Stamped(to_host) = {} => Stamped(to_host') = {}
        BY <1>3
    <2>. QED  BY <1>1, <1>2, <2>1, <2>2, <2>3 DEF Agreed, StampInv
<1>6. WaitingInv'
    <2>. SUFFICES ASSUME client.shown = "waiting" PROVE WaitingInv'
        BY <1>1 DEF WaitingInv
    <2>1. client.ts # 0 /\ client.sender = 0 /\ to_host[Len(to_host)] = Call(client.ts)
        BY <1>1 DEF Agreed, WaitingInv
    <2>2. client.ts \in Stamps
        BY <2>1, StampTypes DEF Stamps
    <2>3. Call(client.ts) # HangUp
        BY <2>2, Messages
    <2>4. to_host' # <<>> /\ to_host'[Len(to_host')] = Call(client.ts)
        BY <1>1, <2>1, <2>3, HostTakes
    <2>5. Len(to_host) \in Stamped(to_host)
        BY <1>1, <2>1, <2>3, StampTypes DEF Stamped
    <2>6. \A i \in Stamped(to_client) : to_client[i].ts # client.ts
        BY <2>5 DEF Agreed, StampInv
    <2>. QED  BY <1>1, <2>1, <2>4, <2>6 DEF WaitingInv
<1>7. ConnectedInv'
    BY <1>1 DEF Agreed, ConnectedInv
<1>8. NotStartedInv'
    <2>1. to_host' # <<>> => to_host'[Len(to_host')] = to_host[Len(to_host)]
        BY <1>1, HostTakes
    <2>. QED  BY <1>1, <1>2, <2>1 DEF Agreed, NotStartedInv
<1>. QED  BY <1>5, <1>6, <1>7, <1>8 DEF Agreed

(* The host hangs up. *)
LEMMA AgreedClosedByCm ==
    ASSUME VoiceTypeOK, Agreed, close_by_cm
    PROVE  Agreed'
<1>. USE DEF None
<1>1. /\ to_client' = Append(to_client, HangUp) /\ close_voice_call
      /\ UNCHANGED <<client, to_host, asked>>
    BY DEF close_by_cm, onHost, bounds
<1>2. ~InCall' /\ host'.ts = host.ts /\ Finally' = "none"
    BY <1>1, Closed
<1>3. to_client \in Seq(Responses) /\ HangUp \in Responses
    BY Messages DEF VoiceTypeOK
<1>4. /\ to_client' # <<>> /\ Len(to_client') = Len(to_client) + 1
      /\ \A i \in 1..Len(to_client) : to_client'[i] = to_client[i]
    BY <1>1, <1>3, Sent
<1>5. Stamped(to_client') = Stamped(to_client)
    BY <1>1, <1>3, SentHangUp, Zenon
<1>6. StampInv'
    BY <1>1, <1>2, <1>4, <1>5, StampTypes DEF Agreed, StampInv
<1>7. WaitingInv'
    <2>1. \A i \in Stamped(to_client') : i # Len(to_client')
        BY <1>4, <1>5, StampTypes
    <2>. QED  BY <1>1, <1>2, <1>4, <2>1 DEF Agreed, WaitingInv
<1>8. ConnectedInv' /\ NotStartedInv'
    BY <1>1, <1>2, <1>4 DEF Agreed, ConnectedInv, NotStartedInv
<1>. QED  BY <1>6, <1>7, <1>8 DEF Agreed

(* The host answers. *)
LEMMA AgreedAnswer ==
    ASSUME VoiceTypeOK, HostInv, Agreed, ~overlaid, handle_voice_call
    PROVE  Agreed'
<1>. USE DEF None
<1>1. UNCHANGED <<client, to_host, asked, cm>>
    BY DEF handle_voice_call, onHost, bounds
<1>2. CASE host.ts = None /\ UNCHANGED <<host, setters, raced, to_cm, to_client>>
    BY <1>1, <1>2, AgreedKept DEF Finally
<1>3. ASSUME NEW a \in BOOLEAN, host.ts # None, host'.ts = None, InCall' <=> a,
             to_client' = Append(to_client, Answer(host.ts, a))
      PROVE  Agreed'
    <2>1. PICK k \in Stamps : k = host.ts
        BY <1>3, StampTypes DEF Stamps
    <2>2. /\ to_client \in Seq(Responses) /\ Answer(k, a) \in Responses /\ Answer(k, a) # HangUp
          /\ Answer(k, a).ts = k /\ Answer(k, a).accepted = a
        BY Messages DEF VoiceTypeOK
    <2>3. PICK n \in Nat : n = Len(to_client)
        BY StampTypes
    <2>4. /\ to_client' # <<>> /\ Len(to_client') = n + 1 /\ to_client'[n + 1] = Answer(k, a)
          /\ \A i \in 1..n : to_client'[i] = to_client[i]
        BY <1>3, <2>1, <2>2, <2>3, Sent
    <2>5. Stamped(to_client') = Stamped(to_client) \cup {n + 1}
        <3>1. Stamped(to_client') = Stamped(to_client) \cup {Len(to_client) + 1}
            BY <1>3, <2>1, <2>2, SentStamped, Zenon
        <3>. QED  BY <2>3, <3>1
    <2>6. Stamped(to_client) \subseteq 1..n
        BY <2>3, StampTypes
    <2>7. client.ts # 0 /\ \A i \in Stamped(to_client) : to_client'[i].ts # client.ts
        BY <1>3, <2>4, <2>6 DEF Agreed, StampInv
    <2>8. StampInv'
        <3>1. \A i \in Stamped(to_client') : to_client'[i].ts <= asked
            BY <2>1, <2>2, <2>4, <2>5, <2>6 DEF Agreed, StampInv
        <3>2. \A i \in Stamped(to_client') : to_client'[i].ts = client.ts =>
                 i = n + 1 /\ Stamped(to_host) = {} /\ to_client'[i].accepted = a
            BY <2>1, <2>2, <2>4, <2>5, <2>7 DEF Agreed, StampInv
        <3>3. \A j \in Stamped(to_client') : j <= n + 1
            BY <2>3, <2>5, <2>6
        <3>4. host'.ts <= asked
            BY <1>3, StampTypes
        <3>. QED  BY <1>1, <1>3, <2>7, <3>1, <3>2, <3>3, <3>4 DEF Agreed, StampInv
    <2>9. WaitingInv'
        <3>1. \A i \in Stamped(to_client') :
                 to_client'[i].ts = client.ts => i = n + 1 /\ to_client'[i].accepted = a
            BY <2>2, <2>4, <2>5, <2>7
        <3>. QED  BY <1>1, <1>3, <2>4, <3>1 DEF Agreed, WaitingInv
    <2>10. ConnectedInv' /\ NotStartedInv'
        BY <1>1, <2>4, <2>5, <2>7 DEF Agreed, ConnectedInv, NotStartedInv
    <2>. QED  BY <2>8, <2>9, <2>10 DEF Agreed
<1>4. host.ts # None => ~InCall
    BY DEF HostInv
<1>. QED  BY <1>2, <1>3, <1>4, Answered DEF InCall

(* Every step keeps the agreement until something is lost. *)
LEMMA AgreeStep ==
    ASSUME VoiceTypeOK, HostInv, AgreeInv, [Next]_vars
    PROVE  AgreeInv'
<1>. USE DEF channels, bounds, history
<1>. SUFFICES ASSUME connected', ~crossed', ~revived', ~overlaid'
              PROVE  Agreed'
    BY DEF AgreeInv, Agreed
<1>1. connected /\ ~crossed /\ ~revived /\ ~overlaid
    <2>1. CASE UNCHANGED <<connected, crossed, revived, overlaid>>
        BY <2>1
    <2>2. CASE NewVoiceCall
        BY <2>2, Zenon DEF NewVoiceCall, onClient
    <2>3. CASE on_hang_up
        BY <2>3, Zenon DEF on_hang_up, onClient
    <2>4. CASE on_response
        <3>1. UNCHANGED <<connected, overlaid>>
            BY <2>4 DEF on_response, onClient
        <3>2. crossed' = crossed \/ crossed' = (crossed \/ client.ts # None)
            BY <2>4 DEF on_response
        <3>3. revived' = revived \/ revived' = (revived \/ client.shown # "waiting")
            BY <2>4 DEF on_response
        <3>4. ~crossed
            BY <3>2
        <3>5. ~revived
            BY <3>3
        <3>. QED  BY <3>1, <3>4, <3>5
    <2>5. CASE on_call
        BY <2>5, Zenon DEF on_call, onHost
    <2>6. CASE CloseVoiceCall \/ close_by_client \/ handle_voice_call \/ close_by_cm
        BY <2>1, <2>6 DEF CloseVoiceCall, close_by_client, handle_voice_call, close_by_cm,
           onClient, onHost
    <2>7. CASE \/ \E n \in recording : recorder_exits(n)
               \/ \E i \in DOMAIN setters : setter_runs(i)
               \/ cm_receives \/ cm_clicks \/ UNCHANGED vars
        BY <2>1, <2>7 DEF recorder_exits, setter_runs, cm_receives, cm_clicks, onClient, onCm, vars
    <2>8. CASE connection_lost
        BY <2>8 DEF connection_lost
    <2>. QED  BY <2>2, <2>3, <2>4, <2>5, <2>6, <2>7, <2>8 DEF Next
<1>2. Agreed
    BY <1>1 DEF AgreeInv, Agreed
<1>3. CASE NewVoiceCall \/ CloseVoiceCall \/ on_hang_up \/ on_response
    BY <1>1, <1>2, <1>3, AgreedNew, AgreedClose, AgreedHangUp, AgreedResponse
<1>4. CASE on_call \/ close_by_client \/ handle_voice_call \/ close_by_cm
    BY <1>1, <1>2, <1>4, AgreedCall, AgreedClosedByClient, AgreedAnswer, AgreedClosedByCm
<1>5. CASE \/ \E n \in recording : recorder_exits(n)
           \/ \E i \in DOMAIN setters : setter_runs(i)
           \/ cm_clicks \/ UNCHANGED vars
    <2>1. UNCHANGED <<client, host, to_host, to_client, asked, cm, to_cm>>
        BY <1>5 DEF recorder_exits, setter_runs, cm_clicks, onClient, onCm, vars
    <2>. QED  BY <1>2, <2>1, AgreedKept DEF Finally
<1>6. CASE cm_receives
    <2>1. UNCHANGED <<client, host, to_host, to_client, asked>>
        BY <1>6 DEF cm_receives, onCm
    <2>. QED  BY <1>2, <1>6, <2>1, AgreedKept, CmReads
<1>7. CASE connection_lost
    BY <1>7 DEF connection_lost
<1>. QED  BY <1>3, <1>4, <1>5, <1>6, <1>7 DEF Next

(* When nothing is under way, client, host and connection manager agree    *)
(* whether there is a call and whether there is a request to answer,       *)
(* except for the losses the property names.                               *)
THEOREM PartiesAgreeHolds == Spec => []PartiesAgree
<1>1. Init => AgreeInv
    <2>. SUFFICES ASSUME Init PROVE Agreed
        BY DEF AgreeInv, Agreed
    <2>1. /\ client.ts = 0 /\ client.sender = 0 /\ client.shown = "notStarted"
          /\ host.ts = 0 /\ asked = 0 /\ to_host = <<>> /\ to_client = <<>> /\ Finally = "none"
        BY DEF Init, None, Finally
    <2>2. Stamped(to_host) = {} /\ Stamped(to_client) = {}
        BY <2>1, StampTypes, TypeInit
    <2>. QED  BY <2>1, <2>2 DEF Agreed, StampInv, WaitingInv, ConnectedInv, NotStartedInv, None
<1>2. VoiceTypeOK /\ HostInv /\ AgreeInv => PartiesAgree
    <2>. SUFFICES ASSUME VoiceTypeOK, HostInv, AgreeInv, Quiet, ~crossed, ~revived, ~overlaid
                  PROVE  /\ InCall <=> client.shown = "connected"
                         /\ InCall <=> client.sender # None
                         /\ InCall <=> cm = "in_call"
                         /\ client.shown = "waiting" <=> cm = "incoming"
                         /\ client.shown = "waiting" => client.ts = host.ts
        BY DEF PartiesAgree
    <2>1. /\ WaitingInv /\ ConnectedInv /\ NotStartedInv /\ to_host = <<>> /\ to_client = <<>>
          /\ Finally = cm /\ Stamped(to_client) = {}
        BY StampTypes DEF AgreeInv, Quiet, Finally
    <2>2. client.shown \in {"notStarted", "waiting", "connected"}
        BY DEF VoiceTypeOK, ClientStates
    <2>. QED  BY <2>1, <2>2 DEF WaitingInv, ConnectedInv, NotStartedInv, HostInv
<1>. QED  BY <1>1, <1>2, AgreeStep, HostInvHolds, PTL DEF Spec
=============================================================================
