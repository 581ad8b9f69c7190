---------------------------- MODULE Registration ----------------------------
(***************************************************************************)
(* What the mediator tasks of one round do (start_udp, handle_resp,        *)
(* register_peer, register_pk, handle_uuid_mismatch in                     *)
(* src/src/rendezvous_mediator.rs): each registers the id of this machine  *)
(* and its key at its server, again and again, over UDP.  The tasks share  *)
(* the id, the confirmation of the key and the name of the server that     *)
(* refused the id (SOLVING_PK_MISMATCH), which the others wait for.  An    *)
(* answer does not say which request it answers.                           *)
(*                                                                         *)
(* Time is abstracted to the order of events: an unanswered request times  *)
(* out at any moment, an answer is in time or later than a second, and an  *)
(* answered registration is renewed at any moment.  So reg_timeout, which  *)
(* only says when, is not in the model.                                    *)
(***************************************************************************)
EXTENDS Mediators, Integers, FiniteSets

CONSTANTS
    Taken,            \* Taken[h]: ids that server h has given to others
    MaxId,            \* bound: ids are 0..MaxId, each new one the next
    MAX_FAILS1,       \* 2 in the code
    MAX_FAILS2,       \* 4 in the code
    MaxDisturbances   \* bound: messages lost or overtaken, rounds that end, tests

Ids == 0..MaxId

ASSUME RegistrationAssumption ==
    /\ MaxId \in Nat /\ Taken \in [Hosts -> SUBSET Ids]
    /\ MAX_FAILS1 \in Nat \ {0} /\ MAX_FAILS2 \in Nat /\ MAX_FAILS1 < MAX_FAILS2
    /\ MaxDisturbances \in Nat
    /\ None \notin Hosts

VARIABLES
    id,             \* Config's id
    key_confirmed,  \* Config's key_confirmed
    keys_confirmed, \* the hosts with keys_confirmed
    solving,        \* SOLVING_PK_MISMATCH
    handler,             \* where each task is in its handler
    sent,           \* last_register_sent is Some
    fails,
    old_latency,    \* positive
    latency,        \* Config's ONLINE: 1 for a latency, 0 also for no entry
    tested,         \* history: hosts a test has shown since their task did
    requests,       \* on their way to each server
    answers,        \* and back
    accepted,       \* ids each server has registered for this machine
    disturbances

configVars == <<id, key_confirmed, keys_confirmed>>
shownVars == <<fails, old_latency, latency, tested>>
registrationVars == <<configVars, solving, handler, sent, shownVars, requests, answers, accepted,
          disturbances>>

Pk(i) == [kind |-> "register_pk", id |-> i]
Peer(i) == [kind |-> "register_peer", id |-> i]
Requests == {Pk(i) : i \in Ids} \cup {Peer(i) : i \in Ids}
Answers == {"ok", "uuid_mismatch", "peer", "peer_request_pk"}

RegistrationInit ==
    /\ id = 0
    /\ key_confirmed = FALSE /\ keys_confirmed = {}
    /\ solving = None
    /\ handler = [h \in Hosts |-> "loop"]
    /\ sent = [h \in Hosts |-> FALSE]
    /\ fails = [h \in Hosts |-> 0]
    /\ old_latency = [h \in Hosts |-> FALSE]
    /\ latency = [h \in Hosts |-> 0]
    /\ tested = {}
    /\ requests = [h \in Hosts |-> {}]
    /\ answers = [h \in Hosts |-> {}]
    /\ accepted = [h \in Hosts |-> {}]
    /\ disturbances = 0

Disturbed ==
    /\ disturbances < MaxDisturbances
    /\ disturbances' = disturbances + 1

Send(h, m) == requests' = [requests EXCEPT ![h] = @ \cup {m}]

(* handle_uuid_mismatch holds the lock of SOLVING_PK_MISMATCH while it     *)
(* makes a new id.                                                         *)
Unlocked == \A h \in Hosts : handler[h] # "new_id"

-----------------------------------------------------------------------------
(* update_latency, the closure: an answer ends a row of failures, and its  *)
(* latency is shown if it came within a second.  One that nobody waits for *)
(* any more counts as 0, averaged with those before, if there are any.     *)
(* Definitions named after a deviation are the ones after them with a      *)
(* plausible mistake.                                                      *)

Shows(h, value) ==
    /\ latency' = [latency EXCEPT ![h] = value]
    /\ old_latency' = [old_latency EXCEPT ![h] = (value > 0)]
    /\ tested' = tested \ {h}

update_latency(h) ==
    /\ sent' = [sent EXCEPT ![h] = FALSE]
    /\ fails' = [fails EXCEPT ![h] = 0]
    /\ \/ Shows(h, 1)
       \/ (sent[h] \/ old_latency[h]) /\ UNCHANGED <<latency, old_latency, tested>>
       \/ ~sent[h] /\ ~old_latency[h] /\ Shows(h, 0)

Takes(h, m) ==
    /\ handler[h] = "loop" /\ m \in answers[h]
    /\ answers' = [answers EXCEPT ![h] = @ \ {m}]
    /\ update_latency(h)
    /\ UNCHANGED <<accepted, disturbances>>

request_pk_ignored(h) ==
    /\ Takes(h, "peer") \/ Takes(h, "peer_request_pk")
    /\ UNCHANGED <<configVars, solving, handler, requests>>

on_register_peer_response(h) ==
    \/ Takes(h, "peer") /\ UNCHANGED <<configVars, solving, handler, requests>>
    \/ Takes(h, "peer_request_pk") /\ Send(h, Pk(id)) /\ UNCHANGED <<configVars, solving, handler>>

(* OK: the key is confirmed, then for this host, then nobody is solving;   *)
(* other tasks come in between.                                            *)
on_pk_ok(h) ==
    /\ Takes(h, "ok")
    /\ key_confirmed' = TRUE
    /\ handler' = [handler EXCEPT ![h] = "confirm_host"]
    /\ UNCHANGED <<id, keys_confirmed, solving, requests>>

onlyHandler == <<sent, shownVars, answers, accepted, disturbances>>

set_host_key_confirmed(h) ==
    /\ handler[h] = "confirm_host"
    /\ keys_confirmed' = keys_confirmed \cup {h}
    /\ handler' = [handler EXCEPT ![h] = "solved"]
    /\ UNCHANGED <<onlyHandler, id, key_confirmed, solving, requests>>

solved(h) ==
    /\ handler[h] = "solved" /\ Unlocked
    /\ solving' = None
    /\ handler' = [handler EXCEPT ![h] = "loop"]
    /\ UNCHANGED <<onlyHandler, configVars, requests>>

(* UUID_MISMATCH, while another host is being solved. *)
on_mismatch_ignored(h) ==
    /\ Takes(h, "uuid_mismatch") /\ Unlocked
    /\ solving \notin {None, h}
    /\ UNCHANGED <<configVars, solving, handler, requests>>

(* set_key_confirmed(false) takes back what all hosts have confirmed, if   *)
(* anything is.                                                            *)
on_mismatch(h) ==
    /\ Takes(h, "uuid_mismatch") /\ Unlocked
    /\ solving \in {None, h}
    /\ key_confirmed' = FALSE
    /\ keys_confirmed' = IF key_confirmed THEN {} ELSE keys_confirmed
    /\ handler' = [handler EXCEPT ![h] = "new_id"]
    /\ UNCHANGED <<id, solving, requests>>

update_id(h) ==
    /\ handler[h] = "new_id" /\ id < MaxId
    /\ id' = id + 1
    /\ solving' = h
    /\ Send(h, Pk(id'))
    /\ handler' = [handler EXCEPT ![h] = "loop"]
    /\ UNCHANGED <<onlyHandler, key_confirmed, keys_confirmed>>

-----------------------------------------------------------------------------
(* A tick of the timer.                                                    *)

(* Nothing is sent, and no error reported, while another host is solved. *)
register_peer(h) ==
    IF solving \notin {None, h} THEN UNCHANGED requests
    ELSE Send(h, IF key_confirmed /\ h \in keys_confirmed THEN Peer(id) ELSE Pk(id))

(* What is shown of a server after failures in a row.  Their number is not *)
(* told apart beyond MAX_FAILS2.                                           *)
Failures(h) == IF fails[h] < MAX_FAILS2 THEN fails[h] + 1 ELSE fails[h]

failing_keeps_latency(h) ==
    /\ fails' = [fails EXCEPT ![h] = Failures(h)]
    /\ latency' = [latency EXCEPT ![h] = IF Failures(h) >= MAX_FAILS2 THEN -1
                                       ELSE IF Failures(h) >= MAX_FAILS1 THEN 0 ELSE @]
    /\ tested' = IF Failures(h) >= MAX_FAILS1 THEN tested \ {h} ELSE tested
    /\ UNCHANGED old_latency

failing(h) ==
    /\ fails' = [fails EXCEPT ![h] = Failures(h)]
    /\ IF Failures(h) >= MAX_FAILS2 THEN Shows(h, -1)
       ELSE IF Failures(h) >= MAX_FAILS1 THEN Shows(h, 0)
       ELSE UNCHANGED <<latency, old_latency, tested>>

onlyTick == <<configVars, solving, handler, answers, accepted>>

(* The timer is three seconds at least: messages under way are late. *)
Overtakes(h) ==
    IF requests[h] = {} /\ answers[h] = {} THEN UNCHANGED disturbances ELSE Disturbed

renew(h) ==
    /\ handler[h] = "loop" /\ Unlocked
    /\ ~sent[h] /\ Overtakes(h)
    /\ register_peer(h)
    /\ sent' = [sent EXCEPT ![h] = TRUE]
    /\ UNCHANGED <<onlyTick, shownVars>>

(* There is no answer, or none yet. *)
timeout(h) ==
    /\ handler[h] = "loop" /\ Unlocked
    /\ sent[h]
    /\ Overtakes(h)
    /\ failing(h)
    /\ register_peer(h)
    /\ UNCHANGED <<onlyTick, sent>>

-----------------------------------------------------------------------------
(* The server, from what the tasks expect of it, and the network.          *)

serve(h, m) ==
    /\ m \in requests[h]
    /\ requests' = [requests EXCEPT ![h] = @ \ {m}]
    /\ LET answer == IF m.kind = "register_peer"
                     THEN IF m.id \in accepted[h] THEN "peer" ELSE "peer_request_pk"
                     ELSE IF m.id \in Taken[h] THEN "uuid_mismatch" ELSE "ok"
       IN  /\ answers' = [answers EXCEPT ![h] = @ \cup {answer}]
           /\ accepted' = IF answer = "ok" THEN [accepted EXCEPT ![h] = @ \cup {m.id}]
                          ELSE accepted
    /\ UNCHANGED <<configVars, solving, handler, sent, shownVars, disturbances>>

lose_request(h, m) ==
    /\ m \in requests[h] /\ Disturbed
    /\ requests' = [requests EXCEPT ![h] = @ \ {m}]
    /\ UNCHANGED <<configVars, solving, handler, sent, shownVars, answers, accepted>>

lose_answer(h, m) ==
    /\ m \in answers[h] /\ Disturbed
    /\ answers' = [answers EXCEPT ![h] = @ \ {m}]
    /\ UNCHANGED <<configVars, solving, handler, sent, shownVars, requests, accepted>>

(* A task ends with an error and takes the others with it (Rendezvous):    *)
(* start_all begins again with new sockets.                                *)
new_round ==
    /\ \A h \in Hosts : handler[h] = "loop"
    /\ Disturbed
    /\ solving' = None
    /\ sent' = [h \in Hosts |-> FALSE]
    /\ fails' = [h \in Hosts |-> 0]
    /\ old_latency' = [h \in Hosts |-> FALSE]
    /\ latency' = [h \in Hosts |-> 0] /\ tested' = {}
    /\ requests' = [h \in Hosts |-> {}]
    /\ answers' = [h \in Hosts |-> {}]
    /\ UNCHANGED <<configVars, handler, accepted>>

-----------------------------------------------------------------------------
(* test_rendezvous_server, in threads of its own: when start_all starts or *)
(* a client of this machine has failed to connect, every server is         *)
(* connected to, the time it took or its failure is shown as its latency,  *)
(* and at last everything shown is taken back.  The tasks are not told.    *)
(* Tests may overlap, so what each of them does can come at any moment.    *)
test_shows(h) ==
    /\ Cardinality(Hosts) > 1 /\ Disturbed
    /\ \E value \in {-1, 1} : latency' = [latency EXCEPT ![h] = value]
    /\ tested' = tested \cup {h}
    /\ UNCHANGED <<configVars, solving, handler, sent, fails, old_latency, requests, answers,
                   accepted>>

test_resets ==
    /\ Cardinality(Hosts) > 1 /\ Disturbed
    /\ latency' = [h \in Hosts |-> 0]
    /\ tested' = Hosts
    /\ UNCHANGED <<configVars, solving, handler, sent, fails, old_latency, requests, answers,
                   accepted>>

-----------------------------------------------------------------------------
Handles(h) ==
    \/ on_register_peer_response(h) \/ on_pk_ok(h) \/ on_mismatch(h) \/ on_mismatch_ignored(h)

GoesOn(h) == set_host_key_confirmed(h) \/ solved(h) \/ update_id(h)

RegistrationNext ==
    \/ \E h \in Hosts :
          \/ Handles(h) \/ GoesOn(h) \/ renew(h) \/ timeout(h) \/ test_shows(h)
          \/ \E m \in requests[h] : serve(h, m) \/ lose_request(h, m)
          \/ \E m \in answers[h] : lose_answer(h, m)
    \/ new_round \/ test_resets

(* The timers tick, handlers go on, and of the messages under way that are *)
(* not lost some message arrives.                                          *)
RegistrationFairness ==
    \A h \in Hosts :
        /\ WF_registrationVars(GoesOn(h)) /\ WF_registrationVars(Handles(h))
        /\ WF_registrationVars(renew(h) \/ timeout(h))
        /\ WF_registrationVars(\E m \in requests[h] : serve(h, m))

RegistrationSpec == RegistrationInit /\ [][RegistrationNext]_registrationVars /\ RegistrationFairness

-----------------------------------------------------------------------------
(* Types, and what the user is shown of each server, unless a test has     *)
(* shown it last.  A latency is on record for the next comparison exactly  *)
(* while one is shown, so that the first answer in time after a failure is *)
(* shown; a row of failures is shown as such, by its length; and the new   *)
(* id is made by one task.  After a test nothing is shown of a server,     *)
(* although it answers, until its latency changes by a fifth or more.      *)
ShownAsItIs ==
    /\ id \in Ids /\ key_confirmed \in BOOLEAN /\ keys_confirmed \subseteq Hosts
    /\ solving \in Hosts \cup {None}
    /\ handler \in [Hosts -> {"loop", "confirm_host", "solved", "new_id"}]
    /\ sent \in [Hosts -> BOOLEAN]
    /\ fails \in [Hosts -> 0..MAX_FAILS2] /\ old_latency \in [Hosts -> BOOLEAN]
    /\ latency \in [Hosts -> {-1, 0, 1}]
    /\ requests \in [Hosts -> SUBSET Requests] /\ answers \in [Hosts -> SUBSET Answers]
    /\ accepted \in [Hosts -> SUBSET Ids]
    /\ disturbances \in 0..MaxDisturbances
    /\ tested \subseteq Hosts
    /\ \A h \in Hosts \ tested :
          /\ old_latency[h] <=> latency[h] = 1
          /\ fails[h] >= MAX_FAILS2 => latency[h] = -1
          /\ fails[h] \in MAX_FAILS1..MAX_FAILS2 - 1 => latency[h] = 0
    /\ \A g, h \in Hosts : handler[g] = "new_id" /\ handler[h] = "new_id" => g = h

(* Whatever was lost, came late or was answered for an id given up since,  *)
(* and in whichever order the tasks changed what they share, in the end    *)
(* the id stays the same and every server has it.                          *)
Registers == <>[](\A h \in Hosts : id \in accepted[h])
=============================================================================
