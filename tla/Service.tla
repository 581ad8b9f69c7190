------------------------------ MODULE Service ------------------------------
(***************************************************************************)
(* The subscription table of one service (ServiceTmpl in                   *)
(* src/src/server/service.rs) and the operations of the Server             *)
(* (src/src/server.rs) that change it.                                     *)
(*                                                                         *)
(* Two parties share the table.  Connections change it through the Server, *)
(* whose write lock admits one of them at a time; the service's own thread *)
(* moves the new subscribers over after it has sent them a snapshot, and   *)
(* takes only the table's lock.  Every step below is one critical section  *)
(* of the table's lock: Server::subscribe takes it three times.            *)
(***************************************************************************)
EXTENDS Naturals, FiniteSets

CONSTANTS
    Conns,          \* connection ids; get_new_id never hands one out twice
    NeedSnapshot    \* the need_snapshot flag the service was made with

ASSUME NeedSnapshotAssumption == NeedSnapshot \in BOOLEAN

VARIABLES
    subscribes,     \* ServiceInner.subscribes
    new_subscribes, \* ServiceInner.new_subscribes
    active,         \* ServiceInner.active; cleared when the Server is dropped
    connections,    \* Server.connections
    gone,           \* connections whose task has called remove_connection
    caller,         \* the Server::subscribe call that holds the Server's lock
    want,           \* history: what was last asked for on behalf of each id
    raced           \* history: ids whose last unsubscription met a swap

tableVars == <<subscribes, new_subscribes>>
serverVars == <<active, connections, gone, caller, want>>
vars == <<tableVars, serverVars, raced>>

Subscribed == subscribes \cup new_subscribes

(* No call to Server::subscribe is under way. *)
Idle == [pc |-> "idle"]

Calls == [pc : {"second_read", "apply"}, conn : Conns, sub : BOOLEAN]

TypeOK ==
    /\ subscribes \subseteq Conns
    /\ new_subscribes \subseteq Conns
    /\ active \in BOOLEAN
    /\ connections \subseteq Conns
    /\ gone \subseteq Conns
    /\ caller \in {Idle} \cup Calls
    /\ want \in [Conns -> BOOLEAN]
    /\ raced \subseteq Conns

Init ==
    /\ subscribes = {}
    /\ new_subscribes = {}
    /\ active = TRUE
    /\ connections = {}
    /\ gone = {}
    /\ caller = Idle
    /\ want = [c \in Conns |-> FALSE]
    /\ raced = {}

-----------------------------------------------------------------------------
(* The three critical sections that write the table.  A definition that    *)
(* ends in a deviation (..._old_only) is the one after it   *)
(* with a plausible mistake; the specification does not use it.            *)

on_subscribe(c) ==
    IF c \in subscribes
    THEN UNCHANGED tableVars
    ELSE IF NeedSnapshot
         THEN /\ new_subscribes' = new_subscribes \cup {c}
              /\ UNCHANGED subscribes
         ELSE /\ subscribes' = subscribes \cup {c}
              /\ UNCHANGED new_subscribes

on_unsubscribe_old_only(c) ==
    /\ subscribes' = subscribes \ {c}
    /\ UNCHANGED new_subscribes

on_unsubscribe(c) ==
    IF c \in subscribes
    THEN /\ subscribes' = subscribes \ {c}
         /\ UNCHANGED new_subscribes
    ELSE /\ new_subscribes' = new_subscribes \ {c}
         /\ UNCHANGED subscribes

swap_new_subscribes ==
    /\ subscribes' = subscribes \cup new_subscribes
    /\ new_subscribes' = {}

-----------------------------------------------------------------------------
(* The Server's operations.  Each connection task joins at most once, may  *)
(* ask for or against the service at any time of its life, even before it  *)
(* joins, and calls remove_connection last.                                *)

ServerFree == active /\ caller = Idle

(* allowed: the service is not among the noperms of the connection. *)
add_connection(c, allowed) ==
    /\ ServerFree
    /\ c \notin connections \cup gone
    /\ connections' = connections \cup {c}
    /\ IF allowed
       THEN on_subscribe(c) /\ want' = [want EXCEPT ![c] = TRUE]
       ELSE UNCHANGED <<tableVars, want>>
    /\ UNCHANGED <<active, gone, caller>>

remove_connection(c) ==
    /\ ServerFree
    /\ c \notin gone
    /\ on_unsubscribe(c)
    /\ connections' = connections \ {c}
    /\ gone' = gone \cup {c}
    /\ want' = [want EXCEPT ![c] = FALSE]
    /\ UNCHANGED <<active, caller>>

is_subed_old_only(c, sub) ==
    /\ ServerFree
    /\ c \notin gone
    /\ want' = [want EXCEPT ![c] = sub]
    /\ caller' = IF (c \in subscribes) = sub
                 THEN Idle
                 ELSE [pc |-> "apply", conn |-> c, sub |-> sub]
    /\ UNCHANGED <<tableVars, active, connections, gone>>

(* Server::subscribe, first critical section: is_subed reads subscribes.   *)
(* When it finds c there the second read is skipped.                       *)
is_subed_first_read(c, sub) ==
    /\ ServerFree
    /\ c \notin gone
    /\ want' = [want EXCEPT ![c] = sub]
    /\ caller' = IF c \notin subscribes
                 THEN [pc |-> "second_read", conn |-> c, sub |-> sub]
                 ELSE IF sub THEN Idle
                 ELSE [pc |-> "apply", conn |-> c, sub |-> sub]
    /\ UNCHANGED <<tableVars, active, connections, gone>>

(* Second critical section: is_subed reads new_subscribes, and subscribe   *)
(* returns when the answer is already what was asked for.                  *)
is_subed_second_read ==
    /\ caller.pc = "second_read"
    /\ caller' = IF (caller.conn \in new_subscribes) = caller.sub
                 THEN Idle
                 ELSE [caller EXCEPT !.pc = "apply"]
    /\ UNCHANGED <<tableVars, active, connections, gone, want>>

(* Third critical section: the subscription or unsubscription itself. *)
subscribe_apply ==
    /\ caller.pc = "apply"
    /\ IF caller.sub
       THEN on_subscribe(caller.conn)
       ELSE on_unsubscribe(caller.conn)
    /\ caller' = Idle
    /\ UNCHANGED <<active, connections, gone, want>>

(* Drop for Server: every service is joined.  Nobody holds the Server. *)
join ==
    /\ ServerFree
    /\ active' = FALSE
    /\ UNCHANGED <<tableVars, connections, gone, caller, want>>

(* A later request on behalf of c makes up for one that was lost. *)
ClearRaced(c) == raced' = raced \ {c}

ServerStep ==
    \/ \E c \in Conns :
          \/ \E allowed \in BOOLEAN :
                add_connection(c, allowed)
                /\ raced' = IF allowed THEN raced \ {c} ELSE raced
          \/ remove_connection(c) /\ ClearRaced(c)
          \/ \E sub \in BOOLEAN : is_subed_first_read(c, sub) /\ ClearRaced(c)
    \/ is_subed_second_read /\ UNCHANGED raced
    \/ subscribe_apply /\ UNCHANGED raced
    \/ join /\ UNCHANGED raced

(* The service's thread drops its ServiceSwap.  The connections it moves   *)
(* include those that joined since the snapshot was sent.                  *)
ThreadSwap ==
    /\ swap_new_subscribes
    /\ raced' = IF /\ caller.pc = "second_read"
                   /\ ~caller.sub
                   /\ caller.conn \in new_subscribes
                THEN raced \cup {caller.conn}
                ELSE raced
    /\ UNCHANGED serverVars

Next == ServerStep \/ ThreadSwap

Spec == Init /\ [][Next]_vars

-----------------------------------------------------------------------------
(* No connection is in both halves of the table.  on_unsubscribe looks in  *)
(* the second half only when the first does not have the id, so an id in   *)
(* both would stay subscribed after it was removed.  A service without     *)
(* snapshots has no new subscribers.                                       *)
Disjoint ==
    /\ subscribes \cap new_subscribes = {}
    /\ ~NeedSnapshot => new_subscribes = {}

(* A connection that has called remove_connection is in neither half, now  *)
(* and for ever: no swap or late subscription brings it back.              *)
RemovedStaysOut == gone \cap Subscribed = {}

(* Between calls the table says what was last asked for, for every         *)
(* connection: all requests to subscribe hold, and a request to            *)
(* unsubscribe is lost only when the thread's swap fell between the two    *)
(* reads of is_subed.                                                      *)
Matches(c) == (c \in Subscribed) <=> (want[c] \/ c \in raced)

TableMatchesRequests == caller = Idle => \A c \in Conns : Matches(c)

(* What is known of the connection a call to Server::subscribe is about.   *)
CallInv ==
    caller # Idle =>
        /\ caller.conn \notin gone
        /\ want[caller.conn] = caller.sub
        /\ (caller.pc = "apply" \/ caller.sub) => caller.conn \notin raced
        /\ (caller.pc = "second_read" /\ ~caller.sub) =>
              (caller.conn \in subscribes <=> caller.conn \in raced)

(* The inductive invariant: the table is well formed, agrees with the      *)
(* requests for every connection but the one whose call is under way, and  *)
(* nothing is wanted or remembered on behalf of a connection that is gone. *)
ServiceInv ==
    /\ TypeOK
    /\ Disjoint
    /\ \A c \in gone : ~want[c] /\ c \notin raced
    /\ \A c \in Conns : (caller = Idle \/ c # caller.conn) => Matches(c)
    /\ CallInv
=============================================================================
