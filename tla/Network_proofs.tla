---------------------------- MODULE Network_proofs ----------------------------
(***************************************************************************)
(* Proofs about what all that goes over the network rests on: the head of  *)
(* every message on a stream, for every length that can be sent and bytes  *)
(* of 256 values; and the rounds of the rendezvous mediator, for any       *)
(* servers, settings and threads that change them.                         *)
(***************************************************************************)
EXTENDS BytesCodec, Rendezvous, Registration, TLAPS

(* BytesCodec::decode_head, given what BytesCodec::encode put before a     *)
(* message of any length up to 0x3FFFFFFF, knows from the first byte how   *)
(* long the head is and gets the length of the message from it; its bytes  *)
(* are bytes.                                                              *)
THEOREM HeadRoundTrip ==
    ASSUME Byte = 256, NEW n \in Nat, n <= 1073741823
    PROVE  /\ Len(encode_head(n)) \in 1..4
           /\ \A i \in 1..Len(encode_head(n)) :
                 encode_head(n)[i] \in Nat /\ encode_head(n)[i] < 256
           /\ head_len(encode_head(n)[1]) = Len(encode_head(n))
           /\ decode_head(encode_head(n)) = n
<1>1. Place[1] = 1 /\ Place[2] = 256 /\ Place[3] = 65536 /\ Place[4] = 16777216
    BY SMT DEF Place
<1>2. /\ Longest(1) = 63 /\ Longest(2) = 16383
      /\ Longest(3) = 4194303 /\ Longest(4) = 1073741823
    BY <1>1, SMT DEF Longest
<1>3. CASE n <= 63
    <2>1. head_size(n) = 1
        BY <1>2, <1>3, SMT DEF head_size
    <2>2. Len(encode_head(n)) = 1 /\ encode_head(n)[1] = (4 * n) % 256
        BY <1>1, <2>1, SMT DEF encode_head
    <2>. QED  BY <1>3, <2>2, SMT DEF head_len, decode_head
<1>4. CASE n > 63 /\ n <= 16383
    <2>. DEFINE h == 4 * n + 1
    <2>1. head_size(n) = 2
        BY <1>2, <1>4, SMT DEF head_size
    <2>2. /\ Len(encode_head(n)) = 2
          /\ encode_head(n)[1] = h % 256
          /\ encode_head(n)[2] = (h \div 256) % 256
        BY <1>1, <2>1, SMT DEF encode_head
    <2>. QED  BY <1>1, <1>4, <2>2, SMT DEF head_len, decode_head
<1>5. CASE n > 16383 /\ n <= 4194303
    <2>. DEFINE h == 4 * n + 2
    <2>1. head_size(n) = 3
        BY <1>2, <1>5, SMT DEF head_size
    <2>2. /\ Len(encode_head(n)) = 3
          /\ encode_head(n)[1] = h % 256
          /\ encode_head(n)[2] = (h \div 256) % 256
          /\ encode_head(n)[3] = (h \div 65536) % 256
        BY <1>1, <2>1, SMT DEF encode_head
    <2>. QED  BY <1>1, <1>5, <2>2, SMT DEF head_len, decode_head
<1>6. CASE n > 4194303
    <2>. DEFINE h == 4 * n + 3
    <2>1. head_size(n) = 4
        BY <1>2, <1>6, SMT DEF head_size
    <2>2. /\ Len(encode_head(n)) = 4
          /\ encode_head(n)[1] = h % 256
          /\ encode_head(n)[2] = (h \div 256) % 256
          /\ encode_head(n)[3] = (h \div 65536) % 256
          /\ encode_head(n)[4] = (h \div 16777216) % 256
        BY <1>1, <2>1, SMT DEF encode_head
    <2>. QED  BY <1>1, <1>6, <2>2, SMT DEF head_len, decode_head
<1>. QED  BY <1>3, <1>4, <1>5, <1>6, SMT

-----------------------------------------------------------------------------
(* The rounds of the mediator.                                             *)

(* At the start nothing runs and nothing has been read. *)
LEMMA RendezvousInit ==
    ASSUME Init
    PROVE  RendezvousInv /\ RoundInv
<1>1. RendezvousInv
    BY DEF Init, RendezvousInv, Running, InRound
<1>2. RoundInv
    BY DEF Init, RoundInv, InRound
<1>. QED BY <1>1, <1>2

(* A step of start_all keeps it. *)
LEMMA StartAllKeeps ==
    ASSUME RendezvousInv, start_all
    PROVE  RendezvousInv'
<1>. USE DEF RendezvousInv, Running, Goes, InRound, flags, writerVars, historyVars
<1>1. CASE check_stop_service
    BY <1>1 DEF check_stop_service
<1>2. CASE close_connections
    BY <1>2 DEF close_connections
<1>3. CASE get_rendezvous_servers
    <2>1. settings.servers \subseteq Hosts
        BY RendezvousAssumption
    <2>. QED BY <1>3, <2>1 DEF get_rendezvous_servers
<1>4. CASE clear_should_exit
    BY <1>4 DEF clear_should_exit
<1>5. CASE clear_and_spawn
    BY <1>5 DEF clear_and_spawn
<1>6. CASE join_all
    BY <1>6 DEF join_all
<1>7. CASE pace
    BY <1>7 DEF pace
<1>8. CASE wake_up
    BY <1>8 DEF wake_up
<1>. QED BY <1>1, <1>2, <1>3, <1>4, <1>5, <1>6, <1>7, <1>8 DEF start_all

(* A step of a task, or of what it has spawned, keeps it. *)
LEMMA TasksKeep ==
    ASSUME RendezvousInv,
           \/ \E h \in Hosts : TaskStep(h) \/ task_fails(h) \/ spawn_handler(h)
           \/ handler_ends \/ connections_end
    PROVE  RendezvousInv'
<1>. USE DEF RendezvousInv, Running, InRound, TaskGoes, onlyTask, writerVars, historyVars
<1>1. ASSUME NEW h \in Hosts, start(h) PROVE RendezvousInv'
    BY <1>1 DEF start
<1>2. ASSUME NEW h \in Hosts, tick(h) \/ task_fails(h) PROVE RendezvousInv'
    BY <1>2 DEF tick, task_fails
<1>3. ASSUME NEW h \in Hosts, leaves(h) PROVE RendezvousInv'
    BY <1>3 DEF leaves
<1>4. ASSUME NEW h \in Hosts, spawn_handler(h) PROVE RendezvousInv'
    BY <1>4 DEF spawn_handler
<1>5. CASE handler_ends \/ connections_end
    <2>1. open' \in BOOLEAN /\ opening' \in BOOLEAN
        BY <1>5, Zenon DEF handler_ends, connections_end
    <2>2. UNCHANGED <<settings, manual_restarted, pc, servers, wpc, snapshot, asked, forgotten,
                      unasked, task, should_exit>>
        BY <1>5, Zenon DEF handler_ends, connections_end
    <2>. QED BY <2>1, <2>2
<1>. HIDE DEF RendezvousInv
<1>. QED BY <1>1, <1>2, <1>3, <1>4, <1>5 DEF TaskStep

(* The definitions of the steps of a thread that changes the settings come *)
(* down to a few effects: those on its guard and on the settings.          *)
LEMMA WriterTypes ==
    ASSUME RendezvousInv, NEW w \in Writers, writer(w)
    PROVE  /\ UNCHANGED <<pc, servers, task, opening, open>>
           /\ settings' \in Settings
           /\ should_exit' \in BOOLEAN /\ manual_restarted' \in BOOLEAN
           /\ asked' \in BOOLEAN /\ forgotten' \in BOOLEAN /\ unasked' \in BOOLEAN
           /\ asked' => pc \in {"read", "clear_exit"}
           /\ forgotten' \/ unasked' => InRound
<1>1. /\ settings \in Settings
      /\ should_exit \in BOOLEAN /\ manual_restarted \in BOOLEAN
      /\ asked \in BOOLEAN /\ forgotten \in BOOLEAN /\ unasked \in BOOLEAN
      /\ asked => pc \in {"read", "clear_exit"}
      /\ forgotten \/ unasked => InRound
    BY DEF RendezvousInv
<1>. USE DEF onlyWriter, flags, historyVars, InRound
<1>2. CASE check_if_restart_new(w) \/ configure_update(w)
    BY <1>1, <1>2 DEF check_if_restart_new, configure_update, remember
<1>3. CASE check_if_restart_drop(w) \/ compare_servers(w)
    BY <1>1, <1>3 DEF check_if_restart_drop, compare_servers, compare
<1>4. CASE set_options(w)
    <2>1. forgotten' \in BOOLEAN /\ (forgotten' => InRound)
        BY <1>1, <1>4, Zenon DEF set_options
    <2>2. UNCHANGED <<pc, servers, task, opening, open, should_exit, manual_restarted, asked, unasked>>
        BY <1>4, Zenon DEF set_options
    <2>3. settings' \in Settings
        BY <1>4, Zenon DEF set_options
    <2>. QED BY <1>1, <2>1, <2>2, <2>3, Zenon
<1>5. CASE set_rendezvous_servers(w)
    <2>1. forgotten' \in BOOLEAN /\ (forgotten' => InRound)
        BY <1>1, <1>5, Zenon DEF set_rendezvous_servers
    <2>2. UNCHANGED <<pc, servers, task, opening, open, should_exit, manual_restarted, asked, unasked>>
        BY <1>5, Zenon DEF set_rendezvous_servers
    <2>3. settings' \in Settings
        BY <1>5, Zenon DEF set_rendezvous_servers
    <2>. QED BY <1>1, <2>1, <2>2, <2>3, Zenon
<1>6. CASE set_and_restart(w)
    BY <1>1, <1>6 DEF set_and_restart
<1>7. CASE restart_exit(w)
    <2>1. asked' = (pc \in {"read", "clear_exit"}) /\ should_exit' = TRUE
        BY <1>7, Zenon DEF restart_exit
    <2>2. asked' \in BOOLEAN
        BY <2>1, SMT
    <2>4. asked' => pc \in {"read", "clear_exit"}
        BY <2>1, Zenon
    <2>5. should_exit' \in BOOLEAN
        BY <2>1, SMT
    <2>3. UNCHANGED <<pc, servers, task, opening, open, settings, manual_restarted, forgotten, unasked>>
        BY <1>7, Zenon DEF restart_exit
    <2>. QED BY <1>1, <2>2, <2>3, <2>4, <2>5, Zenon
<1>9. CASE restart_manual(w)
    BY <1>1, <1>9, Zenon DEF restart_manual
<1>8. CASE test_nat_type(w) \/ handle_config_options(w)
    <2>1. PICK s \in Settings : Unasked(s)
        BY <1>8, Zenon DEF test_nat_type, handle_config_options
    <2>2. unasked' \in BOOLEAN /\ (unasked' => InRound) /\ settings' = s
        BY <1>1, <2>1, Zenon DEF Unasked
    <2>3. UNCHANGED <<pc, servers, task, opening, open, should_exit, manual_restarted, asked, forgotten>>
        BY <2>1, Zenon DEF Unasked
    <2>. QED BY <1>1, <2>2, <2>3, Zenon
<1>. QED BY <1>2, <1>3, <1>4, <1>5, <1>6, <1>7, <1>8, <1>9, Zenon DEF writer

(* A guard holds settings exactly as long as it has to compare them. *)
LEMMA WriterGuards ==
    ASSUME RendezvousInv, NEW w \in Writers, writer(w)
    PROVE  /\ wpc' \in [Writers -> {"idle", "set", "drop", "update", "updated", "exit", "manual"}]
           /\ snapshot' \in [Writers -> Settings \cup {None}]
           /\ \A v \in Writers :
                 snapshot'[v] \in (IF wpc'[v] \in {"set", "drop", "update", "updated"}
                                  THEN Settings ELSE {None})
<1>1. /\ settings \in Settings
      /\ wpc \in [Writers -> {"idle", "set", "drop", "update", "updated", "exit", "manual"}]
      /\ snapshot \in [Writers -> Settings \cup {None}]
      /\ \A v \in Writers :
            snapshot[v] \in (IF wpc[v] \in {"set", "drop", "update", "updated"}
                             THEN Settings ELSE {None})
    BY DEF RendezvousInv
<1>. USE <1>1 DEF WriterGoes
<1>2. CASE check_if_restart_new(w) \/ configure_update(w)
    BY <1>2 DEF check_if_restart_new, configure_update, remember
<1>3. CASE check_if_restart_drop(w) \/ compare_servers(w)
    <2>1. PICK to \in {"exit", "idle"} : wpc' = [wpc EXCEPT ![w] = to]
        BY <1>3 DEF check_if_restart_drop, compare_servers, compare
    <2>2. snapshot' = [snapshot EXCEPT ![w] = None]
        BY <1>3 DEF check_if_restart_drop, compare_servers, compare
    <2>. QED BY <2>1, <2>2
<1>4. CASE set_options(w) \/ set_rendezvous_servers(w)
    BY <1>4 DEF set_options, set_rendezvous_servers
<1>5. CASE set_and_restart(w) \/ restart_exit(w) \/ restart_manual(w)
    BY <1>5 DEF set_and_restart, restart_exit, restart_manual
<1>6. CASE test_nat_type(w) \/ handle_config_options(w)
    BY <1>6 DEF test_nat_type, handle_config_options, Unasked
<1>. QED BY <1>2, <1>3, <1>4, <1>5, <1>6, Zenon DEF writer

(* A step of a thread that changes the settings keeps it. *)
LEMMA WriterKeeps ==
    ASSUME RendezvousInv, NEW w \in Writers, writer(w)
    PROVE  RendezvousInv'
BY WriterTypes, WriterGuards DEF RendezvousInv, Running, InRound

(* What a round has read is what the settings are, or a restart is on its  *)
(* way, or one was forgotten or never asked for: a step of a thread that   *)
(* changes the settings keeps this.  A change brings its guard to compare, *)
(* or the restart that it asks for; and a guard whose restart was all that *)
(* was pending asks for it, or finds the settings as they were.            *)
LEMMA WriterRound ==
    ASSUME RendezvousInv, RoundInv, NEW w \in Writers, writer(w)
    PROVE  RoundInv'
<1>. USE DEF RoundInv, InRound, WhatIsRead, RestartPending
<1>1. /\ wpc \in [Writers -> {"idle", "set", "drop", "update", "updated", "exit", "manual"}]
      /\ snapshot \in [Writers -> Settings \cup {None}]
    BY DEF RendezvousInv
<1>. USE <1>1 DEF WriterGoes, onlyWriter, flags, historyVars
<1>2. CASE check_if_restart_new(w) \/ configure_update(w)
    BY <1>2 DEF check_if_restart_new, configure_update, remember
<1>3. CASE check_if_restart_drop(w)
    BY <1>3 DEF check_if_restart_drop, compare
<1>4. CASE compare_servers(w)
    BY <1>4 DEF compare_servers, compare
<1>5. CASE set_options(w)
    <2>1. wpc[w] = "set" /\ wpc' = [wpc EXCEPT ![w] = "drop"] /\ snapshot' = snapshot
        BY <1>5 DEF set_options
    <2>2. UNCHANGED <<pc, servers, should_exit, asked, unasked>>
        BY <1>5 DEF set_options
    <2>3. (InRound /\ ~forgotten') => ~forgotten /\ snapshot[w] = settings
        BY <1>5 DEF set_options
    <2>4. wpc'[w] = "drop" /\ \A v \in Writers : v # w => wpc'[v] = wpc[v]
        BY <2>1
    <2>5. CASE settings' = settings
        BY <2>1, <2>2, <2>3, <2>4, <2>5
    <2>6. CASE settings' # settings
        BY <2>1, <2>2, <2>3, <2>4, <2>6
    <2>. QED BY <2>5, <2>6
<1>6. CASE set_rendezvous_servers(w)
    <2>1. wpc[w] = "update" /\ wpc' = [wpc EXCEPT ![w] = "updated"] /\ snapshot' = snapshot
        BY <1>6 DEF set_rendezvous_servers
    <2>2. UNCHANGED <<pc, servers, should_exit, asked, unasked>> /\ settings'.stop = settings.stop
        BY <1>6 DEF set_rendezvous_servers
    <2>3. (InRound /\ ~forgotten') => ~forgotten /\ snapshot[w].servers = settings.servers
        BY <1>6 DEF set_rendezvous_servers
    <2>4. wpc'[w] = "updated" /\ \A v \in Writers : v # w => wpc'[v] = wpc[v]
        BY <2>1
    <2>. SUFFICES ASSUME InRound', ~forgotten', ~unasked' PROVE (WhatIsRead \/ RestartPending)'
        OBVIOUS
    <2>5. InRound /\ ~forgotten /\ ~unasked /\ snapshot[w].servers = settings.servers
        BY <2>2, <2>3
    <2>6. CASE settings'.servers # settings.servers
        BY <2>1, <2>4, <2>5, <2>6
    <2>7. CASE settings'.servers = settings.servers
        <3>1. settings' = settings
            BY <2>2, <2>7, RendezvousAssumption, WriterTypes DEF RendezvousInv
        <3>. QED BY <2>1, <2>2, <2>4, <2>5, <3>1
    <2>. QED BY <2>6, <2>7
<1>7. CASE set_and_restart(w)
    BY <1>7 DEF set_and_restart
<1>8. CASE restart_exit(w)
    BY <1>8 DEF restart_exit
<1>9. CASE restart_manual(w)
    BY <1>9 DEF restart_manual
<1>10. CASE test_nat_type(w) \/ handle_config_options(w)
    BY <1>10 DEF test_nat_type, handle_config_options, Unasked
<1>. HIDE DEF RoundInv
<1>. QED BY <1>2, <1>3, <1>4, <1>5, <1>6, <1>7, <1>8, <1>9, <1>10, Zenon DEF writer

(* And so does every other step. *)
LEMMA RoundStep ==
    ASSUME RendezvousInv, RoundInv, [Next]_vars
    PROVE  RoundInv'
<1>. USE DEF RoundInv, InRound, WhatIsRead, RestartPending
<1>1. CASE UNCHANGED vars
    BY <1>1 DEF vars, flags, writerVars, historyVars
<1>2. CASE start_all
    <2>. USE DEF Goes, flags, writerVars, historyVars
    <2>1. CASE check_stop_service
        BY <2>1 DEF check_stop_service
    <2>2. CASE close_connections \/ join_all \/ pace \/ wake_up
        BY <2>2 DEF close_connections, join_all, pace, wake_up
    <2>3. CASE get_rendezvous_servers
        BY <2>3 DEF get_rendezvous_servers
    <2>4. CASE clear_should_exit
        BY <2>4 DEF clear_should_exit
    <2>5. CASE clear_and_spawn
        BY <2>5 DEF clear_and_spawn, RendezvousInv
    <2>. QED BY <1>2, <2>1, <2>2, <2>3, <2>4, <2>5 DEF start_all
<1>3. ASSUME NEW h \in Hosts, TaskStep(h) \/ task_fails(h) \/ spawn_handler(h)
      PROVE  RoundInv'
    BY <1>3 DEF TaskStep, start, tick, task_fails, leaves, spawn_handler,
                onlyTask, writerVars, historyVars
<1>4. CASE handler_ends \/ connections_end
    BY <1>4 DEF handler_ends, connections_end, onlyTask, writerVars, historyVars
<1>. HIDE DEF RoundInv
<1>. QED BY <1>1, <1>2, <1>3, <1>4, WriterRound DEF Next

(* Only the tasks of the round that start_all waits for run, and every     *)
(* guard holds the settings it began with for as long as it has to compare *)
(* them: for any servers, settings and threads that change them.           *)
THEOREM RendezvousInvHolds == Spec => []RendezvousInv
<1>1. RendezvousInv /\ [Next]_vars => RendezvousInv'
    <2>. SUFFICES ASSUME RendezvousInv, [Next]_vars PROVE RendezvousInv'
        OBVIOUS
    <2>1. CASE UNCHANGED vars
        BY <2>1 DEF vars, flags, writerVars, historyVars, RendezvousInv, Running, InRound
    <2>2. CASE Next
        BY <2>2, StartAllKeeps, TasksKeep, WriterKeeps DEF Next
    <2>. QED BY <2>1, <2>2
<1>. QED BY <1>1, RendezvousInit, PTL DEF Spec

(* Tasks that go on, with nobody about to end them, talk to the servers of *)
(* the present settings of a service that is not stopped, unless a restart *)
(* was forgotten, in one of two ways, or the settings were changed in this *)
(* round by somebody who asks for none: for any number of threads that     *)
(* change the settings and any order of the loads and stores of the two    *)
(* flags of start_all.                                                     *)
THEOREM StaleOnlyIfForgottenHolds == Spec => []StaleOnlyIfForgotten
<1>1. RendezvousInv /\ RoundInv /\ [Next]_vars => RoundInv'
    BY RoundStep
<1>2. RendezvousInv /\ RoundInv => StaleOnlyIfForgotten
    BY DEF RoundInv, InRound, WhatIsRead, RestartPending, StaleOnlyIfForgotten, Quiet,
           RendezvousInv
<1>. QED BY <1>1, <1>2, RendezvousInit, RendezvousInvHolds, PTL DEF Spec

-----------------------------------------------------------------------------
(* What the mediator tasks of a round share, and what they show: module    *)
(* Registration, for any servers, ids taken there, numbers of failures and *)
(* messages lost or late.                                                  *)

(* The types of the shared state, of the messages and of each task. *)
RegTypes ==
    /\ id \in Ids /\ key_confirmed \in BOOLEAN /\ keys_confirmed \subseteq Hosts
    /\ solving \in Hosts \cup {None}
    /\ handler \in [Hosts -> {"loop", "confirm_host", "solved", "new_id"}]
    /\ sent \in [Hosts -> BOOLEAN]
    /\ requests \in [Hosts -> SUBSET Requests]
    /\ answers \in [Hosts -> SUBSET Answers]
    /\ accepted \in [Hosts -> SUBSET Ids]
    /\ disturbances \in 0..MaxDisturbances

(* What is shown of each server a test has not shown last, with its types. *)
RegShown ==
    /\ fails \in [Hosts -> 0..MAX_FAILS2] /\ old_latency \in [Hosts -> BOOLEAN]
    /\ latency \in [Hosts -> {-1, 0, 1}]
    /\ tested \subseteq Hosts
    /\ \A h \in Hosts \ tested :
          /\ old_latency[h] <=> latency[h] = 1
          /\ fails[h] >= MAX_FAILS2 => latency[h] = -1
          /\ fails[h] \in MAX_FAILS1..MAX_FAILS2 - 1 => latency[h] = 0

(* The new id is made by one task. *)
RegOneSolver ==
    \A g, h \in Hosts : handler[g] = "new_id" /\ handler[h] = "new_id" => g = h

(* The three are all there is to ShownAsItIs. *)
LEMMA RegSplit == ShownAsItIs <=> RegTypes /\ RegShown /\ RegOneSolver
BY DEF ShownAsItIs, RegTypes, RegShown, RegOneSolver

(* A new entry for one server keeps what is shown right, if it is right. *)
LEMMA RegShows ==
    ASSUME RegShown, NEW h \in Hosts, NEW n \in 0..MAX_FAILS2,
           NEW value \in {-1, 0, 1}, Shows(h, value),
           fails' = [fails EXCEPT ![h] = n],
           n >= MAX_FAILS2 => value = -1,
           n \in MAX_FAILS1..MAX_FAILS2 - 1 => value = 0
    PROVE  RegShown'
<1>. DEFINE b == value > 0
<1>1. b \in BOOLEAN
    BY SMT
<1>2. b <=> value = 1
    BY SMT
<1>3. /\ old_latency' = [old_latency EXCEPT ![h] = b] /\ latency' = [latency EXCEPT ![h] = value]
      /\ tested' = tested \ {h}
    BY Zenon DEF Shows
<1>. HIDE DEF b
<1>4. fails' \in [Hosts -> 0..MAX_FAILS2] /\ latency' \in [Hosts -> {-1, 0, 1}]
    BY <1>3 DEF RegShown
<1>5. old_latency' \in [Hosts -> BOOLEAN]
    BY <1>1, <1>3, Zenon DEF RegShown
<1>6. ASSUME NEW g \in Hosts \ tested'
      PROVE  /\ old_latency'[g] <=> latency'[g] = 1
             /\ fails'[g] >= MAX_FAILS2 => latency'[g] = -1
             /\ fails'[g] \in MAX_FAILS1..MAX_FAILS2 - 1 => latency'[g] = 0
    <2>1. CASE g = h
        <3>1. old_latency'[g] = b /\ latency'[g] = value /\ fails'[g] = n
            BY <1>3, <2>1, Zenon DEF RegShown
        <3>. QED BY <1>2, <3>1
    <2>2. CASE g # h
        <3>1. /\ old_latency'[g] = old_latency[g] /\ latency'[g] = latency[g]
              /\ fails'[g] = fails[g]
            BY <1>3, <2>2, Zenon DEF RegShown
        <3>2. g \in Hosts \ tested
            BY <1>3, <2>2
        <3>. QED BY <3>1, <3>2 DEF RegShown
    <2>. QED BY <2>1, <2>2
<1>7. tested' \subseteq Hosts
    BY <1>3 DEF RegShown
<1>. QED BY <1>4, <1>5, <1>6, <1>7, Zenon DEF RegShown

(* An answer, update_latency: the row of failures is over. *)
LEMMA RegAnswered ==
    ASSUME RegShown, NEW h \in Hosts, update_latency(h)
    PROVE  RegShown'
<1>0. 0 \in 0..MAX_FAILS2 /\ 0 < MAX_FAILS1 /\ 0 < MAX_FAILS2
    BY RegistrationAssumption, SMT
<1>1. fails' = [fails EXCEPT ![h] = 0]
    BY DEF update_latency
<1>2. ASSUME NEW value \in {0, 1}, Shows(h, value) PROVE RegShown'
    <2>1. value \in {-1, 0, 1} /\ ~(0 >= MAX_FAILS2) /\ 0 \notin MAX_FAILS1..MAX_FAILS2 - 1
        BY <1>0, <1>2, RegistrationAssumption, SMT
    <2>. QED BY <1>0, <1>1, <1>2, <2>1, RegShows
<1>3. CASE UNCHANGED <<latency, old_latency, tested>>
    BY <1>0, <1>1, <1>3, RegistrationAssumption DEF RegShown
<1>. QED BY <1>2, <1>3 DEF update_latency

(* A timeout: one failure more. *)
LEMMA RegFailed ==
    ASSUME RegShown, NEW h \in Hosts, failing(h)
    PROVE  RegShown'
<1>. DEFINE n == Failures(h)
<1>1. n \in 0..MAX_FAILS2 /\ n >= 1
    BY RegistrationAssumption, SMT DEF Failures, RegShown
<1>2. fails' = [fails EXCEPT ![h] = n]
    BY DEF failing
<1>3. CASE n >= MAX_FAILS2
    <2>1. Shows(h, -1)
        BY <1>3 DEF failing
    <2>. HIDE DEF n
    <2>2. n \notin MAX_FAILS1..MAX_FAILS2 - 1
        BY <1>1, <1>3, RegistrationAssumption, SMT
    <2>. QED BY <1>1, <1>2, <1>3, <2>1, <2>2, RegShows
<1>4. CASE ~(n >= MAX_FAILS2) /\ n >= MAX_FAILS1
    <2>1. Shows(h, 0)
        BY <1>4, Zenon DEF failing
    <2>. HIDE DEF n
    <2>. QED BY <1>1, <1>2, <1>4, <2>1, RegShows
<1>5. CASE ~(n >= MAX_FAILS1)
    <2>. HIDE DEF n
    <2>0. ~(n >= MAX_FAILS2)
        BY <1>1, <1>5, RegistrationAssumption, SMT
    <2>1. UNCHANGED <<latency, old_latency, tested>>
        BY <1>5, <2>0, Zenon DEF failing, n
    <2>. QED BY <1>1, <1>2, <1>5, <2>1, RegistrationAssumption, SMT DEF RegShown
<1>. QED BY <1>3, <1>4, <1>5

(* A test changes what is shown of the servers it is said to have shown. *)
LEMMA RegTested ==
    ASSUME RegShown, test_resets \/ \E h \in Hosts : test_shows(h)
    PROVE  RegShown'
<1>1. CASE test_resets
    BY <1>1 DEF test_resets, RegShown
<1>2. ASSUME NEW h \in Hosts, test_shows(h) PROVE RegShown'
    <2>1. PICK value \in {-1, 1} : latency' = [latency EXCEPT ![h] = value]
        BY <1>2 DEF test_shows
    <2>2. UNCHANGED <<fails, old_latency>> /\ tested' = tested \cup {h}
        BY <1>2 DEF test_shows
    <2>3. latency' \in [Hosts -> {-1, 0, 1}] /\ tested' \subseteq Hosts
        BY <2>1, <2>2 DEF RegShown
    <2>4. \A g \in Hosts \ tested' : g \in Hosts \ tested /\ latency'[g] = latency[g]
        BY <2>1, <2>2 DEF RegShown
    <2>. QED BY <2>2, <2>3, <2>4 DEF RegShown
<1>. QED BY <1>1, <1>2

(* No step but an answer, a timeout, a test and a new round changes what   *)
(* is shown.                                                               *)
LEMMA RegShownStep ==
    ASSUME RegShown, [RegistrationNext]_registrationVars
    PROVE  RegShown'
<1>. USE DEF shownVars, onlyHandler
<1>1. ASSUME UNCHANGED <<fails, old_latency, latency, tested>> PROVE RegShown'
    BY <1>1 DEF RegShown
<1>2. ASSUME NEW h \in Hosts, Handles(h) PROVE RegShown'
    <2>1. update_latency(h)
        BY <1>2 DEF Handles, on_register_peer_response, on_pk_ok,
                    on_mismatch, on_mismatch_ignored, Takes
    <2>. QED BY <2>1, RegAnswered
<1>3. ASSUME NEW h \in Hosts, GoesOn(h) \/ renew(h) PROVE RegShown'
    BY <1>1, <1>3 DEF GoesOn, set_host_key_confirmed, solved,
                      update_id, renew
<1>4. ASSUME NEW h \in Hosts, timeout(h) PROVE RegShown'
    <2>1. failing(h)
        BY <1>4 DEF timeout
    <2>. QED BY <2>1, RegFailed
<1>5. ASSUME NEW h \in Hosts, NEW m,
             serve(h, m) \/ lose_request(h, m) \/ lose_answer(h, m)
      PROVE  RegShown'
    BY <1>1, <1>5 DEF serve, lose_request, lose_answer
<1>6. CASE new_round
    BY <1>6, RegistrationAssumption, SMT DEF new_round, RegShown
<1>7. CASE UNCHANGED registrationVars
    BY <1>1, <1>7 DEF registrationVars
<1>. QED BY <1>2, <1>3, <1>4, <1>5, <1>6, <1>7, RegTested DEF RegistrationNext

(* No other task makes an id while one does, for this needs the lock. *)
LEMMA RegSolverStep ==
    ASSUME RegTypes, RegOneSolver, [RegistrationNext]_registrationVars
    PROVE  RegOneSolver'
<1>. USE DEF RegOneSolver, onlyTick, Unlocked
<1>0. handler \in [Hosts -> {"loop", "confirm_host", "solved", "new_id"}]
    BY DEF RegTypes
<1>1. ASSUME handler' = handler PROVE RegOneSolver'
    BY <1>1
<1>2. ASSUME NEW h \in Hosts, Handles(h) PROVE RegOneSolver'
    <2>1. CASE on_pk_ok(h)
        BY <1>0, <2>1 DEF on_pk_ok
    <2>2. CASE on_mismatch(h)
        BY <1>0, <2>2 DEF on_mismatch
    <2>3. CASE on_register_peer_response(h) \/ on_mismatch_ignored(h)
        BY <1>1, <2>3 DEF on_register_peer_response, on_mismatch_ignored
    <2>. QED BY <1>2, <2>1, <2>2, <2>3 DEF Handles
<1>3. ASSUME NEW h \in Hosts, GoesOn(h) PROVE RegOneSolver'
    BY <1>0, <1>3 DEF GoesOn, set_host_key_confirmed, solved, update_id
<1>4. ASSUME NEW h \in Hosts, timeout(h) \/ renew(h) \/ test_shows(h) PROVE RegOneSolver'
    BY <1>1, <1>4 DEF timeout, renew, test_shows
<1>5. ASSUME NEW h \in Hosts, NEW m,
             serve(h, m) \/ lose_request(h, m) \/ lose_answer(h, m)
      PROVE  RegOneSolver'
    BY <1>1, <1>5 DEF serve, lose_request, lose_answer
<1>6. CASE new_round \/ test_resets \/ UNCHANGED registrationVars
    BY <1>1, <1>6 DEF new_round, test_resets, registrationVars
<1>. HIDE DEF RegOneSolver
<1>. QED BY <1>2, <1>3, <1>4, <1>5, <1>6 DEF RegistrationNext

(* What is sent is a request of one of the two kinds. *)
LEMMA RegRequest ==
    ASSUME NEW i \in Ids
    PROVE  Pk(i) \in Requests /\ Peer(i) \in Requests
BY DEF Requests

(* A request names an id. *)
LEMMA RegRequestId ==
    ASSUME NEW m \in Requests
    PROVE  m.id \in Ids
BY DEF Requests, Pk, Peer

(* Sending keeps the type of what is under way. *)
LEMMA RegSend ==
    ASSUME RegTypes, NEW h \in Hosts, NEW m \in Requests, Send(h, m)
    PROVE  requests' \in [Hosts -> SUBSET Requests]
BY DEF RegTypes, Send

(* Every step keeps the types. *)
LEMMA RegTypesStep ==
    ASSUME RegTypes, [RegistrationNext]_registrationVars
    PROVE  RegTypes'
<1>. USE DEF configVars, shownVars, onlyHandler, onlyTick
<1>1. ASSUME NEW h \in Hosts, NEW m, Takes(h, m)
      PROVE  /\ answers' \in [Hosts -> SUBSET Answers] /\ accepted' = accepted
             /\ disturbances' = disturbances /\ sent' \in [Hosts -> BOOLEAN]
    BY <1>1 DEF RegTypes, Takes, update_latency
<1>2. ASSUME NEW h \in Hosts, Handles(h) PROVE RegTypes'
    <2>0. /\ answers' \in [Hosts -> SUBSET Answers] /\ accepted' = accepted
          /\ disturbances' = disturbances /\ sent' \in [Hosts -> BOOLEAN]
        BY <1>1, <1>2 DEF Handles, on_register_peer_response, on_pk_ok,
                          on_mismatch, on_mismatch_ignored
    <2>1. CASE on_register_peer_response(h)
        <3>1. requests' \in [Hosts -> SUBSET Requests]
            BY <2>1, RegSend, RegRequest DEF on_register_peer_response, RegTypes
        <3>. QED BY <2>0, <2>1, <3>1 DEF on_register_peer_response, RegTypes
    <2>2. CASE on_pk_ok(h)
        BY <2>0, <2>2 DEF on_pk_ok, RegTypes
    <2>3. CASE on_mismatch(h)
        BY <2>0, <2>3 DEF on_mismatch, RegTypes
    <2>4. CASE on_mismatch_ignored(h)
        BY <2>0, <2>4 DEF on_mismatch_ignored, RegTypes
    <2>. QED BY <1>2, <2>1, <2>2, <2>3, <2>4 DEF Handles
<1>3. ASSUME NEW h \in Hosts, set_host_key_confirmed(h) \/ solved(h) PROVE RegTypes'
    BY <1>3 DEF set_host_key_confirmed, solved, RegTypes
<1>4. ASSUME NEW h \in Hosts, update_id(h) PROVE RegTypes'
    <2>1. id' \in Ids
        BY <1>4, RegistrationAssumption, SMT DEF update_id, RegTypes, Ids
    <2>2. requests' \in [Hosts -> SUBSET Requests]
        BY <1>4, <2>1, RegSend, RegRequest DEF update_id
    <2>. QED BY <1>4, <2>1, <2>2 DEF update_id, RegTypes
<1>5. ASSUME NEW h \in Hosts, register_peer(h)
      PROVE  requests' \in [Hosts -> SUBSET Requests]
    <2>1. CASE UNCHANGED requests
        BY <2>1 DEF RegTypes
    <2>2. CASE Send(h, Peer(id)) \/ Send(h, Pk(id))
        BY <2>2, RegSend, RegRequest DEF RegTypes
    <2>. QED BY <1>5, <2>1, <2>2 DEF register_peer
<1>6. ASSUME Disturbed \/ UNCHANGED disturbances
      PROVE  disturbances' \in 0..MaxDisturbances
    BY <1>6, RegistrationAssumption, SMT DEF Disturbed, RegTypes
<1>7. ASSUME NEW h \in Hosts, renew(h) \/ timeout(h) PROVE RegTypes'
    <2>1. requests' \in [Hosts -> SUBSET Requests]
        BY <1>5, <1>7 DEF renew, timeout
    <2>2. disturbances' \in 0..MaxDisturbances
        BY <1>6, <1>7 DEF renew, timeout, Overtakes
    <2>3. sent' \in [Hosts -> BOOLEAN]
        BY <1>7 DEF renew, timeout, RegTypes
    <2>. QED BY <1>7, <2>1, <2>2, <2>3 DEF renew, timeout, RegTypes
<1>8. ASSUME NEW h \in Hosts, NEW m \in requests[h], serve(h, m) PROVE RegTypes'
    <2>1. m.id \in Ids
        BY RegRequestId DEF RegTypes
    <2>2. \E answer \in Answers :
             /\ answers' = [answers EXCEPT ![h] = @ \cup {answer}]
             /\ accepted' = accepted \/ accepted' = [accepted EXCEPT ![h] = @ \cup {m.id}]
        BY <1>8 DEF serve, Answers
    <2>3. answers' \in [Hosts -> SUBSET Answers] /\ accepted' \in [Hosts -> SUBSET Ids]
        BY <2>1, <2>2 DEF RegTypes
    <2>. QED BY <1>8, <2>3 DEF serve, RegTypes
<1>9. ASSUME NEW h \in Hosts, NEW m, lose_request(h, m) \/ lose_answer(h, m)
      PROVE  RegTypes'
    <2>1. disturbances' \in 0..MaxDisturbances
        BY <1>6, <1>9 DEF lose_request, lose_answer
    <2>. QED BY <1>9, <2>1 DEF lose_request, lose_answer, RegTypes
<1>10. CASE new_round
    <2>1. disturbances' \in 0..MaxDisturbances
        BY <1>6, <1>10 DEF new_round
    <2>. QED BY <1>10, <2>1 DEF new_round, RegTypes
<1>11. CASE UNCHANGED registrationVars
    BY <1>11 DEF registrationVars, RegTypes
<1>12. ASSUME test_resets \/ \E h \in Hosts : test_shows(h) PROVE RegTypes'
    <2>1. disturbances' \in 0..MaxDisturbances
        BY <1>6, <1>12 DEF test_resets, test_shows
    <2>. QED BY <1>12, <2>1 DEF test_resets, test_shows, RegTypes
<1>. QED BY <1>2, <1>3, <1>4, <1>7, <1>8, <1>9, <1>10, <1>11, <1>12 DEF RegistrationNext, GoesOn

(* The invariant holds at the start. *)
LEMMA RegInit ==
    ASSUME RegistrationInit
    PROVE  ShownAsItIs
<1>0. 0 \in Ids /\ 0 \in 0..MaxDisturbances
    BY RegistrationAssumption, SMT DEF Ids
<1>1. RegTypes
    BY <1>0, Zenon DEF RegistrationInit, RegTypes
<1>2. RegShown
    BY RegistrationAssumption, SMT DEF RegistrationInit, RegShown
<1>3. RegOneSolver
    BY DEF RegistrationInit, RegOneSolver
<1>. QED BY <1>1, <1>2, <1>3, RegSplit

(* For any servers and any number of lost and late messages, what the user *)
(* is shown of a server, unless a test has shown it last, is how it last   *)
(* answered: a latency exactly while one is on record, after a row of      *)
(* failures their number's worth; and no two tasks make a new id at once.  *)
THEOREM ShownAsItIsHolds == RegistrationSpec => []ShownAsItIs
<1>1. RegistrationInit => ShownAsItIs
    BY RegInit
<1>2. ShownAsItIs /\ [RegistrationNext]_registrationVars => ShownAsItIs'
    <2>. SUFFICES ASSUME ShownAsItIs, [RegistrationNext]_registrationVars PROVE ShownAsItIs'
        OBVIOUS
    <2>1. RegTypes /\ RegShown /\ RegOneSolver
        BY RegSplit
    <2>2. RegTypes' /\ RegShown' /\ RegOneSolver'
        BY <2>1, RegTypesStep, RegShownStep, RegSolverStep
    <2>. QED BY <2>2 DEF ShownAsItIs, RegTypes, RegShown, RegOneSolver
<1>. QED BY <1>1, <1>2, PTL DEF RegistrationSpec
=============================================================================
