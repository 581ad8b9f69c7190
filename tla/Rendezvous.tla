----------------------------- MODULE Rendezvous -----------------------------
(***************************************************************************)
(* The rounds of the rendezvous mediator (start_all in                     *)
(* src/src/rendezvous_mediator.rs): each round reads the settings, starts  *)
(* one task per server and waits for all of them to end.  The tasks, and   *)
(* whoever changes the settings, end a round through two atomic flags;     *)
(* every load and every store of them is a step of its own.  What a task   *)
(* says to its server, and what is shown of it, is in Registration.        *)
(***************************************************************************)
EXTENDS Mediators, Integers, FiniteSets

CONSTANTS
    Settings,   \* the values of stop-service and get_rendezvous_servers()
    Writers     \* threads that change settings

ASSUME RendezvousAssumption ==
    /\ Settings \subseteq [stop : BOOLEAN, servers : (SUBSET Hosts) \ {{}}]
    /\ None \notin Settings

VARIABLES
    settings,           \* of Config, in memory
    should_exit,        \* SHOULD_EXIT
    manual_restarted,   \* MANUAL_RESTARTED
    pc,                 \* where start_all is
    servers,            \* the list this round has read
    task,               \* the mediator tasks of this round
    opening,            \* some spawned handler is about to open a connection
    open,               \* the server has connections that are not told to stop
    wpc,                \* where each writer is
    snapshot,           \* what it compares with: its CheckIfRestart, or v0
    asked,              \* history: a restart since this round began to read
    forgotten,          \* history: a restart this round does not know of
    unasked             \* history: settings changed in this round without one

flags == <<should_exit, manual_restarted>>
writerVars == <<wpc, snapshot>>
historyVars == <<asked, forgotten, unasked>>
vars == <<settings, flags, pc, servers, task, opening, open, writerVars, historyVars>>

Init ==
    /\ settings \in Settings
    /\ should_exit = FALSE /\ manual_restarted = FALSE
    /\ pc = "check"
    /\ servers = {}
    /\ task = [h \in Hosts |-> "none"]
    /\ opening = FALSE /\ open = FALSE
    /\ wpc = [w \in Writers |-> "idle"]
    /\ snapshot = [w \in Writers |-> None]
    /\ asked = FALSE /\ forgotten = FALSE /\ unasked = FALSE

-----------------------------------------------------------------------------
(* start_all.  Definitions named after a deviation are the ones after them *)
(* with a plausible mistake.                                               *)

(* From the reading of stop-service to the end of the tasks. *)
InRound == pc \in {"read", "clear_exit", "clear_manual", "join"}

Goes(from, to) == pc = from /\ pc' = to

check_stop_service ==
    /\ Goes("check", IF settings.stop THEN "close" ELSE "read")
    /\ UNCHANGED <<settings, flags, servers, task, opening, open, writerVars,
                   historyVars>>

close_nothing ==
    /\ Goes("close", "pace")
    /\ UNCHANGED <<settings, flags, servers, task, opening, open, writerVars,
                   historyVars>>

close_connections ==
    /\ Goes("close", "pace")
    /\ open' = FALSE
    /\ UNCHANGED <<settings, flags, servers, task, opening, writerVars, historyVars>>

get_rendezvous_servers ==
    /\ Goes("read", "clear_exit")
    /\ servers' = settings.servers
    /\ UNCHANGED <<settings, flags, task, opening, open, writerVars,
                   historyVars>>

clear_should_exit ==
    /\ Goes("clear_exit", "clear_manual")
    /\ should_exit' = FALSE
    /\ forgotten' = (forgotten \/ asked) /\ asked' = FALSE
    /\ UNCHANGED <<settings, manual_restarted, servers, task, opening, open,
                   writerVars, unasked>>

clear_and_spawn ==
    /\ Goes("clear_manual", "join")
    /\ manual_restarted' = FALSE
    /\ task' = [h \in Hosts |-> IF h \in servers THEN "start" ELSE "none"]
    /\ UNCHANGED <<settings, should_exit, servers, opening, open, writerVars,
                   historyVars>>

join_all ==
    /\ Goes("join", "pace")
    /\ \A h \in servers : task[h] = "ended"
    /\ forgotten' = FALSE /\ unasked' = FALSE
    /\ UNCHANGED <<settings, flags, servers, task, opening, open, writerVars, asked>>

(* Without a manual restart a round takes CONNECT_TIMEOUT at least. *)
pace ==
    /\ Goes("pace", IF manual_restarted THEN "check" ELSE "sleep")
    /\ UNCHANGED <<settings, flags, servers, task, opening, open, writerVars,
                   historyVars>>

wake_up ==
    /\ Goes("sleep", "check")
    /\ UNCHANGED <<settings, flags, servers, task, opening, open, writerVars,
                   historyVars>>

start_all ==
    \/ check_stop_service \/ close_connections \/ get_rendezvous_servers
    \/ clear_should_exit \/ clear_and_spawn \/ join_all \/ pace \/ wake_up

-----------------------------------------------------------------------------
(* The task of one server.                                                 *)

TaskGoes(h, from, to) == task[h] = from /\ task' = [task EXCEPT ![h] = to]

onlyTask == <<settings, manual_restarted, pc, servers, writerVars, historyVars>>

(* The socket is made: the task enters its loop, or gives up. *)
start(h) ==
    /\ TaskGoes(h, "start", "loop") \/ TaskGoes(h, "start", "leaving")
    /\ UNCHANGED <<onlyTask, should_exit, opening, open>>

(* The loop ends at a tick that sees the flag, ... *)
tick(h) ==
    /\ TaskGoes(h, "loop", "leaving")
    /\ should_exit
    /\ UNCHANGED <<onlyTask, should_exit, opening, open>>

(* ... or with an error. *)
task_fails(h) ==
    /\ TaskGoes(h, "loop", "leaving")
    /\ UNCHANGED <<onlyTask, should_exit, opening, open>>

leaves_quietly(h) ==
    /\ TaskGoes(h, "leaving", "ended")
    /\ UNCHANGED <<onlyTask, should_exit, opening, open>>

leaves(h) ==
    /\ TaskGoes(h, "leaving", "ended")
    /\ should_exit' = TRUE
    /\ UNCHANGED <<onlyTask, opening, open>>

(* A request of a peer spawns a handler that the task does not wait for.   *)
spawn_handler(h) ==
    /\ task[h] = "loop" /\ ~opening
    /\ opening' = TRUE
    /\ UNCHANGED <<onlyTask, task, should_exit, open>>

handler_ends ==
    /\ opening
    /\ opening' = FALSE
    /\ open' \in {open, TRUE}
    /\ UNCHANGED <<onlyTask, task, should_exit>>

(* The peer or its user ends it. *)
connections_end ==
    /\ open
    /\ open' = FALSE
    /\ UNCHANGED <<onlyTask, task, should_exit, opening>>

-----------------------------------------------------------------------------
(* Changes of the settings that may ask for a restart.                     *)

WriterGoes(w, from, to) == wpc[w] = from /\ wpc' = [wpc EXCEPT ![w] = to]

onlyWriter == <<pc, servers, task, opening, open>>

(* The settings are remembered ... *)
remember(w, to) ==
    /\ WriterGoes(w, "idle", to)
    /\ snapshot' = [snapshot EXCEPT ![w] = settings]
    /\ UNCHANGED <<onlyWriter, settings, flags, historyVars>>

(* ... and what is remembered is let go when it has been compared. *)
compare(w, from, changed) ==
    /\ WriterGoes(w, from, IF changed THEN "exit" ELSE "idle")
    /\ snapshot' = [snapshot EXCEPT ![w] = None]
    /\ UNCHANGED <<onlyWriter, settings, flags, historyVars>>

(* Handlers of ipc and the synchronisation with the root service, guarded  *)
(* by CheckIfRestart.  Another writer may have changed the settings since  *)
(* they were remembered.                                                   *)
check_if_restart_new(w) == remember(w, "set")

set_options(w) ==
    /\ WriterGoes(w, "set", "drop")
    /\ settings' \in Settings
    /\ forgotten' = (InRound /\ (forgotten \/ snapshot[w] # settings))
    /\ UNCHANGED <<onlyWriter, snapshot, flags, asked, unasked>>

drop_compares_servers(w) == compare(w, "drop", snapshot[w].servers # settings.servers)

check_if_restart_drop(w) == compare(w, "drop", snapshot[w] # settings)

(* ConfigureUpdate, to a task in its loop. *)
configure_update(w) == (\E h \in Hosts : task[h] = "loop") /\ remember(w, "update")

set_rendezvous_servers(w) ==
    /\ WriterGoes(w, "update", "updated")
    /\ settings' \in {s \in Settings : s.stop = settings.stop}
    /\ forgotten' = (InRound /\ (forgotten \/ snapshot[w].servers # settings.servers))
    /\ UNCHANGED <<onlyWriter, snapshot, flags, asked, unasked>>

compare_servers(w) == compare(w, "updated", snapshot[w].servers # settings.servers)

(* The proxy's settings, and the service started or stopped from its own   *)
(* process (Android): whatever has changed, a restart is asked for.        *)
set_and_restart(w) ==
    /\ WriterGoes(w, "idle", "exit")
    /\ settings' \in Settings
    /\ UNCHANGED <<onlyWriter, snapshot, flags, historyVars>>

restart_exit(w) ==
    /\ WriterGoes(w, "exit", "manual")
    /\ should_exit' = TRUE
    /\ asked' = (pc \in {"read", "clear_exit"})
    /\ UNCHANGED <<onlyWriter, settings, snapshot, manual_restarted, forgotten, unasked>>

restart_manual(w) ==
    /\ WriterGoes(w, "manual", "idle")
    /\ manual_restarted' = TRUE
    /\ UNCHANGED <<onlyWriter, settings, snapshot, should_exit, historyVars>>

-----------------------------------------------------------------------------
(* Changes of the settings that ask for no restart.                        *)

Unasked(s) ==
    /\ settings' = s
    /\ unasked' = (InRound /\ (unasked \/ s # settings))
    /\ UNCHANGED <<onlyWriter, snapshot, flags, asked, forgotten>>

(* The server's list comes with its answer to the test of the network. *)
test_nat_type(w) ==
    /\ WriterGoes(w, "idle", "idle")
    /\ \E s \in Settings : s.stop = settings.stop /\ Unasked(s)

(* The answer to a heartbeat may replace the options.  Heartbeats are sent *)
(* while the service is not stopped; it may have been stopped since.  On   *)
(* mobile the interface, in this process, replaces them in the same way.   *)
handle_config_options(w) ==
    /\ WriterGoes(w, "idle", "idle")
    /\ \E s \in Settings : Unasked(s)

writer(w) ==
    \/ check_if_restart_new(w) \/ set_options(w) \/ check_if_restart_drop(w)
    \/ configure_update(w) \/ set_rendezvous_servers(w) \/ compare_servers(w)
    \/ set_and_restart(w) \/ restart_exit(w) \/ restart_manual(w)
    \/ test_nat_type(w) \/ handle_config_options(w)

-----------------------------------------------------------------------------
TaskStep(h) == start(h) \/ tick(h) \/ leaves(h)

Next ==
    \/ start_all
    \/ \E h \in Hosts : TaskStep(h) \/ task_fails(h) \/ spawn_handler(h)
    \/ handler_ends \/ connections_end
    \/ \E w \in Writers : writer(w)

(* start_all goes on when it can, its sleep ends, every task's timer ticks *)
(* once a second and what it awaits has a timeout.  Nobody has to change a *)
(* setting, no server has to answer and nothing has to fail.               *)
Fairness ==
    /\ WF_vars(start_all)
    /\ \A h \in Hosts : WF_vars(TaskStep(h))
    /\ WF_vars(handler_ends)

Spec == Init /\ [][Next]_vars /\ Fairness

-----------------------------------------------------------------------------
(* Nobody is about to ask for a restart. *)
Quiet == \A w \in Writers : wpc[w] = "idle"

Running(h) == task[h] \in {"start", "loop", "leaving"}

(* Types; a guard holds settings as long as it is to compare them; and the *)
(* tasks that run are those of this round, which start_all is waiting for. *)
RendezvousInv ==
    /\ settings \in Settings
    /\ should_exit \in BOOLEAN /\ manual_restarted \in BOOLEAN
    /\ pc \in {"check", "close", "read", "clear_exit", "clear_manual", "join", "pace", "sleep"}
    /\ servers \subseteq Hosts
    /\ task \in [Hosts -> {"none", "start", "loop", "leaving", "ended"}]
    /\ opening \in BOOLEAN /\ open \in BOOLEAN
    /\ wpc \in [Writers -> {"idle", "set", "drop", "update", "updated", "exit", "manual"}]
    /\ snapshot \in [Writers -> Settings \cup {None}]
    /\ \A w \in Writers :
          snapshot[w] \in (IF wpc[w] \in {"set", "drop", "update", "updated"}
                           THEN Settings ELSE {None})
    /\ asked \in BOOLEAN /\ forgotten \in BOOLEAN /\ unasked \in BOOLEAN
    /\ asked => pc \in {"read", "clear_exit"}
    /\ forgotten \/ unasked => InRound
    /\ \A h \in Hosts : Running(h) => pc = "join" /\ h \in servers

(* Tasks that go on, with nobody about to end them, talk to the servers of *)
(* the present settings, with the service not stopped, unless a restart    *)
(* was forgotten: one asked for between the reading of the settings and    *)
(* the clearing of SHOULD_EXIT, or one that a guard did not ask for        *)
(* because the settings had changed and come back; or the settings were    *)
(* changed, since the round began, by somebody who asks for none.          *)
StaleOnlyIfForgotten ==
    (pc = "join" /\ ~should_exit /\ Quiet /\ ~forgotten /\ ~unasked) =>
        ~settings.stop /\ servers = settings.servers

(* Why it holds.  From the reading of stop-service to the end of the round *)
(* either what was read so far is what the settings are, or the difference *)
(* is on its way to end the round: a guard will see it or has seen it, or  *)
(* the restart was asked for already.                                      *)
WhatIsRead ==
    ~settings.stop /\ (pc # "read" => servers = settings.servers)

RestartPending ==
    \/ \E w \in Writers : wpc[w] = "drop" /\ snapshot[w] # settings
    \/ \E w \in Writers : wpc[w] = "updated" /\ snapshot[w].servers # settings.servers
    \/ \E w \in Writers : wpc[w] = "exit"
    \/ asked
    \/ pc \in {"clear_manual", "join"} /\ should_exit

RoundInv ==
    (InRound /\ ~forgotten /\ ~unasked) => WhatIsRead \/ RestartPending

(* Once one task has ended, the others end too and the next round begins.  *)
OthersAlsoExit == (pc = "join" /\ \E h \in Hosts : task[h] = "ended") ~> pc = "check"

(* Settings that nobody changes any more are put to use: the service that  *)
(* is to run has tasks for exactly its servers, the one that is to stop    *)
(* has none left and no connection, not even one a handler was about to    *)
(* open when it was stopped.  Unless the round going on does not know of   *)
(* the change (see StaleOnlyIfForgotten): then the next one does.          *)
InUse ==
    IF settings.stop
    THEN ~open /\ ~opening /\ \A h \in Hosts : ~Running(h)
    ELSE pc = "join" /\ servers = settings.servers

SettingsTakeEffect == []<>(InUse \/ forgotten \/ unasked \/ ~Quiet)
=============================================================================
