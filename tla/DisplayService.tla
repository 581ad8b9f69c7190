--------------------------- MODULE DisplayService ---------------------------
(***************************************************************************)
(* The display service: the thread made by ServiceTmpl::run around the     *)
(* callback of src/src/server/display_service.rs, the static SYNC_DISPLAYS *)
(* it shares with the logins and the video services, and the subscription  *)
(* table of Service.                                                       *)
(*                                                                         *)
(* A peer learns the displays from its login response and, once it is      *)
(* subscribed, from the messages of this thread, which are sent only when  *)
(* is_synced is false.  Reading the system's displays and storing them are *)
(* two steps for everybody, so an older reading can overwrite a newer one. *)
(* The paths are those of X11, Windows and macOS.                          *)
(***************************************************************************)
EXTENDS Service

CONSTANTS
    Displays,     \* the display layouts the system can have
    NoDisplays,   \* the empty list SYNC_DISPLAYS starts with
    MaxChanges    \* bound: how often the layout changes

ASSUME DisplaysAssumption == NoDisplays \notin Displays /\ MaxChanges \in Nat
(* display_service::new asks for snapshots. *)
ASSUME DisplayNeedsSnapshot == NeedSnapshot = TRUE

VARIABLES
    real,        \* what the system would report
    changes,     \* number of layout changes so far
    displays,    \* SYNC_DISPLAYS.displays
    is_synced,   \* SYNC_DISPLAYS.is_synced
    display_pc,  \* where the service's thread is
    got,         \* its local: what it read or is about to send
    checker,     \* what a video service read and is yet to store
    login,       \* per connection: "no", "read", "checked" or "in"
    lgot,        \* per connection: what its login read
    known,       \* history: the layout last sent to each connection
    missed       \* history: logged in, and not subscribed when one was sent

syncVars == <<displays, is_synced>>
loginVars == <<login, lgot>>
displayVars ==
    <<vars, real, changes, syncVars, display_pc, got, checker, loginVars, known, missed>>

Layouts == Displays \cup {NoDisplays}

DisplayThreadSteps == {"top", "has", "ok", "snap", "snap_has", "unsync", "swap_ok",
                       "swap_err", "get", "check", "take", "send", "exit"}

DisplayTypeOK ==
    /\ TypeOK
    /\ real \in Displays
    /\ changes \in 0..MaxChanges
    /\ displays \in Layouts
    /\ is_synced \in BOOLEAN
    /\ display_pc \in DisplayThreadSteps
    /\ got \in Layouts
    /\ checker \in Layouts
    /\ login \in [Conns -> {"no", "read", "checked", "in"}]
    /\ lgot \in [Conns -> Layouts]
    /\ known \in [Conns -> Layouts]
    /\ missed \subseteq Conns

DisplayInit ==
    /\ Init
    /\ real \in Displays
    /\ changes = 0
    /\ displays = NoDisplays
    /\ is_synced = FALSE
    /\ display_pc = "top"
    /\ got = NoDisplays
    /\ checker = NoDisplays
    /\ login = [c \in Conns |-> "no"]
    /\ lgot = [c \in Conns |-> NoDisplays]
    /\ known = [c \in Conns |-> NoDisplays]
    /\ missed = {}

-----------------------------------------------------------------------------
(* As in Service, a definition named after a deviation is the one after it *)
(* with a plausible mistake and is not used by the specification.          *)

(* SyncDisplaysInfo, each under the lock of SYNC_DISPLAYS.                 *)

check_changed_keeps_synced(ds) ==
    /\ displays' = ds
    /\ UNCHANGED is_synced

check_changed(ds) ==
    IF displays # ds
    THEN displays' = ds /\ is_synced' = FALSE
    ELSE UNCHANGED syncVars

-----------------------------------------------------------------------------
(* The thread.                                                             *)

DisplayGoto(from, to) == display_pc = from /\ display_pc' = to

Others == <<real, changes, checker, loginVars>>

(* ServiceTmpl::run: while sp.active(), and its test for subscribers. *)
display_run_top ==
    /\ display_pc = "top"
    /\ display_pc' = IF active THEN "has" ELSE "exit"
    /\ UNCHANGED <<vars, got, syncVars, Others, known, missed>>

display_run_has_subscribes ==
    /\ display_pc = "has"
    /\ display_pc' = IF Subscribed # {} THEN "ok" ELSE "top"
    /\ UNCHANGED <<vars, got, syncVars, Others, known, missed>>

(* The callback: while sp.ok(). *)
display_callback_ok ==
    /\ display_pc = "ok"
    /\ display_pc' = IF active /\ Subscribed # {} THEN "snap" ELSE "top"
    /\ UNCHANGED <<vars, got, syncVars, Others, known, missed>>

callback_snapshot ==
    /\ display_pc = "snap"
    /\ display_pc' = IF new_subscribes # {} THEN "snap_has" ELSE "get"
    /\ UNCHANGED <<vars, got, syncVars, Others, known, missed>>

snapshot_never_resyncs ==
    /\ DisplayGoto("snap_has", "swap_ok")
    /\ UNCHANGED <<vars, got, syncVars, Others, known, missed>>

(* Newcomers that find subscribers there make the callback fail, so that   *)
(* everybody is sent the displays again after the swap.                    *)
display_snapshot_has_subscribes ==
    /\ display_pc = "snap_has"
    /\ display_pc' = IF subscribes # {} THEN "unsync" ELSE "swap_ok"
    /\ UNCHANGED <<vars, got, syncVars, Others, known, missed>>

snapshot_unsync ==
    /\ DisplayGoto("unsync", "swap_err")
    /\ is_synced' = FALSE
    /\ UNCHANGED <<vars, got, displays, Others, known, missed>>

(* The ServiceSwap is dropped, whether the callback failed or not; after a *)
(* failure run sleeps and starts over.                                     *)
display_snapshot_swap ==
    /\ \/ DisplayGoto("swap_ok", "get")
       \/ DisplayGoto("swap_err", "top")
    /\ ThreadSwap
    /\ UNCHANGED <<got, syncVars, Others, known, missed>>

(* check_get_displays_changed_msg: read the displays, or give up ... *)
get_displays ==
    /\ DisplayGoto("get", "check")
    /\ got' = real
    /\ UNCHANGED <<vars, syncVars, Others, known, missed>>

get_displays_fails ==
    /\ DisplayGoto("get", "ok")
    /\ UNCHANGED <<vars, got, syncVars, Others, known, missed>>

(* ... store them ... *)
check_update_displays ==
    /\ DisplayGoto("check", "take")
    /\ check_changed(got)
    /\ UNCHANGED <<vars, got, Others, known, missed>>

(* ... and take them out again if they have not been sent. *)
get_update_sync_displays ==
    /\ display_pc = "take"
    /\ IF is_synced
       THEN display_pc' = "ok" /\ UNCHANGED <<got, is_synced>>
       ELSE display_pc' = "send" /\ got' = displays /\ is_synced' = TRUE
    /\ UNCHANGED <<vars, displays, Others, known, missed>>

send_displays ==
    /\ DisplayGoto("send", "ok")
    /\ known' = [c \in Conns |-> IF c \in subscribes THEN got ELSE known[c]]
    /\ missed' = (missed \cup {c \in Conns : login[c] = "in"}) \ subscribes
    /\ UNCHANGED <<vars, got, syncVars, Others>>

DisplayThreadStep ==
    \/ display_run_top \/ display_run_has_subscribes \/ display_callback_ok
    \/ callback_snapshot \/ display_snapshot_has_subscribes \/ snapshot_unsync
    \/ display_snapshot_swap
    \/ get_displays \/ get_displays_fails \/ check_update_displays
    \/ get_update_sync_displays \/ send_displays

-----------------------------------------------------------------------------
(* The others.                                                             *)

(* A monitor is plugged in or out, or a resolution is changed. *)
LayoutChange(ds) ==
    /\ changes < MaxChanges
    /\ real # ds
    /\ real' = ds
    /\ changes' = changes + 1
    /\ UNCHANGED <<vars, syncVars, display_pc, got, checker, loginVars, known, missed>>

(* A video service that sees its display change: check_displays_changed. *)
video_get_displays ==
    /\ checker = NoDisplays
    /\ checker' = real
    /\ UNCHANGED <<vars, real, changes, syncVars, display_pc, got, loginVars, known, missed>>

video_check_displays ==
    /\ checker # NoDisplays
    /\ check_changed(checker)
    /\ checker' = NoDisplays
    /\ UNCHANGED <<vars, real, changes, display_pc, got, loginVars, known, missed>>

(* update_get_sync_displays of a login: read, store, and copy for the      *)
(* login response.                                                         *)
login_get_displays(c) ==
    /\ login[c] = "no" /\ c \notin gone
    /\ login' = [login EXCEPT ![c] = "read"]
    /\ lgot' = [lgot EXCEPT ![c] = real]
    /\ UNCHANGED <<vars, real, changes, syncVars, display_pc, got, checker, known, missed>>

login_check_displays(c) ==
    /\ login[c] = "read"
    /\ login' = [login EXCEPT ![c] = "checked"]
    /\ check_changed(lgot[c])
    /\ lgot' = [lgot EXCEPT ![c] = NoDisplays]
    /\ UNCHANGED <<vars, real, changes, display_pc, got, checker, known, missed>>

login_response(c) ==
    /\ login[c] = "checked"
    /\ login' = [login EXCEPT ![c] = "in"]
    /\ known' = [known EXCEPT ![c] = displays]
    /\ UNCHANGED <<vars, real, changes, syncVars, display_pc, got, checker, lgot, missed>>

(* The Server's operations: the display service is in no noperms and is    *)
(* never named in Server::subscribe.                                       *)
display_join_service(c) ==
    /\ login[c] = "in"
    /\ add_connection(c, TRUE)
    /\ ClearRaced(c)
    /\ UNCHANGED <<real, changes, syncVars, display_pc, got, checker, loginVars, known, missed>>

display_leave_service(c) ==
    /\ login[c] \in {"no", "in"}
    /\ remove_connection(c)
    /\ ClearRaced(c)
    /\ UNCHANGED <<real, changes, syncVars, display_pc, got, checker, loginVars, known, missed>>

display_shut_down ==
    /\ join
    /\ UNCHANGED <<raced, real, changes, syncVars, display_pc, got, checker, loginVars,
                   known, missed>>

DisplayNext ==
    \/ DisplayThreadStep
    \/ \E ds \in Displays : LayoutChange(ds)
    \/ video_get_displays \/ video_check_displays
    \/ \E c \in Conns :
          \/ login_get_displays(c) \/ login_check_displays(c)
          \/ login_response(c)
          \/ display_join_service(c) \/ display_leave_service(c)
    \/ display_shut_down

(* The threads keep running and reading the displays does not fail every   *)
(* time; nobody has to log in, join or leave.                              *)
DisplayFairness ==
    /\ WF_displayVars(DisplayThreadStep)
    /\ SF_displayVars(get_displays)
    /\ WF_displayVars(video_check_displays)
    /\ \A c \in Conns : WF_displayVars(login_check_displays(c))

DisplaySpec == DisplayInit /\ [][DisplayNext]_displayVars /\ DisplayFairness

-----------------------------------------------------------------------------
(* is_synced promises that the subscribers know the displays: the thread   *)
(* sent them, or the login response said so.  It fails only for a          *)
(* connection that was between its login response and its subscription     *)
(* when the thread sent a newer layout to the others.                      *)
SyncedMeansKnown ==
    (is_synced /\ display_pc # "send") =>
        \A c \in subscribes \ missed : known[c] = displays

(* The inductive invariant behind it speaks of all who have logged in:     *)
(* they know the displays from the response, and may join at any moment.   *)
DisplayInv ==
    /\ DisplayTypeOK
    /\ \A c \in Subscribed : login[c] = "in"
    /\ (is_synced /\ display_pc = "send") => got = displays
    /\ (is_synced /\ display_pc # "send") =>
          \A c \in Conns \ missed : login[c] = "in" => known[c] = displays

(* A newcomer that missed a message is sent the displays again as long as  *)
(* somebody who was subscribed before stays.                               *)
NewcomerIsResynced ==
    \A c, d \in Conns :
        (c \in new_subscribes \cap missed /\ d \in subscribes) ~>
            (c \notin missed \/ c \notin Subscribed \/ d \notin subscribes
             \/ ~active)

(* When the layout stops changing, whatever readings are still under way,  *)
(* a connection that stays subscribed ends up knowing the real one, unless *)
(* it missed a message and came too late for the others to help it.        *)
LayoutReachesSubscribers ==
    \A c \in Conns :
        <>[](active /\ c \in subscribes) => <>[](known[c] = real \/ c \in missed)
=============================================================================
