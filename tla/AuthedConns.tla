---------------------------- MODULE AuthedConns ----------------------------
(***************************************************************************)
(* The registry of authorized connections, AUTHED_CONNS, and what is       *)
(* switched on with the first of them and off with the last: the wake lock *)
(* (a thread fed by a channel), the removed wallpaper and the changed      *)
(* display resolutions.  src/src/server/connection.rs, mod raii and        *)
(* start_wakelock_thread; src/src/server/display_service.rs,               *)
(* reset_resolutions.                                                      *)
(*                                                                         *)
(* The connections are tasks on several threads.  AuthedConnID::new and    *)
(* its drop take the locks of AUTHED_CONNS, WALLPAPER_REMOVER,             *)
(* CHANGED_RESOLUTIONS and WAKELOCK_SENDER one after the other and release *)
(* each before they take the next, so others come in between.              *)
(***************************************************************************)
EXTENDS Naturals, Sequences, FiniteSets

CONSTANTS
    Remote,       \* connections of type AuthConnType::Remote
    Other,        \* those for file transfer or port forwarding
    Screens,      \* display names
    Original,     \* the resolution each display had to begin with
    Resolutions   \* those the connections ask for

ASSUME ConnAssumption == Remote \cap Other = {} /\ IsFiniteSet(Remote \cup Other)
ASSUME ResolutionAssumption ==
    Original \notin Resolutions /\ "no_record" \notin Resolutions \cup {Original}

VARIABLES
    authed,      \* AUTHED_CONNS
    pc,          \* where each connection is
    count,       \* per connection: the conn_count it has read
    remote,      \* per connection: the remote_count it has read
    changing,    \* per connection: the change of resolution it is making
    channel,     \* messages to the wake-lock thread
    platform,    \* what the program was built for
    wakelock,    \* the thread's wake lock: "none", "system" or "display", or
                 \* "empty": an object without a handle of the system's
    last_display,\* the thread's last_display
    wallpaper,   \* WALLPAPER_REMOVER is set: the wallpaper is removed
    changed,     \* CHANGED_RESOLUTIONS: display name to original resolution
    resolution,  \* what the displays really have
    refused,     \* history: the system refused the last wish about the lock
    stale,       \* history: the last message sent was out of date when sent
    lost         \* history: a record was cleared that was still needed

vars == <<authed, pc, count, remote, changing, channel, platform, wakelock,
          last_display, refused, wallpaper, changed, resolution, stale, lost>>

Conns == Remote \cup Other

AllResolutions == Resolutions \cup {Original}

(* A change of resolution under way: the display, its resolution when it   *)
(* was looked at, the one asked for, and whether it has been recorded.     *)
Changes == [screen : Screens, seen : AllResolutions, to : Resolutions, recorded : BOOLEAN]

NoChange == [screen |-> "none"]
NoRecord == "no_record"

Platforms == {"windows", "macos", "linux", "android"}

Steps == {"out", "new_count", "new_remote", "new_send", "new_paper", "in",
          "drop_count", "drop_paper", "drop_reset", "drop_clear",
          "wl_count", "wl_remote", "wl_send", "done"}

Init ==
    /\ authed = {}
    /\ pc = [c \in Conns |-> "out"]
    /\ count = [c \in Conns |-> 0]
    /\ remote = [c \in Conns |-> 0]
    /\ changing = [c \in Conns |-> NoChange]
    /\ channel = <<>>
    /\ platform \in Platforms
    /\ wakelock = "none"
    /\ last_display = FALSE
    /\ refused = FALSE
    /\ wallpaper = FALSE
    /\ changed = [s \in Screens |-> NoRecord]
    /\ resolution = [s \in Screens |-> Original]
    /\ stale = FALSE
    /\ lost = FALSE

TypeOK ==
    /\ authed \subseteq Conns
    /\ pc \in [Conns -> Steps]
    /\ count \in [Conns -> Nat]
    /\ remote \in [Conns -> Nat]
    /\ changing \in [Conns -> {NoChange} \cup Changes]
    /\ platform \in Platforms
    /\ wakelock \in {"none", "empty", "system", "display"}
    /\ last_display \in BOOLEAN
    /\ refused \in BOOLEAN
    /\ wallpaper \in BOOLEAN
    /\ changed \in [Screens -> AllResolutions \cup {NoRecord}]
    /\ resolution \in [Screens -> AllResolutions]
    /\ lost \in BOOLEAN

Goto(c, from, to) == pc[c] = from /\ pc' = [pc EXCEPT ![c] = to]

wallVars == <<wallpaper, changed, resolution, changing, lost>>
lockVars == <<wakelock, last_display, refused>>
wakeVars == <<channel, platform, lockVars, stale>>

-----------------------------------------------------------------------------
(* check_wake_lock: two counts, each under the lock, and a message.        *)

read_conn_count(c, from, to) ==
    /\ Goto(c, from, to)
    /\ count' = [count EXCEPT ![c] = Cardinality(authed)]
    /\ UNCHANGED <<authed, remote, wakeVars, wallVars>>

read_remote_count(c, from, to) ==
    /\ Goto(c, from, to)
    /\ remote' = [remote EXCEPT ![c] = Cardinality(authed \cap Remote)]
    /\ UNCHANGED <<authed, count, wakeVars, wallVars>>

(* c has nothing more to do with what it counted. *)
ForgetCounts(c) ==
    /\ count' = [count EXCEPT ![c] = 0]
    /\ remote' = [remote EXCEPT ![c] = 0]

send_counts(c, from, to) ==
    /\ Goto(c, from, to)
    /\ channel' = Append(channel, <<count[c], remote[c]>>)
    /\ stale' = (\/ count[c] # Cardinality(authed)
                 \/ remote[c] # Cardinality(authed \cap Remote))
    /\ ForgetCounts(c)
    /\ UNCHANGED <<authed, platform, lockVars, wallVars>>

-----------------------------------------------------------------------------
(* AuthedConnID::new, and on_remote_authorized after it.                   *)

push(c) ==
    /\ Goto(c, "out", "new_count")
    /\ authed' = authed \cup {c}
    /\ UNCHANGED <<count, remote, wakeVars, wallVars>>

(* The wallpaper is removed once for all connections, on Windows and Linux *)
(* only; making the remover may fail, and the option may be off.           *)
on_remote_authorized(c) ==
    /\ Goto(c, "new_paper", "in")
    /\ \/ platform \in {"windows", "linux"} /\ wallpaper' = TRUE
       \/ UNCHANGED wallpaper
    /\ UNCHANGED <<authed, count, remote, wakeVars, changed, resolution, changing, lost>>

new(c) ==
    \/ push(c)
    \/ read_conn_count(c, "new_count", "new_remote")
    \/ read_remote_count(c, "new_remote", "new_send")
    \/ send_counts(c, "new_send", IF c \in Remote THEN "new_paper" ELSE "in")
    \/ on_remote_authorized(c)

-----------------------------------------------------------------------------
(* Connection::change_resolution: the displays are looked at, then comes   *)
(* the record, which keeps the oldest original, then the display itself.   *)

try_get_displays(c, s, r) ==
    /\ pc[c] = "in" /\ c \in Remote /\ platform # "android"
    /\ changing[c] = NoChange
    /\ changing' = [changing EXCEPT ![c] =
                      [screen |-> s, seen |-> resolution[s], to |-> r, recorded |-> FALSE]]
    /\ UNCHANGED <<authed, pc, count, remote, wakeVars, wallpaper, changed, resolution, lost>>

(* Deviation: the record follows every change. *)
original_of_latest(s, seen) == seen

(* What is recorded as the original of s by one who saw it as seen. *)
original_of(s, seen) == IF changed[s] = NoRecord THEN seen ELSE changed[s]

set_last_changed_resolution(c) ==
    /\ changing[c] # NoChange /\ ~changing[c].recorded
    /\ LET s == changing[c].screen
       IN  changed' = [changed EXCEPT ![s] = original_of(s, changing[c].seen)]
    /\ changing' = [changing EXCEPT ![c] = [@ EXCEPT !.recorded = TRUE]]
    /\ UNCHANGED <<authed, pc, count, remote, wakeVars, wallpaper, resolution, lost>>

(* The operating system may refuse; that is logged and no more. *)
change_resolution(c) ==
    /\ changing[c] # NoChange /\ changing[c].recorded
    /\ \/ resolution' = [resolution EXCEPT ![changing[c].screen] = changing[c].to]
       \/ UNCHANGED resolution
    /\ changing' = [changing EXCEPT ![c] = NoChange]
    /\ UNCHANGED <<authed, pc, count, remote, wakeVars, wallpaper, changed, lost>>

-----------------------------------------------------------------------------
(* Drop for AuthedConnID.                                                  *)

retain(c) ==
    /\ changing[c] = NoChange
    /\ Goto(c, "in", "drop_count")
    /\ authed' = authed \ {c}
    /\ UNCHANGED <<count, remote, wakeVars, wallVars>>

(* Deviation: connections of every type are counted. *)
last_remote_of_any_type == authed = {}

last_remote == authed \cap Remote = {}

drop_remote_count(c) ==
    /\ Goto(c, "drop_count", IF last_remote THEN "drop_paper" ELSE "wl_count")
    /\ UNCHANGED <<authed, count, remote, wakeVars, wallVars>>

(* The wallpaper comes back when the remover is dropped. *)
drop_wallpaper(c) ==
    /\ Goto(c, "drop_paper", "drop_reset")
    /\ wallpaper' = FALSE
    /\ UNCHANGED <<authed, count, remote, wakeVars, changed, resolution, changing, lost>>

(* reset_resolutions: under the read lock every recorded display gets its  *)
(* resolution back, unless the operating system refuses; under the write   *)
(* lock, taken afterwards, the records are cleared.                        *)
reset_resolutions(c) ==
    /\ Goto(c, "drop_reset", "drop_clear")
    /\ \E failed \in SUBSET Screens :
          resolution' = [s \in Screens |->
                          IF changed[s] # NoRecord /\ s \notin failed
                          THEN changed[s] ELSE resolution[s]]
    /\ UNCHANGED <<authed, count, remote, wakeVars, wallpaper, changed, changing, lost>>

clear_resolutions(c) ==
    /\ Goto(c, "drop_clear", "wl_count")
    /\ changed' = [s \in Screens |-> NoRecord]
    /\ lost' = (\/ lost
                \/ \E s \in Screens : changed[s] # NoRecord /\ resolution[s] # changed[s]
                \/ \E d \in Conns : changing[d] # NoChange)
    /\ UNCHANGED <<authed, count, remote, wakeVars, wallpaper, resolution, changing>>

drop(c) ==
    \/ retain(c) \/ drop_remote_count(c)
    \/ drop_wallpaper(c) \/ reset_resolutions(c) \/ clear_resolutions(c)
    \/ read_conn_count(c, "wl_count", "wl_remote")
    \/ read_remote_count(c, "wl_remote", "wl_send")
    \/ send_counts(c, "wl_send", "done")

-----------------------------------------------------------------------------
(* start_wakelock_thread: without connections the lock is dropped; with    *)
(* them it is taken, or kept and told whether to keep the display on.      *)

(* WakeLock::new.  On Linux it always holds the display, on Android it is  *)
(* a partial lock that never does; where the system refuses, the object is *)
(* there without a handle and nothing is reported.                         *)
get_wakelock(display) ==
    \/ /\ wakelock' = IF display /\ platform # "android" THEN "display" ELSE "system"
       /\ refused' = FALSE
    \/ /\ platform # "windows"
       /\ wakelock' = "empty"
       /\ refused' = TRUE

(* WakeLock::set_display, which only Windows and macOS have; it fails for  *)
(* an object without a handle, and an error is logged and no more.         *)
Settable == platform \in {"windows", "macos"}

set_display(display) ==
    \/ /\ wakelock # "empty"
       /\ wakelock' = IF display THEN "display" ELSE "system"
       /\ refused' = FALSE
    \/ /\ platform = "macos"
       /\ refused' = TRUE
       /\ UNCHANGED wakelock

drop_wakelock(m) ==
    /\ m[1] = 0
    /\ wakelock' = "none"
    /\ refused' = FALSE
    /\ UNCHANGED last_display

new_wakelock(m) ==
    /\ m[1] # 0 /\ wakelock = "none"
    /\ last_display' = (m[2] # 0 \/ platform = "linux")
    /\ get_wakelock(last_display')

(* Deviation: what a kept lock was last told is not noted. *)
keep_wakelock_unnoted(m) ==
    /\ m[1] # 0 /\ wakelock # "none"
    /\ UNCHANGED last_display
    /\ IF Settable /\ (m[2] # 0) # last_display
       THEN set_display(m[2] # 0) ELSE UNCHANGED <<wakelock, refused>>

(* What was last wished for is noted whether it was granted or not. *)
keep_wakelock(m) ==
    /\ m[1] # 0 /\ wakelock # "none"
    /\ last_display' = (m[2] # 0)
    /\ IF Settable /\ last_display' # last_display
       THEN set_display(last_display') ELSE UNCHANGED <<wakelock, refused>>

wakelock_thread ==
    /\ channel # <<>>
    /\ channel' = Tail(channel)
    /\ LET m == Head(channel)
       IN  drop_wakelock(m) \/ new_wakelock(m) \/ keep_wakelock(m)
    /\ UNCHANGED <<authed, pc, count, remote, platform, stale, wallVars>>

Next ==
    \/ \E c \in Conns : new(c) \/ drop(c)
    \/ \E c \in Conns : set_last_changed_resolution(c) \/ change_resolution(c)
    \/ \E c \in Remote, s \in Screens, r \in Resolutions : try_get_displays(c, s, r)
    \/ wakelock_thread

Spec == Init /\ [][Next]_vars

-----------------------------------------------------------------------------
(* Nobody is in the middle of logging in or closing. *)
Quiet == \A c \in Conns : pc[c] \in {"out", "in", "done"}

(* However logins and closes overlap, when the last remote connection has  *)
(* gone the wallpaper is back.                                             *)
WallpaperRestored == (Quiet /\ authed \cap Remote = {}) => ~wallpaper

(* What makes it so.  A connection is registered exactly from push to      *)
(* retain, and while the wallpaper is removed there is a remote connection *)
(* or one that is closing and has yet to put it back.                      *)
WallpaperInv ==
    /\ TypeOK
    /\ authed = {c \in Conns : pc[c] \in
                   {"new_count", "new_remote", "new_send", "new_paper", "in"}}
    /\ \A c \in Conns : pc[c] = "new_paper" => c \in Remote
    /\ wallpaper => \/ authed \cap Remote # {}
                    \/ \E c \in Conns : pc[c] \in {"drop_count", "drop_paper"}

(* When all is quiet and the thread has caught up, a wake lock is held     *)
(* exactly if somebody is authorized, and it is the one for them: where it *)
(* can be changed it keeps the display on exactly for remote connections,  *)
(* on Linux always, on Android never.  Excepted are a last message that    *)
(* another login or close overtook between count and send, and, for the    *)
(* display, a last wish the system refused.                                *)
Wanted == CASE platform = "linux" -> "display"
            [] platform = "android" -> "system"
            [] OTHER -> IF authed \cap Remote # {} THEN "display" ELSE "system"

WakeLockIsRight ==
    (Quiet /\ channel = <<>> /\ ~stale) =>
        /\ wakelock = "none" <=> authed = {}
        /\ (authed # {} /\ ~refused) => wakelock = Wanted

(* What makes it so.  Whoever has changed the registry has yet to send its *)
(* counts; when nobody has, and the last message was not overtaken, it is  *)
(* right, whether the thread has read it or not.                           *)
Counts == <<Cardinality(authed), Cardinality(authed \cap Remote)>>

Reports(c) == pc[c] \notin {"out", "new_paper", "in", "done"}

(* The thread has done what message m asks for. *)
Follows(m) ==
    /\ wakelock = "none" <=> m[1] = 0
    /\ (m[1] # 0 /\ Settable) => (last_display <=> m[2] # 0)

(* A lock that was granted is the one the thread believes in. *)
Granted ==
    /\ wakelock = "empty" => refused
    /\ platform = "linux" => wakelock # "system"
    /\ platform = "android" => wakelock # "display"
    /\ (Settable /\ wakelock # "none" /\ ~refused) => (wakelock = "display" <=> last_display)

WakeInv ==
    /\ TypeOK
    /\ Granted
    /\ channel \in Seq(Nat \X Nat)
    /\ (~stale /\ \A c \in Conns : ~Reports(c)) =>
          IF channel = <<>> THEN Follows(Counts)
                            ELSE channel[Len(channel)] = Counts

(* As long as no needed record has been cleared, the original resolution   *)
(* of every changed display is on record, whoever changes it how often.    *)
OriginalIsOnRecord ==
    ~lost => \A s \in Screens :
                /\ resolution[s] # Original => changed[s] # NoRecord
                /\ changed[s] # NoRecord => changed[s] = Original

(* What makes it so: a change under way that saw another resolution than   *)
(* the original, or that has been recorded, finds the record in place.     *)
ResolutionInv ==
    /\ TypeOK
    /\ OriginalIsOnRecord
    /\ ~lost => \A c \in Conns :
                    /\ changing[c] # NoChange
                    /\ changing[c].seen # Original \/ changing[c].recorded
                    => changed[changing[c].screen] # NoRecord
=============================================================================
