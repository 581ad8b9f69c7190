---------------------------- MODULE PrivacyMode ----------------------------
(***************************************************************************)
(* Privacy mode: while it is on, the host's screen is covered and its      *)
(* input hooked, on behalf of one connection.  PRIVACY_MODE is one         *)
(* implementation behind a mutex (src/src/privacy_mode.rs); connections    *)
(* turn it on and off (src/src/server/connection.rs), the host's user      *)
(* turns it off by a key or replaces the implementation, the video thread  *)
(* tells the others to leave, and the process may end at any moment.  A    *)
(* step is one locked section, except that turning on by virtual displays  *)
(* is several: the machine is changed and the way back stored in between.  *)
(***************************************************************************)
EXTENDS Integers, Sequences, FiniteSets

CONSTANTS
    Conns,          \* connection ids, each used once
    None,           \* INVALID_PRIVACY_MODE_CONN_ID, and no key
    MaxRequests,    \* bound: requests of the clients, to turn on or off
    MaxSwitches     \* bound: changes of the options by the settings

Topmost == "privacy_mode_impl_mag"
VirtualDisplay == "privacy_mode_impl_virtual_display"
Impls == {Topmost, VirtualDisplay}

(* The values of PRIVACY_MODE and of the registry; the calls of            *)
(* turn_on_privacy_sync, what they return, and where the one that holds    *)
(* the mutex can be.                                                       *)
Modes == [impl : Impls, owner : Conns \cup {None}, covered : SUBSET Impls]
Registries == [changed : BOOLEAN, recovery : BOOLEAN]
Calls == [conn : Conns, key : Impls, n : Nat]
Results == {"true", "false", "err"}
TurnOns == [call : Calls, at : {"start", "store"}]

ASSUME PrivacyAssumption ==
    /\ MaxRequests \in Nat /\ MaxSwitches \in Nat
    /\ None \notin Conns \cup Impls \cup Results \cup Nat \cup TurnOns

VARIABLES
    mode,       \* PRIVACY_MODE: its key, conn_id, and the covers in force
    hook,       \* the thread of win_input and CUR_HOOK_THREAD_ID
    registry,   \* Recent connectivity, and the option reg_recovery
    turning,    \* the call of turn_on_privacy_sync that holds the mutex
    calls,      \* calls of turn_on_privacy_sync that wait for it
    pc,         \* where each connection's task is
    local,      \* what its handler remembers
    result,     \* the result its handler waits for
    authed,     \* AUTHED_CONNS
    shown,      \* what each client shows once it has read all it was sent
    cm,         \* OffByPeer in the connection manager's channels
    seen,       \* privacy_mode_id of the video thread
    replacing,  \* changes of the options that are to be stored
    budget,     \* what is left of the bounds
    untold,     \* history: owners whose mode was ended without a word
    outlived,   \* history: connections that did not wait for their thread,
                \* or could not turn the mode off at their end
    left        \* history: what was left behind for good

machine == <<mode, hook, registry>>
taskVars == <<pc, local, result, authed>>
messages == <<shown, cm>>
history == <<untold, outlived, left>>
vars == <<machine, turning, calls, taskVars, messages, seen, replacing, budget, history>>

Init ==
    /\ mode \in [impl : Impls, owner : {None}, covered : {{}}]
    /\ hook = "none"
    /\ registry = [changed |-> FALSE, recovery |-> FALSE]
    /\ turning = None
    /\ calls = {}
    /\ pc = [c \in Conns |-> "new"]
    /\ local = [c \in Conns |-> None]
    /\ result = [c \in Conns |-> None]
    /\ authed = {}
    /\ shown = [c \in Conns |-> "off"]
    /\ cm = [c \in Conns |-> 0]
    /\ seen = None
    /\ replacing = 0
    /\ budget = [requests |-> MaxRequests, switches |-> MaxSwitches]
    /\ untold = {} /\ outlived = {} /\ left = {}

Free == turning = None      \* the mutex can be taken
On == mode.owner # None     \* is_in_privacy_mode

Goes(c, from, to) == pc[c] = from /\ pc' = [pc EXCEPT ![c] = to]

(* handle_back_msg_privacy_mode: the client shows what it was told last,   *)
(* and leaves when somebody else has privacy mode.  It reads in the order  *)
(* of sending and nothing here waits for it, so it is taken to have read.  *)
handle_back_msg_privacy_mode(was, m) ==
    CASE was = "left" -> "left"
      [] m = "PrvOnByOther" -> "left"
      [] m = "PrvOnSucceeded" -> "on"
      [] m = "PrvOffFailed" -> was
      [] OTHER -> "off"

Tells(c, m) == shown' = [shown EXCEPT ![c] = handle_back_msg_privacy_mode(@, m)]

-----------------------------------------------------------------------------
(* The implementations.  Definitions named after a deviation are the ones  *)
(* after them with a plausible mistake.                                    *)

(* check_on_conn_id: may c turn it on, or has it done so already? *)
Occupied(c) == mode.owner \notin {None, c}

check_off_anybody(c) == TRUE

check_off_conn_id(c) == mode.owner = None \/ c = None \/ c = mode.owner

(* restore_reg_connectivity: the entry of before, if one was stored.  When *)
(* that cannot be done, it is forgotten all the same.                      *)
restore_reg_connectivity(done) ==
    IF registry.recovery
    THEN [changed |-> registry.changed /\ ~done, recovery |-> FALSE] ELSE registry

(* What is put back, and what of it is lost: nobody looks whether the      *)
(* displays come back or the registry does.  A window is simply hidden.    *)
restore(key, lost) ==
    /\ mode' = [impl |-> key, owner |-> None,
                covered |-> IF "cover" \in lost THEN mode.covered
                            ELSE mode.covered \ {mode.impl}]
    /\ registry' = IF mode.impl = Topmost THEN registry
                   ELSE restore_reg_connectivity("registry" \notin lost)

CanBeLost ==
    IF mode.impl = Topmost THEN {}
    ELSE {loss \in {"cover", "registry"} :
            \/ loss = "cover" /\ VirtualDisplay \in mode.covered
            \/ loss = "registry" /\ registry.changed /\ registry.recovery}

unhook == hook' = IF hook = "on" THEN "leaving" ELSE hook

(* turn_off_privacy of either implementation.  Asking the hook's thread to *)
(* leave may fail, and then nothing is done.                               *)
turn_off(c, ok, lost) ==
    \/ ok /\ check_off_conn_id(c) /\ unhook /\ restore(mode.impl, lost)
    \/ ~ok /\ lost = {} /\ (check_off_conn_id(c) => hook # "none") /\ UNCHANGED machine

turn_off_privacy(c, ok) ==
    \E lost \in SUBSET CanBeLost : turn_off(c, ok, lost) /\ left' = left \cup lost

(* The same for somebody who does not tell the owner. *)
turn_off_silently(c) ==
    \E ok \in BOOLEAN :
        /\ turn_off_privacy(c, ok)
        /\ untold' = IF ok /\ On THEN untold \cup {mode.owner} ELSE untold
        /\ UNCHANGED outlived

(* The implementation is replaced by a new one.  The old one is turned off *)
(* by clear or by its destructor; if it cannot be, nobody is left to.      *)
replaced_as_is(key) ==
    /\ mode' = [mode EXCEPT !.impl = key, !.owner = None]
    /\ UNCHANGED <<hook, registry, left>>

replaced(key) ==
    \/ /\ unhook
       /\ \E lost \in SUBSET CanBeLost : restore(key, lost) /\ left' = left \cup lost
    \/ /\ hook # "none"
       /\ mode' = [mode EXCEPT !.impl = key, !.owner = None]
       /\ left' = IF mode.covered # {} THEN left \cup {"cover", "registry"} ELSE left
       /\ UNCHANGED <<hook, registry>>

-----------------------------------------------------------------------------
(* turn_on_privacy_sync, called by the connection's task or by a thread.   *)

(* It returns r.  The caller may have stopped waiting for it. *)
Returns(call, r) ==
    result' = IF pc[call.conn] \in {"sync", "async"} /\ local[call.conn] = call.n
              THEN [result EXCEPT ![call.conn] = r] ELSE result

turn_on_privacy_sync(call) ==
    /\ Free
    /\ calls' = calls \ {call}
    /\ \/ /\ Occupied(call.conn)
          /\ Returns(call, "err")
          /\ UNCHANGED <<machine, turning, left>>
       \/ /\ mode.owner = call.conn /\ mode.impl = call.key
          /\ Returns(call, "true")
          /\ UNCHANGED <<machine, turning, left>>
       \/ /\ ~On /\ mode.impl = call.key
          /\ turning' = [call |-> call, at |-> "start"]
          /\ UNCHANGED <<machine, result, left>>
       \/ /\ ~Occupied(call.conn) /\ mode.impl # call.key
          /\ replaced(call.key)
          /\ turning' = [call |-> call, at |-> "start"]
          /\ UNCHANGED result
    /\ UNCHANGED <<pc, local, authed, messages, seen, replacing, budget, untold, outlived>>

OwnedBy(c) == [mode EXCEPT !.owner = c, !.covered = @ \cup {mode.impl}]

Ends(r) ==
    /\ turning' = None
    /\ Returns(turning.call, r)
    /\ UNCHANGED <<calls, pc, local, authed, messages, seen, replacing, budget, outlived>>

(* win_topmost_window.  hook fails while the thread of an earlier one has  *)
(* not left.                                                               *)
turn_on_topmost ==
    /\ ~Free /\ turning.at = "start" /\ mode.impl = Topmost
    /\ \/ /\ \E r \in {"false", "err"} : Ends(r)
          /\ UNCHANGED <<machine, untold, left>>
       \/ /\ hook = "none"
          /\ hook' = "on"
          /\ mode' = OwnedBy(turning.call.conn)
          /\ untold' = untold \ {turning.call.conn}
          /\ Ends("true")
          /\ UNCHANGED <<registry, left>>

(* win_virtual_display: nothing is done, or what was done is undone by the *)
(* guard, which turns off for nobody in particular.                        *)
turn_on_virtual_fails ==
    /\ ~Free /\ turning.at = "start" /\ mode.impl = VirtualDisplay
    /\ UNCHANGED <<machine, left>> \/ turn_off_privacy(None, TRUE)
    /\ Ends("err")
    /\ UNCHANGED untold

(* The displays are changed.  The registry may change with them. *)
commit_change_display ==
    /\ ~Free /\ turning.at = "start" /\ mode.impl = VirtualDisplay
    /\ turning' = [turning EXCEPT !.at = "store"]
    /\ mode' = [mode EXCEPT !.covered = @ \cup {VirtualDisplay}]
    /\ registry' \in {registry, [registry EXCEPT !.changed = TRUE]}
    /\ UNCHANGED <<hook, calls, taskVars, messages, seen, replacing, budget, history>>

(* Reading the registry again fails: the guard has nothing to restore it   *)
(* from, and may fail itself.                                              *)
turn_on_virtual_unfinished ==
    /\ ~Free /\ turning.at = "store"
    /\ \E ok \in BOOLEAN, lost \in SUBSET CanBeLost :
          /\ turn_off(None, ok, lost)
          /\ left' = left \cup lost \cup (IF ok THEN {} ELSE {"cover"})
                          \cup (IF registry.changed THEN {"registry"} ELSE {})
    /\ Ends("err")
    /\ UNCHANGED untold

store_nothing == [registry EXCEPT !.recovery = FALSE]

(* The way back is stored if there is one to go. *)
reg_recovery == [registry EXCEPT !.recovery = registry.changed]

turn_on_virtual ==
    /\ ~Free /\ turning.at = "store"
    /\ registry' = reg_recovery
    /\ mode' = OwnedBy(turning.call.conn)
    /\ hook' \in {hook, IF hook = "none" THEN "on" ELSE hook}
    /\ untold' = untold \ {turning.call.conn}
    /\ Ends("true")
    /\ UNCHANGED left

turn_on_impl ==
    \/ turn_on_topmost \/ turn_on_virtual_fails \/ commit_change_display
    \/ turn_on_virtual_unfinished \/ turn_on_virtual

-----------------------------------------------------------------------------
(* A connection.                                                           *)

onlyTask == <<hook, registry, turning, calls, seen, replacing, budget>>

(* A remote login is refused while privacy mode is on; whoever has passed  *)
(* that check logs in later.                                               *)
check_privacy_mode_on(c) ==
    /\ Free /\ ~On
    /\ Goes(c, "new", "login")
    /\ UNCHANGED <<mode, onlyTask, local, result, authed, messages, history>>

authorized(c) ==
    /\ Goes(c, "login", "idle")
    /\ authed' = authed \cup {c}
    /\ UNCHANGED <<mode, onlyTask, local, result, messages, history>>

(* turn_on_privacy.  First it looks whether the implementation of a mode   *)
(* that is on has just been replaced.                                      *)
turn_on_privacy(c) ==
    /\ Free /\ budget.requests > 0
    /\ Goes(c, "idle", IF On THEN "key" ELSE "ask")
    /\ budget' = [budget EXCEPT !.requests = @ - 1]
    /\ UNCHANGED <<machine, turning, calls, seen, replacing, local, result, authed, messages,
                   history>>

get_cur_impl_key(c) ==
    /\ Free
    /\ Goes(c, "key", "compare")
    /\ local' = [local EXCEPT ![c] = mode.impl]
    /\ UNCHANGED <<mode, onlyTask, result, authed, messages, history>>

is_current_privacy_mode_impl(c) ==
    /\ Free
    /\ Goes(c, "compare", "ask")
    /\ local' = [local EXCEPT ![c] = None]
    /\ IF mode.impl = local[c] THEN UNCHANGED shown ELSE Tells(c, "PrvOffSucceeded")
    /\ UNCHANGED <<mode, onlyTask, result, authed, cm, history>>

(* is_async_privacy_mode is asked of the present implementation, not of    *)
(* the one asked for.                                                      *)
is_async_privacy_mode(c) ==
    /\ Free
    /\ Goes(c, "ask", IF mode.impl = VirtualDisplay THEN "async" ELSE "sync")
    /\ local' = [local EXCEPT ![c] = budget.requests]
    /\ \E key \in Impls :
          calls' = calls \cup {[conn |-> c, key |-> key, n |-> budget.requests]}
    /\ UNCHANGED <<machine, turning, seen, replacing, budget, result, authed, messages, history>>

(* The five seconds are over before the thread. *)
timeout(c) ==
    /\ result[c] = None
    /\ Goes(c, "async", "failed")
    /\ local' = [local EXCEPT ![c] = None]
    /\ outlived' = outlived \cup {c}
    /\ UNCHANGED <<mode, onlyTask, result, authed, messages, untold, left>>

(* check_privacy_mode_err creates a capturer to see whether the magnifier  *)
(* works.                                                                  *)
turned_on(c) ==
    /\ \E from \in {"sync", "async"} :
          \/ result[c] = "err" /\ Goes(c, from, "failed") /\ UNCHANGED shown
          \/ result[c] = "false" /\ Goes(c, from, "idle") /\ Tells(c, "PrvOnFailed")
          \/ /\ result[c] = "true" /\ Free
             /\ \/ Goes(c, from, "idle") /\ Tells(c, "PrvOnSucceeded")
                \/ mode.impl = Topmost /\ Goes(c, from, "undo") /\ UNCHANGED shown
    /\ result' = [result EXCEPT ![c] = None]
    /\ local' = [local EXCEPT ![c] = None]
    /\ UNCHANGED <<mode, onlyTask, authed, cm, history>>

undo(c) ==
    /\ Free
    /\ Goes(c, "undo", "idle")
    /\ \E ok \in BOOLEAN : turn_off_privacy(c, ok)
    /\ Tells(c, "PrvOnFailed")
    /\ UNCHANGED <<turning, calls, seen, replacing, budget, local, result, authed, cm, untold,
                   outlived>>

(* The request has failed.  Whoever has privacy mode on loses it. *)
failed(c) ==
    /\ Free
    /\ IF On THEN Goes(c, "failed", "off_all") /\ UNCHANGED shown
             ELSE Goes(c, "failed", "idle") /\ Tells(c, "PrvOnFailed")
    /\ UNCHANGED <<mode, onlyTask, local, result, authed, cm, history>>

off_all(c) ==
    /\ Free
    /\ Goes(c, "off_all", "idle")
    /\ turn_off_silently(None)
    /\ Tells(c, "PrvOnFailed")
    /\ UNCHANGED <<turning, calls, seen, replacing, budget, local, result, authed, cm>>

turn_off_request(c) ==
    /\ Free /\ budget.requests > 0
    /\ Goes(c, "idle", "idle")
    /\ budget' = [budget EXCEPT !.requests = @ - 1]
    /\ \E ok \in BOOLEAN :
          /\ turn_off_privacy(c, ok)
          /\ Tells(c, IF ok THEN "PrvOffSucceeded" ELSE "PrvOffFailed")
    /\ UNCHANGED <<turning, calls, seen, replacing, local, result, authed, cm, untold, outlived>>

(* PrivacyModeState from the connection manager. *)
off_by_peer(c) ==
    /\ cm[c] > 0
    /\ Goes(c, "idle", "idle")
    /\ cm' = [cm EXCEPT ![c] = @ - 1]
    /\ Tells(c, "PrvOffByPeer")
    /\ UNCHANGED <<mode, onlyTask, local, result, authed, history>>

(* The loop ends. *)
loop_ends(c) ==
    /\ Goes(c, "idle", "closing")
    /\ UNCHANGED <<mode, onlyTask, local, result, authed, messages, history>>

closing_keeps(c) ==
    /\ Free
    /\ Goes(c, "closing", "drop")
    /\ UNCHANGED <<mode, onlyTask, local, result, authed, messages, history>>

get_privacy_mode_conn_id(c) ==
    /\ Free
    /\ Goes(c, "closing", IF mode.owner = c THEN "closing_off" ELSE "drop")
    /\ UNCHANGED <<mode, onlyTask, local, result, authed, messages, history>>

closing_off(c) ==
    /\ Free
    /\ Goes(c, "closing_off", "drop")
    /\ \E ok \in BOOLEAN :
          /\ turn_off_privacy(c, ok)
          /\ outlived' = IF ok THEN outlived ELSE outlived \cup {c}
    /\ UNCHANGED <<turning, calls, seen, replacing, budget, local, result, authed, messages,
                   untold>>

(* AuthedConnID::drop: with the last remote connection goes the mode.  *)
authed_drop(c) ==
    /\ Goes(c, "drop", IF authed = {c} THEN "reset_all" ELSE "gone")
    /\ authed' = authed \ {c}
    /\ UNCHANGED <<mode, onlyTask, local, result, messages, history>>

reset_all(c) ==
    /\ Free
    /\ Goes(c, "reset_all", "gone")
    /\ turn_off_silently(None)
    /\ UNCHANGED <<turning, calls, seen, replacing, budget, local, result, authed, messages>>

TaskStep(c) ==
    \/ get_cur_impl_key(c) \/ is_current_privacy_mode_impl(c)
    \/ is_async_privacy_mode(c) \/ timeout(c) \/ turned_on(c) \/ undo(c)
    \/ failed(c) \/ off_all(c) \/ off_by_peer(c) \/ get_privacy_mode_conn_id(c)
    \/ closing_off(c) \/ authed_drop(c) \/ reset_all(c)

-----------------------------------------------------------------------------
(* The host.                                                               *)

hook_thread_leaves ==
    /\ hook = "leaving"
    /\ hook' = "none"
    /\ UNCHANGED <<mode, registry, turning, calls, taskVars, messages, seen, replacing, budget,
                   history>>

(* Ctrl+P: the connection manager passes the news on to every connection,  *)
(* if it can be reached in time.                                           *)
ctrl_p ==
    /\ hook # "none" /\ Free
    /\ \E ok \in BOOLEAN :
          /\ turn_off_privacy(None, ok)
          /\ \/ /\ ok /\ On
                /\ cm' = [c \in Conns |-> IF c \in authed THEN cm[c] + 1 ELSE cm[c]]
                /\ UNCHANGED untold
             \/ /\ untold' = IF ok /\ On THEN untold \cup {mode.owner} ELSE untold
                /\ UNCHANGED cm
    /\ UNCHANGED <<turning, calls, taskVars, shown, seen, replacing, budget, outlived>>

(* switch: the options are changed in the settings, perhaps with another   *)
(* implementation, ...                                                     *)
switch(key) ==
    /\ Free /\ budget.switches > 0
    /\ budget' = [budget EXCEPT !.switches = @ - 1]
    /\ replacing' = replacing + 1
    /\ IF key = mode.impl THEN UNCHANGED <<machine, left>>
       ELSE IF On THEN replaced(key)
       ELSE mode' = [mode EXCEPT !.impl = key] /\ UNCHANGED <<hook, registry, left>>
    /\ untold' = IF On /\ key # mode.impl THEN untold \cup {mode.owner} ELSE untold
    /\ UNCHANGED <<turning, calls, taskVars, messages, seen, outlived>>

(* ... and then all are replaced by those the settings were shown at some  *)
(* time, with or without the way back.                                     *)
set_options ==
    /\ replacing > 0
    /\ replacing' = replacing - 1
    /\ \E shown_recovery \in BOOLEAN :
          /\ registry' = [registry EXCEPT !.recovery = shown_recovery]
          /\ left' = IF shown_recovery # registry.recovery THEN left \cup {"registry"} ELSE left
    /\ UNCHANGED <<mode, hook, turning, calls, taskVars, messages, seen, budget, untold,
                   outlived>>

(* The video thread reads the owner when it starts or switches, ... *)
get_capturer ==
    /\ Free
    /\ seen' = mode.owner
    /\ UNCHANGED <<machine, turning, calls, taskVars, messages, replacing, budget, history>>

(* ... and compares at every frame. *)
check_privacy_mode_changed ==
    /\ Free /\ seen # mode.owner
    /\ seen' = mode.owner
    /\ shown' = [c \in Conns |->
          IF On /\ c \in authed \ {mode.owner}
          THEN handle_back_msg_privacy_mode(shown[c], "PrvOnByOther") ELSE shown[c]]
    /\ UNCHANGED <<machine, turning, calls, taskVars, cm, replacing, budget, history>>

(* The process ends, and the next one puts the registry right and unplugs  *)
(* the virtual displays, if it finds an entry to do so.  Nobody of before  *)
(* is connected to it.                                                     *)
process_exits ==
    /\ \E c \in Conns : pc[c] # "new"
    /\ \E key \in Impls, plugged_out, done \in BOOLEAN :
          /\ mode' = [impl |-> key, owner |-> None,
                      covered |-> IF registry.recovery /\ plugged_out
                                  THEN mode.covered \ {VirtualDisplay} ELSE mode.covered]
          /\ registry' = restore_reg_connectivity(done)
          /\ left' = left
                \cup (IF mode'.covered # {} THEN {"cover"} ELSE {})
                \cup (IF registry.changed /\ (~Free \/ ~done) THEN {"registry"} ELSE {})
    /\ hook' = "none"
    /\ turning' = None /\ calls' = {}
    /\ pc' = [c \in Conns |-> "gone"]
    /\ local' = [c \in Conns |-> None]
    /\ result' = [c \in Conns |-> None]
    /\ authed' = {}
    /\ shown' = [c \in Conns |-> "left"]
    /\ cm' = [c \in Conns |-> 0]
    /\ seen' = None /\ replacing' = 0
    /\ budget' = [requests |-> 0, switches |-> 0]
    /\ untold' = {} /\ outlived' = {}

Next ==
    \/ turn_on_impl
    \/ \E call \in calls : turn_on_privacy_sync(call)
    \/ \E c \in Conns :
          \/ check_privacy_mode_on(c) \/ authorized(c) \/ turn_on_privacy(c)
          \/ turn_off_request(c) \/ loop_ends(c) \/ TaskStep(c)
    \/ hook_thread_leaves \/ ctrl_p \/ get_capturer \/ check_privacy_mode_changed
    \/ set_options \/ process_exits
    \/ \E key \in Impls : switch(key)

Spec == Init /\ [][Next]_vars

-----------------------------------------------------------------------------
Steps == {"new", "login", "idle", "key", "compare", "ask", "sync", "async", "failed",
          "undo", "off_all", "closing", "closing_off", "drop", "reset_all", "gone"}

PrivacyTypeOK ==
    /\ mode \in Modes
    /\ hook \in {"none", "on", "leaving"}
    /\ registry \in Registries
    /\ turning \in TurnOns \cup {None}
    /\ calls \subseteq Calls
    /\ pc \in [Conns -> Steps]
    /\ DOMAIN local = Conns
    /\ result \in [Conns -> Results \cup {None}]
    /\ authed \subseteq Conns
    /\ shown \in [Conns -> {"on", "off", "left"}]
    /\ cm \in [Conns -> Nat]
    /\ seen \in Conns \cup {None}
    /\ replacing \in Nat
    /\ budget \in [requests : Nat, switches : Nat]
    /\ untold \subseteq Conns /\ outlived \subseteq Conns
    /\ left \subseteq {"cover", "registry"}

(* Privacy mode does not outlast the connection it was turned on for:      *)
(* whoever is past the end of its loop does not own it, unless it had      *)
(* given up waiting for the thread that turns it on, or the hook could not *)
(* be told to leave.                                                       *)
OwnerIsConnected ==
    \A c \in Conns :
        mode.owner = c => pc[c] \notin {"drop", "reset_all", "gone"} \/ c \in outlived

(* A client that shows privacy mode as on, with no news on the way to it,  *)
(* does have it on, unless it was ended without a word: by the failed      *)
(* request of somebody else, by the settings, by a key while the           *)
(* connection manager could not be reached, or by a thread of its own that *)
(* it had stopped waiting for.                                             *)
BelievedMeansOn ==
    \A c \in Conns :
        (shown[c] = "on" /\ pc[c] = "idle" /\ cm[c] = 0) =>
            mode.owner = c \/ c \in untold \cup outlived

(* The screen is covered exactly while somebody owns the mode, and by the  *)
(* implementation in charge, whatever fails half way and whoever replaced  *)
(* the implementation.  Left out is what nobody undoes: the hook could not *)
(* be told to leave when the implementation was replaced or the guard ran, *)
(* the displays did not come back, or the process ended without the way    *)
(* back and the next one unplugs nothing.                                  *)
CoverGoesWithOwner ==
    (Free /\ "cover" \notin left) => mode.covered = (IF On THEN {mode.impl} ELSE {})

(* Whenever the mutex is free, a registry that was changed can be put      *)
(* right, by turning the mode off or by the next start of the process.     *)
(* Left out is what cannot: reading it again failed, the process ended     *)
(* before the way back was stored, putting it right failed and the way     *)
(* back was forgotten, the hook could not be told to leave when the        *)
(* implementation was replaced, or the settings replaced the options.      *)
WayBackIsStored ==
    (Free /\ "registry" \notin left) =>
        /\ registry.changed => registry.recovery
        /\ registry.recovery => On /\ mode.impl = VirtualDisplay

-----------------------------------------------------------------------------
(* What makes these so.  While a call holds the mutex nobody owns the      *)
(* mode; before it changes the displays nothing is covered or changed, and *)
(* then exactly its own cover is there and no way back is stored.          *)
MachineInv ==
    /\ PrivacyTypeOK
    /\ On => mode.impl \in mode.covered
    /\ CoverGoesWithOwner
    /\ WayBackIsStored
    /\ ~Free =>
          /\ ~On
          /\ turning.at = "store" => mode.impl = VirtualDisplay
          /\ "cover" \notin left =>
                mode.covered = IF turning.at = "store" THEN {VirtualDisplay} ELSE {}
          /\ "registry" \notin left =>
                ~registry.recovery /\ (registry.changed => turning.at = "store")

(* Whoever has a call of turn_on_privacy_sync under way waits for its      *)
(* result, and for that one only, or has given up waiting.                 *)
Waits(c) == pc[c] \in {"sync", "async"}

Pending == calls \cup {t.call : t \in {turning} \ {None}}

AwaitsResult(call) ==
    Waits(call.conn) /\ local[call.conn] = call.n /\ result[call.conn] = None

CallInv ==
    /\ PrivacyTypeOK
    /\ \A c \in Conns : result[c] # None => Waits(c)
    /\ ~Free => turning.call \notin calls
    /\ \A call \in Pending : call.conn \in outlived \/ AwaitsResult(call)
    /\ \A call, other \in Pending :
          call.conn = other.conn => call = other \/ call.conn \in outlived

(* A connection is registered from its login until it is dropped. *)
AuthedInv ==
    authed = {c \in Conns : pc[c] \notin {"new", "login", "reset_all", "gone"}}

(* Whoever has reason to show the mode as on: it has it, or news of its    *)
(* end is on the way, or its end is one of those nobody tells it.          *)
MayBelieve(c) == mode.owner = c \/ cm[c] > 0 \/ c \in untold \cup outlived

(* From its request to the answer a client may show what is no longer so,  *)
(* but not once a call for it has returned "true".                         *)
Belief(c) ==
    /\ (shown[c] = "on" /\ pc[c] \in {"idle", "key", "compare", "ask", "closing", "closing_off"})
          => MayBelieve(c)
    /\ pc[c] \in {"new", "login"} => shown[c] # "on"
    /\ result[c] = "true" => MayBelieve(c)

OwnerInv ==
    /\ MachineInv
    /\ CallInv
    /\ AuthedInv
    /\ OwnerIsConnected
    /\ \A c \in Conns : Belief(c)
=============================================================================
