------------------------- MODULE PrivacyMode_proofs -------------------------
(***************************************************************************)
(* For any number of connections, requests and changes of the settings,    *)
(* and with the process ending at any moment: privacy mode does not        *)
(* outlast its connection, clients know what they show, the cover goes     *)
(* with the owner and the way back is stored.                              *)
(***************************************************************************)
EXTENDS PrivacyMode, TLAPS

-----------------------------------------------------------------------------
(* Types, one helper at a time.                                            *)

(* What is put back, by whom and for whom ever. *)
LEMMA RestoreType ==
    ASSUME PrivacyTypeOK, NEW key \in Impls, NEW lost, restore(key, lost)
    PROVE  /\ mode' \in Modes /\ registry' \in Registries
           /\ mode'.impl = key /\ mode'.owner = None
<1>1. PICK covered \in {mode.covered, mode.covered \ {mode.impl}} :
        mode' = [impl |-> key, owner |-> None, covered |-> covered]
    BY DEF restore
<1>2. covered \subseteq Impls
    BY <1>1 DEF PrivacyTypeOK, Modes
<1>3. \A done \in BOOLEAN : restore_reg_connectivity(done) \in Registries
    BY DEF PrivacyTypeOK, restore_reg_connectivity, Registries
<1>4. registry' \in Registries
    <2>1. ("registry" \notin lost) \in BOOLEAN
        OBVIOUS
    <2>2. restore_reg_connectivity("registry" \notin lost) \in Registries
        BY <1>3, <2>1, Zenon
    <2>3. registry \in Registries
        BY DEF PrivacyTypeOK
    <2>. QED  BY <2>2, <2>3, Zenon DEF restore
<1>. QED  BY <1>1, <1>2, <1>4 DEF Modes

(* What can be lost is one of two things. *)
LEMMA LostType ==
    ASSUME PrivacyTypeOK, NEW lost \in SUBSET CanBeLost, left' = left \cup lost
    PROVE  left' \subseteq {"cover", "registry"}
    BY DEF PrivacyTypeOK, CanBeLost

(* Turning off leaves proper values behind, whether it fails or not. *)
LEMMA TurnsOffType ==
    ASSUME PrivacyTypeOK, NEW c, NEW ok, NEW lost, turn_off(c, ok, lost)
    PROVE  mode' \in Modes /\ hook' \in {"none", "on", "leaving"} /\ registry' \in Registries
<1>1. mode.impl \in Impls
    BY DEF PrivacyTypeOK, Modes
<1>2. CASE unhook /\ restore(mode.impl, lost)
    BY <1>1, <1>2, RestoreType DEF PrivacyTypeOK, unhook
<1>3. CASE UNCHANGED machine
    BY <1>3 DEF PrivacyTypeOK, machine
<1>. QED
    BY <1>2, <1>3 DEF turn_off

(* The same with what is lost put on record. *)
LEMMA TurnOffType ==
    ASSUME PrivacyTypeOK, NEW c, NEW ok, turn_off_privacy(c, ok)
    PROVE  /\ mode' \in Modes /\ hook' \in {"none", "on", "leaving"} /\ registry' \in Registries
           /\ left' \subseteq {"cover", "registry"}
    BY TurnsOffType, LostType DEF turn_off_privacy

(* So does replacing the implementation. *)
LEMMA ReplacedType ==
    ASSUME PrivacyTypeOK, NEW key \in Impls, replaced(key)
    PROVE  /\ mode' \in Modes /\ hook' \in {"none", "on", "leaving"} /\ registry' \in Registries
           /\ left' \subseteq {"cover", "registry"}
           /\ mode'.impl = key /\ mode'.owner = None
<1>1. CASE /\ unhook
           /\ \E lost \in SUBSET CanBeLost : restore(key, lost) /\ left' = left \cup lost
    BY <1>1, RestoreType, LostType DEF PrivacyTypeOK, unhook
<1>2. CASE /\ mode' = [mode EXCEPT !.impl = key, !.owner = None]
           /\ left' = (IF mode.covered # {} THEN left \cup {"cover", "registry"} ELSE left)
           /\ UNCHANGED <<hook, registry>>
    <2>1. mode' \in Modes /\ mode'.impl = key /\ mode'.owner = None
        BY <1>2 DEF PrivacyTypeOK, Modes
    <2>2. left' \subseteq {"cover", "registry"}
        BY <1>2 DEF PrivacyTypeOK
    <2>. QED  BY <1>2, <2>1, <2>2 DEF PrivacyTypeOK
<1>. QED
    BY <1>1, <1>2 DEF replaced

(* A client shows one of three things. *)
LEMMA TellsType ==
    ASSUME PrivacyTypeOK, NEW c \in Conns, NEW m, Tells(c, m)
    PROVE  shown' \in [Conns -> {"on", "off", "left"}]
<1>1. handle_back_msg_privacy_mode(shown[c], m) \in {"on", "off", "left"}
    BY DEF PrivacyTypeOK, handle_back_msg_privacy_mode
<1>. QED  BY <1>1 DEF PrivacyTypeOK, Tells

(* What a call returns is a result. *)
LEMMA ReturnsType ==
    ASSUME PrivacyTypeOK, NEW call \in Calls, NEW r \in Results, Returns(call, r)
    PROVE  result' \in [Conns -> Results \cup {None}]
    BY DEF PrivacyTypeOK, Returns, Calls

(* A call in progress was made by a connection, for an implementation. *)
LEMMA TurningType ==
    ASSUME PrivacyTypeOK, ~Free
    PROVE  turning \in TurnOns /\ turning.call \in Calls /\ turning.call.conn \in Conns
    BY DEF PrivacyTypeOK, Free, TurnOns, Calls

(* What a step of turn_on_privacy_sync or of the implementation does. *)
LEMMA TurnOnType ==
    ASSUME PrivacyTypeOK, turn_on_impl
    PROVE  PrivacyTypeOK'
<1>0. ~Free
    BY DEF turn_on_impl, turn_on_topmost, turn_on_virtual_fails, commit_change_display,
           turn_on_virtual_unfinished, turn_on_virtual
<1>1. /\ turning \in TurnOns /\ turning.call \in Calls /\ turning.call.conn \in Conns
    BY <1>0, TurningType
<1>2. ASSUME NEW r \in Results, Ends(r)
      PROVE  /\ turning' \in TurnOns \cup {None}
             /\ result' \in [Conns -> Results \cup {None}]
             /\ UNCHANGED <<calls, pc, local, authed, shown, cm, seen, replacing, budget, outlived>>
    BY <1>1, <1>2, ReturnsType DEF Ends, messages
<1>3. "true" \in Results /\ "false" \in Results /\ "err" \in Results
    BY DEF Results
<1>4. OwnedBy(turning.call.conn) \in Modes
    BY <1>1 DEF PrivacyTypeOK, OwnedBy, Modes
<1>5. CASE turn_on_topmost
    BY <1>1, <1>2, <1>3, <1>4, <1>5 DEF turn_on_topmost, PrivacyTypeOK, machine
<1>6. CASE turn_on_virtual_fails
    BY <1>2, <1>3, <1>6, TurnOffType DEF turn_on_virtual_fails, PrivacyTypeOK, machine
<1>7. CASE commit_change_display
    <2>1. mode' \in Modes
        BY <1>7 DEF commit_change_display, PrivacyTypeOK, Modes, Impls
    <2>2. registry' \in Registries
        BY <1>7 DEF commit_change_display, PrivacyTypeOK, Registries
    <2>3. turning' \in TurnOns
        BY <1>1, <1>7 DEF commit_change_display, TurnOns
    <2>. QED
        BY <1>7, <2>1, <2>2, <2>3
        DEF commit_change_display, PrivacyTypeOK, taskVars, messages, history
<1>8. CASE turn_on_virtual_unfinished
    <2>1. left' \subseteq {"cover", "registry"}
        BY <1>8 DEF turn_on_virtual_unfinished, PrivacyTypeOK, CanBeLost
    <2>. QED
        BY <1>2, <1>3, <1>8, <2>1, TurnsOffType DEF turn_on_virtual_unfinished, PrivacyTypeOK
<1>9. CASE turn_on_virtual
    <2>1. reg_recovery \in Registries
        BY DEF PrivacyTypeOK, reg_recovery, Registries
    <2>. QED
        BY <1>1, <1>2, <1>3, <1>4, <1>9, <2>1 DEF turn_on_virtual, PrivacyTypeOK
<1>. QED
    BY <1>5, <1>6, <1>7, <1>8, <1>9 DEF turn_on_impl

(* turn_on_privacy_sync keeps the types. *)
LEMMA SyncType ==
    ASSUME PrivacyTypeOK, NEW call \in calls, turn_on_privacy_sync(call)
    PROVE  PrivacyTypeOK'
<1>1. call \in Calls /\ call.key \in Impls
    BY DEF PrivacyTypeOK, Calls
<1>2. [call |-> call, at |-> "start"] \in TurnOns
    BY <1>1 DEF TurnOns
<1>3. result' \in [Conns -> Results \cup {None}]
    BY <1>1, ReturnsType DEF turn_on_privacy_sync, Results, PrivacyTypeOK
<1>4. /\ mode' \in Modes /\ hook' \in {"none", "on", "leaving"} /\ registry' \in Registries
      /\ left' \subseteq {"cover", "registry"}
    BY <1>1, ReplacedType DEF turn_on_privacy_sync, machine, PrivacyTypeOK
<1>5. turning' \in TurnOns \cup {None}
    BY <1>2 DEF turn_on_privacy_sync, PrivacyTypeOK
<1>. QED
    BY <1>3, <1>4, <1>5 DEF turn_on_privacy_sync, PrivacyTypeOK, messages

(* The steps of a connection that do not touch the machine. *)
LEMMA TaskType ==
    ASSUME PrivacyTypeOK, NEW c \in Conns,
           \/ check_privacy_mode_on(c) \/ authorized(c) \/ turn_on_privacy(c)
           \/ loop_ends(c) \/ get_cur_impl_key(c) \/ is_current_privacy_mode_impl(c)
           \/ is_async_privacy_mode(c) \/ timeout(c) \/ turned_on(c) \/ failed(c)
           \/ off_by_peer(c) \/ get_privacy_mode_conn_id(c) \/ authed_drop(c)
    PROVE  PrivacyTypeOK'
<1>. USE DEF PrivacyTypeOK, Goes, Steps, machine, onlyTask, messages, history
<1>1. CASE check_privacy_mode_on(c) \/ authorized(c) \/ loop_ends(c)
    BY <1>1 DEF check_privacy_mode_on, authorized, loop_ends
<1>2. CASE turn_on_privacy(c)
    <2>1. budget' \in [requests : Nat, switches : Nat]
        BY <1>2 DEF turn_on_privacy
    <2>. QED  BY <1>2, <2>1 DEF turn_on_privacy
<1>3. CASE get_cur_impl_key(c) \/ timeout(c)
    BY <1>3 DEF get_cur_impl_key, timeout
<1>4. CASE is_current_privacy_mode_impl(c)
    BY <1>4, TellsType DEF is_current_privacy_mode_impl
<1>5. CASE is_async_privacy_mode(c)
    <2>1. calls' \subseteq Calls
        BY <1>5 DEF is_async_privacy_mode, Calls
    <2>. QED  BY <1>5, <2>1 DEF is_async_privacy_mode
<1>6. CASE turned_on(c)
    <2>1. shown' \in [Conns -> {"on", "off", "left"}]
        BY <1>6, TellsType DEF turned_on
    <2>2. pc' \in [Conns -> Steps]
        BY <1>6 DEF turned_on
    <2>. QED  BY <1>6, <2>1, <2>2 DEF turned_on
<1>7. CASE failed(c)
    BY <1>7, TellsType DEF failed
<1>8. CASE off_by_peer(c)
    BY <1>8, TellsType DEF off_by_peer
<1>9. CASE get_privacy_mode_conn_id(c) \/ authed_drop(c)
    BY <1>9 DEF get_privacy_mode_conn_id, authed_drop
<1>. QED
    BY <1>1, <1>2, <1>3, <1>4, <1>5, <1>6, <1>7, <1>8, <1>9

(* Those that turn the mode off. *)
LEMMA TaskOffType ==
    ASSUME PrivacyTypeOK, NEW c \in Conns,
           undo(c) \/ off_all(c) \/ turn_off_request(c) \/ closing_off(c) \/ reset_all(c)
    PROVE  PrivacyTypeOK'
<1>. USE DEF PrivacyTypeOK, Goes, Steps, messages, history
<1>1. CASE undo(c)
    BY <1>1, TurnOffType, TellsType DEF undo
<1>2. ASSUME turn_off_silently(None)
      PROVE  /\ mode' \in Modes /\ hook' \in {"none", "on", "leaving"}
             /\ registry' \in Registries
             /\ untold' \subseteq Conns /\ outlived' = outlived
             /\ left' \subseteq {"cover", "registry"}
    BY <1>2, TurnOffType DEF turn_off_silently, On, Modes
<1>3. CASE off_all(c)
    BY <1>2, <1>3, TellsType DEF off_all
<1>4. CASE turn_off_request(c)
    <2>1. budget' \in [requests : Nat, switches : Nat]
        BY <1>4 DEF turn_off_request
    <2>. QED  BY <1>4, <2>1, TurnOffType, TellsType DEF turn_off_request
<1>5. CASE closing_off(c)
    BY <1>5, TurnOffType DEF closing_off
<1>6. CASE reset_all(c)
    BY <1>2, <1>6 DEF reset_all
<1>. QED  BY <1>1, <1>3, <1>4, <1>5, <1>6

(* The host's steps. *)
LEMMA HostType ==
    ASSUME PrivacyTypeOK,
           \/ hook_thread_leaves \/ ctrl_p \/ get_capturer \/ check_privacy_mode_changed
           \/ set_options \/ process_exits \/ \E key \in Impls : switch(key)
    PROVE  PrivacyTypeOK'
<1>. USE DEF PrivacyTypeOK, machine, taskVars, messages, history
<1>1. CASE hook_thread_leaves
    BY <1>1 DEF hook_thread_leaves
<1>2. CASE ctrl_p
    <2>1. /\ mode' \in Modes /\ hook' \in {"none", "on", "leaving"}
          /\ registry' \in Registries /\ left' \subseteq {"cover", "registry"}
        BY <1>2, TurnOffType DEF ctrl_p
    <2>2. cm' \in [Conns -> Nat]
        BY <1>2 DEF ctrl_p
    <2>3. untold' \subseteq Conns
        BY <1>2 DEF ctrl_p, On, Modes
    <2>. QED  BY <1>2, <2>1, <2>2, <2>3 DEF ctrl_p
<1>3. CASE get_capturer
    BY <1>3 DEF get_capturer, Modes
<1>4. CASE check_privacy_mode_changed
    <2>1. shown' \in [Conns -> {"on", "off", "left"}]
        BY <1>4 DEF check_privacy_mode_changed, handle_back_msg_privacy_mode
    <2>2. seen' \in Conns \cup {None}
        BY <1>4 DEF check_privacy_mode_changed, Modes
    <2>. QED  BY <1>4, <2>1, <2>2 DEF check_privacy_mode_changed
<1>5. CASE process_exits
    <2>1. PICK key \in Impls, plugged_out \in BOOLEAN, done \in BOOLEAN :
            /\ mode' = [impl |-> key, owner |-> None,
                        covered |-> IF registry.recovery /\ plugged_out
                                    THEN mode.covered \ {VirtualDisplay} ELSE mode.covered]
            /\ registry' = restore_reg_connectivity(done)
        BY <1>5 DEF process_exits
    <2>2. mode' \in Modes
        <3>1. (IF registry.recovery /\ plugged_out
               THEN mode.covered \ {VirtualDisplay} ELSE mode.covered) \in SUBSET Impls
            BY DEF Modes
        <3>. QED  BY <2>1, <3>1 DEF Modes
    <2>3. registry' \in Registries /\ left' \subseteq {"cover", "registry"}
        <3>1. registry' \in Registries
            BY <2>1 DEF restore_reg_connectivity, Registries
        <3>2. left' \subseteq {"cover", "registry"}
            BY <1>5 DEF process_exits
        <3>. QED  BY <3>1, <3>2
    <2>4. budget' \in [requests : Nat, switches : Nat]
        BY <1>5 DEF process_exits
    <2>. QED  BY <1>5, <2>1, <2>2, <2>3, <2>4 DEF process_exits, Steps
<1>6. ASSUME NEW key \in Impls, switch(key)
      PROVE  PrivacyTypeOK'
    <2>1. budget' \in [requests : Nat, switches : Nat]
        BY <1>6 DEF switch
    <2>2. untold' \subseteq Conns
        BY <1>6 DEF switch, On, Modes
    <2>3. replacing' \in Nat
        BY <1>6 DEF switch
    <2>4. /\ mode' \in Modes /\ hook' \in {"none", "on", "leaving"} /\ registry' \in Registries
          /\ left' \subseteq {"cover", "registry"}
        <3>1. [mode EXCEPT !.impl = key] \in Modes
            BY DEF Modes
        <3>. QED  BY <1>6, <3>1, ReplacedType DEF switch
    <2>. QED  BY <1>6, <2>1, <2>2, <2>3, <2>4 DEF switch
<1>7. CASE set_options
    <2>1. replacing' \in Nat
        BY <1>7 DEF set_options
    <2>2. registry' \in Registries /\ left' \subseteq {"cover", "registry"}
        BY <1>7 DEF set_options, Registries
    <2>. QED  BY <1>7, <2>1, <2>2 DEF set_options
<1>. QED  BY <1>1, <1>2, <1>3, <1>4, <1>5, <1>6, <1>7

(* Every step keeps the types. *)
LEMMA TypeStep ==
    ASSUME PrivacyTypeOK, [Next]_vars
    PROVE  PrivacyTypeOK'
<1>1. CASE UNCHANGED vars
    BY <1>1 DEF vars, machine, taskVars, messages, history, PrivacyTypeOK
<1>. QED
    BY <1>1, TurnOnType, SyncType, TaskType, TaskOffType, HostType DEF Next, TaskStep

-----------------------------------------------------------------------------
(* The covers and the registry.                                            *)

(* What is put back, field by field. *)
LEMMA RestoreEffect ==
    ASSUME PrivacyTypeOK, NEW key \in Impls, NEW lost \in SUBSET CanBeLost, restore(key, lost)
    PROVE  /\ mode'.impl = key /\ mode'.owner = None
           /\ "cover" \notin lost => mode'.covered = mode.covered \ {mode.impl}
           /\ mode.impl = Topmost \/ ~registry.recovery => registry' = registry
           /\ mode.impl = VirtualDisplay => ~registry'.recovery
           /\ mode.impl = VirtualDisplay /\ registry.recovery /\ "registry" \notin lost
                 => ~registry'.changed
<1>1. mode.impl \in {Topmost, VirtualDisplay} /\ Topmost # VirtualDisplay
    BY DEF PrivacyTypeOK, Modes, Impls, Topmost, VirtualDisplay
<1>2. /\ mode'.impl = key /\ mode'.owner = None
      /\ "cover" \notin lost => mode'.covered = mode.covered \ {mode.impl}
    BY DEF restore
<1>3. mode.impl = Topmost => registry' = registry
    BY DEF restore
<1>4. CASE mode.impl = VirtualDisplay
    <2>1. registry' = restore_reg_connectivity("registry" \notin lost)
        BY <1>1, <1>4, Zenon DEF restore
    <2>2. ~registry.recovery => registry' = registry
        BY <2>1, Zenon DEF restore_reg_connectivity
    <2>3. registry.recovery =>
            registry' = [changed |-> registry.changed /\ ~("registry" \notin lost),
                         recovery |-> FALSE]
        BY <2>1, Zenon DEF restore_reg_connectivity
    <2>4. ~registry'.recovery
        <3>1. CASE registry.recovery
            BY <2>3, <3>1
        <3>. QED  BY <2>2, <3>1
    <2>5. ASSUME registry.recovery, "registry" \notin lost
          PROVE  ~registry'.changed
        <3>1. [changed |-> registry.changed /\ ~("registry" \notin lost), recovery |-> FALSE].changed
                 = (registry.changed /\ ~("registry" \notin lost))
            BY Zenon
        <3>2. registry'.changed = (registry.changed /\ ~("registry" \notin lost))
            BY <2>3, <2>5, <3>1, Zenon
        <3>. QED  BY <2>5, <3>2, Zenon
    <2>. QED  BY <1>2, <1>4, <1>1, <2>2, <2>4, <2>5
<1>. QED  BY <1>1, <1>2, <1>3, <1>4

(* What turning off does, field by field. *)
LEMMA TurnsOffEffect ==
    ASSUME PrivacyTypeOK, NEW c, NEW ok, NEW lost \in SUBSET CanBeLost, turn_off(c, ok, lost)
    PROVE  \/ /\ ok
              /\ check_off_conn_id(c)
              /\ restore(mode.impl, lost) /\ mode.impl \in Impls
              /\ mode'.impl = mode.impl /\ mode'.owner = None
           \/ ~ok /\ lost = {} /\ UNCHANGED machine
<1>1. mode.impl \in Impls
    BY DEF PrivacyTypeOK, Modes
<1>2. ASSUME restore(mode.impl, lost)
      PROVE  mode'.impl = mode.impl /\ mode'.owner = None
    BY <1>1, <1>2, RestoreEffect
<1>. QED  BY <1>1, <1>2 DEF turn_off

(* The same of its use with what is lost put on record. *)
LEMMA TurnOffEffect ==
    ASSUME PrivacyTypeOK, NEW c, NEW ok, turn_off_privacy(c, ok)
    PROVE  \/ /\ ok
              /\ check_off_conn_id(c)
              /\ mode'.impl = mode.impl /\ mode'.owner = None
           \/ ~ok /\ UNCHANGED machine
    BY TurnsOffEffect DEF turn_off_privacy

(* Putting back leaves nothing covered and nothing changed but what is on  *)
(* record as lost: before it at most the cover of the owner is there.      *)
LEMMA RestoreMachine ==
    ASSUME MachineInv, Free, NEW key \in Impls, NEW lost \in SUBSET CanBeLost,
           restore(key, lost), left' = left \cup lost
    PROVE  /\ mode'.owner = None
           /\ "cover" \notin left' => mode'.covered = {}
           /\ "registry" \notin left' => ~registry'.changed /\ ~registry'.recovery
<1>. USE DEF MachineInv, CoverGoesWithOwner, WayBackIsStored, On, Free
<1>1. /\ mode'.owner = None
      /\ "cover" \notin lost => mode'.covered = mode.covered \ {mode.impl}
      /\ mode.impl = Topmost \/ ~registry.recovery => registry' = registry
      /\ mode.impl = VirtualDisplay => ~registry'.recovery
      /\ mode.impl = VirtualDisplay /\ registry.recovery /\ "registry" \notin lost
            => ~registry'.changed
    BY RestoreEffect
<1>2. "cover" \notin left' => mode'.covered = {}
    BY <1>1
<1>3. ASSUME "registry" \notin left'
      PROVE  ~registry'.changed /\ ~registry'.recovery
    <2>1. "registry" \notin left /\ "registry" \notin lost
        BY <1>3
    <2>2. CASE registry.recovery
        BY <1>1, <2>1, <2>2
    <2>3. CASE ~registry.recovery
        BY <1>1, <2>1, <2>3
    <2>. QED  BY <2>2, <2>3
<1>. QED  BY <1>1, <1>2, <1>3

(* Turning off under the mutex keeps the invariant. *)
LEMMA TurnOffMachine ==
    ASSUME MachineInv, PrivacyTypeOK', Free, turning' = turning,
           NEW c, NEW ok, turn_off_privacy(c, ok)
    PROVE  MachineInv'
<1>. USE DEF MachineInv, CoverGoesWithOwner, WayBackIsStored, On, Free
<1>1. PICK lost \in SUBSET CanBeLost : turn_off(c, ok, lost) /\ left' = left \cup lost
    BY DEF turn_off_privacy
<1>2. CASE lost = {} /\ UNCHANGED machine
    <2>1. left' = left
        BY <1>1, <1>2
    <2>. QED  BY <1>2, <2>1 DEF machine
<1>3. CASE restore(mode.impl, lost) /\ mode.impl \in Impls
    <2>1. /\ mode'.owner = None
          /\ "cover" \notin left' => mode'.covered = {}
          /\ "registry" \notin left' => ~registry'.changed /\ ~registry'.recovery
        BY <1>1, <1>3, RestoreMachine
    <2>. QED  BY <2>1
<1>. QED  BY <1>1, <1>2, <1>3, TurnsOffEffect

(* A new implementation starts with nothing covered and nothing changed,   *)
(* or what the old one left is on record as left behind.                   *)
LEMMA ReplacedMachine ==
    ASSUME MachineInv, Free, NEW key \in Impls, replaced(key)
    PROVE  /\ mode'.impl = key /\ mode'.owner = None
           /\ "cover" \notin left' => mode'.covered = {}
           /\ "registry" \notin left' => ~registry'.changed /\ ~registry'.recovery
<1>. USE DEF MachineInv, CoverGoesWithOwner, WayBackIsStored, On, Free
<1>0. mode'.impl = key /\ mode'.owner = None
    BY ReplacedType
<1>1. CASE \E lost \in SUBSET CanBeLost : restore(key, lost) /\ left' = left \cup lost
    BY <1>0, <1>1, RestoreMachine
<1>2. CASE /\ mode' = [mode EXCEPT !.impl = key, !.owner = None]
           /\ left' = (IF mode.covered # {} THEN left \cup {"cover", "registry"} ELSE left)
           /\ UNCHANGED registry
    <2>1. mode'.covered = mode.covered
        BY <1>2 DEF PrivacyTypeOK, Modes
    <2>2. mode.covered = {} => ~On
        OBVIOUS
    <2>3. "registry" \notin left' => mode.covered = {} /\ "registry" \notin left
        BY <1>2
    <2>4. "cover" \notin left' => mode.covered = {}
        BY <1>2
    <2>5. "registry" \notin left' => ~registry.changed /\ ~registry.recovery
        BY <2>2, <2>3
    <2>. QED  BY <1>0, <1>2, <2>1, <2>4, <2>5
<1>. QED  BY <1>1, <1>2 DEF replaced

(* One step of the call that holds the mutex. *)
LEMMA TurnOnMachine ==
    ASSUME MachineInv, turn_on_impl
    PROVE  MachineInv'
<1>. USE DEF MachineInv, CoverGoesWithOwner, WayBackIsStored, On, Free
<1>1. PrivacyTypeOK /\ PrivacyTypeOK'
    BY TurnOnType
<1>2. ~Free /\ turning \in TurnOns /\ turning.call.conn \in Conns
    BY TurningType
    DEF turn_on_impl, turn_on_topmost, turn_on_virtual_fails, commit_change_display,
        turn_on_virtual_unfinished, turn_on_virtual
<1>3. LET m == OwnedBy(turning.call.conn)
      IN  /\ m.impl = mode.impl /\ m.owner = turning.call.conn
          /\ m.covered = mode.covered \cup {mode.impl}
    BY <1>1, <1>2 DEF OwnedBy, PrivacyTypeOK, Modes
<1>4. turning.call.conn # None
    BY <1>2, PrivacyAssumption
<1>5. CASE turn_on_topmost
    <2>1. CASE UNCHANGED <<machine, untold, left>> /\ turning' = None
        BY <1>1, <1>2, <1>5, <2>1 DEF turn_on_topmost, machine
    <2>2. CASE mode' = OwnedBy(turning.call.conn) /\ turning' = None /\ UNCHANGED <<registry, left>>
        BY <1>1, <1>2, <1>3, <1>4, <1>5, <2>2 DEF turn_on_topmost
    <2>. QED  BY <1>5, <2>1, <2>2 DEF turn_on_topmost, Ends
<1>6. CASE turn_on_virtual_fails
    <2>1. turning' = None /\ turning.at = "start"
        BY <1>6 DEF turn_on_virtual_fails, Ends
    <2>2. CASE UNCHANGED <<machine, left>>
        BY <1>1, <1>2, <2>1, <2>2 DEF machine
    <2>3. CASE turn_off_privacy(None, TRUE)
        <3>1. PICK lost \in SUBSET CanBeLost :
                turn_off(None, TRUE, lost) /\ left' = left \cup lost
            BY <2>3 DEF turn_off_privacy
        <3>2. restore(mode.impl, lost) /\ mode.impl \in Impls
            BY <1>1, <3>1, TurnsOffEffect
        <3>3. /\ mode'.owner = None
              /\ "cover" \notin lost => mode'.covered = mode.covered \ {mode.impl}
              /\ mode.impl = Topmost \/ ~registry.recovery => registry' = registry
            BY <1>1, <3>2, RestoreEffect
        <3>4. "cover" \notin left' => mode'.covered = {}
            BY <1>2, <2>1, <3>1, <3>3
        <3>5. "registry" \notin left' => ~registry'.changed /\ ~registry'.recovery
            BY <1>2, <2>1, <3>1, <3>3
        <3>. QED  BY <1>1, <2>1, <3>3, <3>4, <3>5
    <2>. QED  BY <1>6, <2>2, <2>3 DEF turn_on_virtual_fails
<1>7. CASE commit_change_display
    <2>1. /\ mode'.impl = mode.impl /\ mode'.owner = mode.owner
          /\ mode'.covered = mode.covered \cup {VirtualDisplay}
        BY <1>1, <1>7 DEF commit_change_display, PrivacyTypeOK, Modes
    <2>2. registry'.recovery = registry.recovery
        BY <1>1, <1>7 DEF commit_change_display, PrivacyTypeOK, Registries
    <2>3. turning' # None /\ turning'.at = "store" /\ left' = left
        BY <1>1, <1>2, <1>7, PrivacyAssumption
        DEF commit_change_display, history, TurnOns, PrivacyTypeOK
    <2>. QED
        BY <1>1, <1>2, <1>7, <2>1, <2>2, <2>3 DEF commit_change_display
<1>8. CASE turn_on_virtual_unfinished
    <2>1. PICK ok \in BOOLEAN, lost \in SUBSET CanBeLost :
            /\ turn_off(None, ok, lost)
            /\ left' = left \cup lost \cup (IF ok THEN {} ELSE {"cover"})
                            \cup (IF registry.changed THEN {"registry"} ELSE {})
        BY <1>8 DEF turn_on_virtual_unfinished
    <2>2. turning' = None /\ turning.at = "store"
        BY <1>8 DEF turn_on_virtual_unfinished, Ends
    <2>3. "registry" \notin left' => ~registry.changed /\ ~registry.recovery
        BY <1>2, <2>1
    <2>4. CASE ok
        <3>1. restore(mode.impl, lost) /\ mode.impl \in Impls
            BY <1>1, <2>1, <2>4, TurnsOffEffect
        <3>2. /\ mode'.owner = None
              /\ "cover" \notin lost => mode'.covered = mode.covered \ {mode.impl}
              /\ mode.impl = Topmost \/ ~registry.recovery => registry' = registry
            BY <1>1, <3>1, RestoreEffect
        <3>3. "cover" \notin left' => mode'.covered = {}
            BY <1>2, <2>1, <2>2, <3>2
        <3>4. "registry" \notin left' => ~registry'.changed /\ ~registry'.recovery
            BY <2>3, <3>2
        <3>. QED  BY <1>1, <2>2, <3>2, <3>3, <3>4
    <2>5. CASE ~ok
        <3>1. UNCHANGED machine /\ "cover" \in left'
            BY <1>1, <2>1, <2>5, TurnsOffEffect
        <3>. QED  BY <1>1, <1>2, <2>2, <2>3, <3>1 DEF machine
    <2>. QED  BY <2>4, <2>5
<1>9. CASE turn_on_virtual
    <2>1. registry'.changed = registry.changed /\ registry'.recovery = registry.changed
        BY <1>1, <1>9 DEF turn_on_virtual, reg_recovery, PrivacyTypeOK, Registries
    <2>2. turning' = None /\ turning.at = "store" /\ left' = left
        BY <1>9 DEF turn_on_virtual, Ends
    <2>. QED
        BY <1>1, <1>2, <1>3, <1>4, <1>9, <2>1, <2>2 DEF turn_on_virtual
<1>. QED
    BY <1>5, <1>6, <1>7, <1>8, <1>9 DEF turn_on_impl

(* turn_on_privacy_sync keeps what is known of the machine. *)
LEMMA SyncMachine ==
    ASSUME MachineInv, NEW call \in calls, turn_on_privacy_sync(call)
    PROVE  MachineInv'
<1>. USE DEF MachineInv, CoverGoesWithOwner, WayBackIsStored, On, Free
<1>1. PrivacyTypeOK' /\ Free /\ call \in Calls /\ call.key \in Impls
    BY SyncType DEF turn_on_privacy_sync, PrivacyTypeOK, Calls
<1>2. LET t == [call |-> call, at |-> "start"] IN t # None /\ t.at = "start"
    BY <1>1, PrivacyAssumption DEF TurnOns
<1>3. CASE UNCHANGED <<machine, turning, left>>
    BY <1>1, <1>3 DEF machine
<1>4. CASE ~On /\ turning' = [call |-> call, at |-> "start"] /\ UNCHANGED <<machine, left>>
    BY <1>1, <1>2, <1>4 DEF machine
<1>5. CASE replaced(call.key) /\ turning' = [call |-> call, at |-> "start"]
    BY <1>1, <1>2, <1>5, ReplacedMachine
<1>. QED
    BY <1>3, <1>4, <1>5 DEF turn_on_privacy_sync

(* Every step keeps the covers and the registry right. *)
LEMMA MachineStep ==
    ASSUME MachineInv, [Next]_vars
    PROVE  MachineInv'
<1>1. PrivacyTypeOK'
    BY TypeStep DEF MachineInv
<1>2. ASSUME UNCHANGED <<mode, registry, turning, left>>
      PROVE  MachineInv'
    BY <1>1, <1>2 DEF MachineInv, CoverGoesWithOwner, WayBackIsStored, On, Free
<1>3. ASSUME NEW c \in Conns,
             \/ check_privacy_mode_on(c) \/ authorized(c) \/ turn_on_privacy(c)
             \/ loop_ends(c) \/ get_cur_impl_key(c) \/ is_current_privacy_mode_impl(c)
             \/ is_async_privacy_mode(c) \/ timeout(c) \/ turned_on(c) \/ failed(c)
             \/ off_by_peer(c) \/ get_privacy_mode_conn_id(c) \/ authed_drop(c)
      PROVE  MachineInv'
    BY <1>2, <1>3
    DEF check_privacy_mode_on, authorized, turn_on_privacy, loop_ends, get_cur_impl_key,
        is_current_privacy_mode_impl, is_async_privacy_mode, timeout, turned_on, failed,
        off_by_peer, get_privacy_mode_conn_id, authed_drop, machine, onlyTask, history
<1>4. ASSUME NEW c \in Conns,
             undo(c) \/ off_all(c) \/ turn_off_request(c) \/ closing_off(c) \/ reset_all(c)
      PROVE  MachineInv'
    <2>1. /\ \E d, ok : turn_off_privacy(d, ok)
          /\ Free /\ turning' = turning
        BY <1>4
        DEF undo, off_all, turn_off_request, closing_off, reset_all, turn_off_silently, history
    <2>. QED  BY <1>1, <2>1, TurnOffMachine
<1>5. CASE ctrl_p
    <2>1. /\ \E ok : turn_off_privacy(None, ok)
          /\ Free /\ turning' = turning
        BY <1>5 DEF ctrl_p
    <2>. QED  BY <1>1, <2>1, TurnOffMachine
<1>6. CASE hook_thread_leaves \/ get_capturer \/ check_privacy_mode_changed
    BY <1>2, <1>6
    DEF hook_thread_leaves, get_capturer, check_privacy_mode_changed, machine, history
<1>7. CASE process_exits
    <2>1. mode'.owner = None /\ turning' = None
        BY <1>7 DEF process_exits
    <2>2. PICK done \in BOOLEAN :
            /\ registry' = restore_reg_connectivity(done)
            /\ left' = left
                  \cup (IF mode'.covered # {} THEN {"cover"} ELSE {})
                  \cup (IF registry.changed /\ (~Free \/ ~done) THEN {"registry"} ELSE {})
        BY <1>7 DEF process_exits
    <2>3. ~registry'.recovery
        BY <2>2 DEF restore_reg_connectivity
    <2>4. "cover" \notin left' => mode'.covered = {}
        BY <2>2
    <2>5. ASSUME "registry" \notin left'
          PROVE  ~registry'.changed
        <3>1. "registry" \notin left /\ (registry.changed => Free /\ done)
            BY <2>2, <2>5
        <3>2. registry.changed => registry.recovery
            BY <3>1 DEF MachineInv, WayBackIsStored
        <3>. QED  BY <2>2, <3>1, <3>2 DEF restore_reg_connectivity
    <2>. QED
        BY <1>1, <2>1, <2>3, <2>4, <2>5
        DEF MachineInv, CoverGoesWithOwner, WayBackIsStored, On, Free
<1>8. ASSUME NEW key \in Impls, switch(key)
      PROVE  MachineInv'
    <2>1. CASE UNCHANGED <<machine, left>>
        BY <1>2, <1>8, <2>1 DEF switch, machine
    <2>2. CASE ~On /\ mode' = [mode EXCEPT !.impl = key] /\ UNCHANGED <<registry, left>>
        <3>1. mode'.owner = mode.owner /\ mode'.covered = mode.covered
            BY <2>2 DEF MachineInv, PrivacyTypeOK, Modes
        <3>. QED
            BY <1>1, <1>8, <2>2, <3>1
            DEF switch, MachineInv, CoverGoesWithOwner, WayBackIsStored, On, Free
    <2>3. CASE replaced(key)
        BY <1>1, <1>8, <2>3, ReplacedMachine
        DEF switch, MachineInv, CoverGoesWithOwner, WayBackIsStored, On, Free
    <2>. QED  BY <1>8, <2>1, <2>2, <2>3 DEF switch
<1>10. CASE set_options
    <2>1. mode' = mode /\ turning' = turning /\ registry'.changed = registry.changed
        BY <1>10 DEF set_options, MachineInv, PrivacyTypeOK, Registries
    <2>2. /\ "cover" \in left' <=> "cover" \in left
          /\ "registry" \notin left' =>
                "registry" \notin left /\ registry'.recovery = registry.recovery
        BY <1>10 DEF set_options, MachineInv, PrivacyTypeOK, Registries
    <2>. QED
        BY <1>1, <2>1, <2>2 DEF MachineInv, CoverGoesWithOwner, WayBackIsStored, On, Free
<1>9. CASE UNCHANGED vars
    BY <1>2, <1>9 DEF vars, machine, history
<1>. QED
    BY <1>3, <1>4, <1>5, <1>6, <1>7, <1>8, <1>9, <1>10, TurnOnMachine, SyncMachine
    DEF Next, TaskStep

(* The types hold at the start. *)
LEMMA TypeInit == Init => PrivacyTypeOK
<1>. SUFFICES ASSUME Init
              PROVE  PrivacyTypeOK
    OBVIOUS
<1>1. mode \in Modes /\ mode.owner = None /\ mode.covered = {}
    BY DEF Init, Modes
<1>2. registry \in Registries /\ budget \in [requests : Nat, switches : Nat]
    BY PrivacyAssumption DEF Init, Registries
<1>. QED  BY <1>1, <1>2 DEF Init, PrivacyTypeOK, Steps

(* Nothing is changed on the machine at the start. *)
LEMMA MachineInit == Init => MachineInv
    BY TypeInit DEF Init, MachineInv, CoverGoesWithOwner, WayBackIsStored, On, Free

(* The screen is covered exactly while somebody owns the mode, by the      *)
(* implementation in charge, however turn_on_privacy fails half way and    *)
(* whoever replaces the implementation.  A cover stays only where the code *)
(* does not look or cannot act: the displays did not come back in restore, *)
(* unhook failed in the guard or when the implementation was replaced, or  *)
(* the next process found no entry by which to unplug.                     *)
THEOREM CoverGoesWithOwnerHolds == Spec => []CoverGoesWithOwner
<1>1. MachineInv => CoverGoesWithOwner
    BY DEF MachineInv
<1>. QED  BY <1>1, MachineInit, MachineStep, PTL DEF Spec

(* A registry that win_virtual_display changed can be put right whenever   *)
(* the mutex is free, and the stored way back is gone with the mode; but   *)
(* for a restore_reg_connectivity that failed and forgot it, a process     *)
(* that ended or a reading that failed before it was stored, a replacement *)
(* without unhook, and set_options with an older copy of the options.      *)
THEOREM WayBackIsStoredHolds == Spec => []WayBackIsStored
<1>1. MachineInv => WayBackIsStored
    BY DEF MachineInv
<1>. QED  BY <1>1, MachineInit, MachineStep, PTL DEF Spec

-----------------------------------------------------------------------------
(* The calls of turn_on_privacy_sync.                                      *)

(* The pending calls are those waiting and the one that holds the mutex. *)
LEMMA PendingCalls ==
    ASSUME PrivacyTypeOK
    PROVE  /\ Pending \subseteq Calls
           /\ Free => Pending = calls
           /\ ~Free => Pending = calls \cup {turning.call}
<1>1. Free => Pending = calls
    BY DEF Pending, Free
<1>2. ~Free => Pending = calls \cup {turning.call}
    BY DEF Pending, Free
<1>. QED  BY <1>1, <1>2, TurningType DEF PrivacyTypeOK

(* A step that neither makes nor ends a call, and takes nobody away from   *)
(* its call who has not given up.                                          *)
LEMMA KeepCalls ==
    ASSUME CallInv, PrivacyTypeOK', UNCHANGED <<calls, turning, result>>,
           outlived \subseteq outlived',
           \A c \in Conns : /\ result[c] # None => Waits(c)'
                            /\ Waits(c) => \/ Waits(c)' /\ local'[c] = local[c]
                                           \/ c \in outlived'
    PROVE  CallInv'
<1>1. Pending' = Pending /\ Pending \subseteq Calls
    BY PendingCalls DEF CallInv, Pending
<1>2. \A call \in Pending : call.conn \in Conns
    BY <1>1 DEF Calls
<1>3. \A call \in Pending : call.conn \in outlived' \/ AwaitsResult(call)'
    BY <1>2 DEF CallInv, AwaitsResult
<1>4. Free' = Free
    BY DEF Free
<1>. QED  BY <1>1, <1>3, <1>4 DEF CallInv

(* A call that returns was the only one its caller waits for. *)
LEMMA ReturnEndsCall ==
    ASSUME CallInv, PrivacyTypeOK', NEW call \in Pending, NEW r \in Results,
           Returns(call, r), Free', calls' = Pending \ {call},
           UNCHANGED <<pc, local, outlived>>
    PROVE  CallInv'
<1>1. PrivacyTypeOK /\ Pending \subseteq Calls /\ Pending' = Pending \ {call}
    BY PendingCalls DEF CallInv, Pending, Free
<1>2. call.conn \in Conns /\ \A p \in Pending : p.conn \in Conns
    BY <1>1 DEF Calls
<1>3. \A c \in Conns : c # call.conn => result'[c] = result[c]
    BY <1>1, <1>2 DEF Returns, PrivacyTypeOK
<1>4. result'[call.conn] # None => Waits(call.conn)
    BY <1>1, <1>2 DEF Returns, PrivacyTypeOK, CallInv, Waits
<1>5. \A c \in Conns : result'[c] # None => Waits(c)'
    BY <1>3, <1>4 DEF CallInv, Waits
<1>6. \A p \in Pending' : p.conn \in outlived' \/ AwaitsResult(p)'
    <2>. SUFFICES ASSUME NEW p \in Pending', p.conn \notin outlived
                  PROVE  AwaitsResult(p)'
        OBVIOUS
    <2>1. p \in Pending /\ p # call /\ p.conn # call.conn /\ AwaitsResult(p)
        BY <1>1 DEF CallInv
    <2>2. result'[p.conn] = result[p.conn]
        BY <1>2, <1>3, <2>1
    <2>. QED  BY <2>1, <2>2 DEF AwaitsResult, Waits
<1>. QED  BY <1>1, <1>5, <1>6 DEF CallInv

(* The steps of turning on end at most the call that holds the mutex. *)
LEMMA TurnOnCalls ==
    ASSUME CallInv, turn_on_impl
    PROVE  CallInv'
<1>1. PrivacyTypeOK /\ PrivacyTypeOK'
    BY TurnOnType DEF CallInv
<1>2. ~Free
    BY DEF turn_on_impl, turn_on_topmost, turn_on_virtual_fails, commit_change_display,
           turn_on_virtual_unfinished, turn_on_virtual
<1>3. turning \in TurnOns /\ Pending = calls \cup {turning.call} /\ turning.call \notin calls
    BY <1>1, <1>2, TurningType, PendingCalls DEF CallInv
<1>4. ASSUME NEW r \in Results, Ends(r)
      PROVE  CallInv'
    <2>1. /\ Returns(turning.call, r) /\ Free' /\ calls' = Pending \ {turning.call}
          /\ UNCHANGED <<pc, local, outlived>>
        BY <1>3, <1>4 DEF Ends, Free
    <2>. QED  BY <1>1, <1>3, <2>1, ReturnEndsCall
<1>5. CASE commit_change_display
    <2>1. turning' \in TurnOns /\ turning'.call = turning.call
        BY <1>3, <1>5 DEF commit_change_display, TurnOns
    <2>2. turning' # None /\ UNCHANGED <<calls, pc, local, result, outlived>>
        BY <1>5, <2>1, PrivacyAssumption DEF commit_change_display, taskVars, history
    <2>3. Pending' = Pending /\ (~Free)'
        BY <1>1, <1>3, <2>1, <2>2, PendingCalls DEF Pending, Free
    <2>. QED
        BY <1>1, <1>3, <2>1, <2>2, <2>3 DEF CallInv, AwaitsResult, Waits
<1>6. "true" \in Results /\ "false" \in Results /\ "err" \in Results
    BY DEF Results
<1>. QED
    BY <1>4, <1>5, <1>6
    DEF turn_on_impl, turn_on_topmost, turn_on_virtual_fails,
        turn_on_virtual_unfinished, turn_on_virtual

(* turn_on_privacy_sync takes a waiting call on, or ends it. *)
LEMMA SyncCalls ==
    ASSUME CallInv, NEW call \in calls, turn_on_privacy_sync(call)
    PROVE  CallInv'
<1>1. PrivacyTypeOK /\ PrivacyTypeOK' /\ Free /\ Pending = calls
    BY SyncType, PendingCalls DEF CallInv, turn_on_privacy_sync
<1>2. calls' = calls \ {call} /\ UNCHANGED <<pc, local, outlived>>
    BY DEF turn_on_privacy_sync
<1>3. ASSUME NEW r \in Results, Returns(call, r), turning' = turning
      PROVE  CallInv'
    <2>1. Free'
        BY <1>1, <1>3 DEF Free
    <2>. QED  BY <1>1, <1>2, <1>3, <2>1, ReturnEndsCall
<1>4. CASE turning' = [call |-> call, at |-> "start"] /\ result' = result
    <2>1. call \in Calls
        BY <1>1 DEF PrivacyTypeOK
    <2>2. turning' # None /\ turning'.call = call
        BY <1>4, <2>1, PrivacyAssumption DEF TurnOns
    <2>3. Pending' = Pending /\ (~Free)' /\ turning'.call \notin calls'
        BY <1>1, <1>2, <2>2 DEF Pending, Free
    <2>. QED
        BY <1>1, <1>2, <1>4, <2>2, <2>3 DEF CallInv, AwaitsResult, Waits
<1>. QED
    BY <1>3, <1>4 DEF turn_on_privacy_sync, Results

(* The two steps by which a connection starts and ends to wait. *)
LEMMA AskCalls ==
    ASSUME CallInv, PrivacyTypeOK', NEW c \in Conns, is_async_privacy_mode(c)
    PROVE  CallInv'
<1>1. /\ PrivacyTypeOK /\ Free /\ Free' /\ Pending = calls /\ Pending' = calls'
      /\ UNCHANGED <<result, outlived>>
    BY PendingCalls DEF CallInv, is_async_privacy_mode, Free, Pending, history
<1>2. PICK key \in Impls :
        calls' = calls \cup {[conn |-> c, key |-> key, n |-> budget.requests]}
    BY DEF is_async_privacy_mode
<1>3. PICK new : calls' = calls \cup {new} /\ new.conn = c /\ new.n = budget.requests
    <2>1. LET made == [conn |-> c, key |-> key, n |-> budget.requests]
          IN  made.conn = c /\ made.n = budget.requests
        OBVIOUS
    <2>. QED  BY <1>2, <2>1, Zenon
<1>4. /\ ~Waits(c) /\ result[c] = None
      /\ Waits(c)' /\ local'[c] = budget.requests
      /\ \A d \in Conns : d # c => pc'[d] = pc[d] /\ local'[d] = local[d]
    BY <1>1 DEF is_async_privacy_mode, Goes, Waits, CallInv, PrivacyTypeOK
<1>5. \A p \in Pending : p.conn = c => c \in outlived
    BY <1>4 DEF CallInv, AwaitsResult
<1>6. \A p \in Pending : p.conn \in Conns
    BY <1>1 DEF Calls, PrivacyTypeOK
<1>7. \A d \in Conns : result'[d] # None => Waits(d)'
    BY <1>1, <1>4 DEF CallInv, Waits
<1>8. \A p \in Pending' : p.conn \in outlived' \/ AwaitsResult(p)'
    <2>1. AwaitsResult(new)'
        BY <1>1, <1>3, <1>4 DEF AwaitsResult
    <2>2. ASSUME NEW p \in Pending, p.conn # c
          PROVE  p.conn \in outlived' \/ AwaitsResult(p)'
        BY <1>1, <1>4, <1>6, <2>2 DEF AwaitsResult, Waits, CallInv
    <2>. QED  BY <1>1, <1>3, <1>5, <2>1, <2>2
<1>9. \A p, q \in Pending' : p.conn = q.conn => p = q \/ p.conn \in outlived'
    BY <1>1, <1>3, <1>5 DEF CallInv
<1>. QED  BY <1>1, <1>7, <1>8, <1>9 DEF CallInv

(* A handler that reads its answer leaves no call of its own behind. *)
LEMMA AnswerCalls ==
    ASSUME CallInv, PrivacyTypeOK', NEW c \in Conns, turned_on(c)
    PROVE  CallInv'
<1>1. /\ PrivacyTypeOK /\ UNCHANGED <<calls, turning, outlived>> /\ result[c] # None
      /\ result'[c] = None
      /\ \A d \in Conns : d # c => pc'[d] = pc[d] /\ local'[d] = local[d] /\ result'[d] = result[d]
    BY PrivacyAssumption DEF turned_on, onlyTask, history, Goes, CallInv, PrivacyTypeOK, Results
<1>2. Pending' = Pending /\ Free' = Free /\ \A p \in Pending : p.conn \in Conns
    BY <1>1, PendingCalls DEF Pending, Free, Calls
<1>3. \A d \in Conns : result'[d] # None => Waits(d)'
    BY <1>1 DEF CallInv, Waits
<1>4. \A p \in Pending : p.conn = c => c \in outlived
    BY <1>1 DEF CallInv, AwaitsResult
<1>5. ASSUME NEW p \in Pending, p.conn # c
      PROVE  p.conn \in outlived' \/ AwaitsResult(p)'
    BY <1>1, <1>2, <1>5 DEF CallInv, AwaitsResult, Waits
<1>. QED  BY <1>1, <1>2, <1>3, <1>4, <1>5 DEF CallInv

(* Every step keeps callers and calls together. *)
LEMMA CallStep ==
    ASSUME CallInv, [Next]_vars
    PROVE  CallInv'
<1>1. PrivacyTypeOK /\ PrivacyTypeOK'
    BY TypeStep DEF CallInv
<1>2. ASSUME UNCHANGED <<calls, turning, result, pc, local, outlived>>
      PROVE  CallInv'
    BY <1>1, <1>2, KeepCalls DEF CallInv, Waits
<1>3. ASSUME NEW c \in Conns, NEW from, NEW to, Goes(c, from, to),
             from \notin {"sync", "async"}, UNCHANGED <<calls, turning, result>>,
             outlived \subseteq outlived',
             \A d \in Conns : d # c => local'[d] = local[d]
      PROVE  CallInv'
    <2>1. ~Waits(c) /\ \A d \in Conns : d # c => pc'[d] = pc[d]
        BY <1>1, <1>3 DEF Goes, Waits, PrivacyTypeOK
    <2>. QED  BY <1>1, <1>3, <2>1, KeepCalls DEF CallInv, Waits
<1>4. ASSUME NEW c \in Conns, timeout(c)
      PROVE  CallInv'
    <2>1. /\ UNCHANGED <<calls, turning, result>> /\ outlived' = outlived \cup {c}
          /\ result[c] = None
          /\ \A d \in Conns : d # c => pc'[d] = pc[d] /\ local'[d] = local[d]
        BY <1>1, <1>4 DEF timeout, Goes, onlyTask, PrivacyTypeOK
    <2>. QED  BY <1>1, <2>1, KeepCalls DEF CallInv, Waits
<1>5. ASSUME NEW c \in Conns, get_cur_impl_key(c) \/ is_current_privacy_mode_impl(c)
      PROVE  CallInv'
    <2>1. /\ UNCHANGED <<calls, turning, result, outlived>>
          /\ \A d \in Conns : d # c => local'[d] = local[d]
        BY <1>1, <1>5
        DEF get_cur_impl_key, is_current_privacy_mode_impl, onlyTask, history, PrivacyTypeOK
    <2>. QED
        BY <1>3, <1>5, <2>1 DEF get_cur_impl_key, is_current_privacy_mode_impl
<1>6. ASSUME NEW c \in Conns,
             \/ check_privacy_mode_on(c) \/ authorized(c) \/ turn_on_privacy(c)
             \/ loop_ends(c) \/ failed(c) \/ off_by_peer(c)
             \/ get_privacy_mode_conn_id(c) \/ authed_drop(c)
      PROVE  CallInv'
    <2>1. UNCHANGED <<calls, turning, result, local, outlived>>
        BY <1>6
        DEF check_privacy_mode_on, authorized, turn_on_privacy, loop_ends, failed,
            off_by_peer, get_privacy_mode_conn_id, authed_drop, onlyTask, history
    <2>2. \E from, to : Goes(c, from, to) /\ from \notin {"sync", "async"}
        BY <1>6
        DEF check_privacy_mode_on, authorized, turn_on_privacy, loop_ends, failed,
            off_by_peer, get_privacy_mode_conn_id, authed_drop
    <2>. QED  BY <1>3, <2>1, <2>2
<1>7. ASSUME NEW c \in Conns,
             undo(c) \/ off_all(c) \/ turn_off_request(c) \/ closing_off(c) \/ reset_all(c)
      PROVE  CallInv'
    <2>1. UNCHANGED <<calls, turning, result, local>> /\ outlived \subseteq outlived'
        BY <1>7
        DEF undo, off_all, turn_off_request, closing_off, reset_all, turn_off_silently, history
    <2>2. \E from, to : Goes(c, from, to) /\ from \notin {"sync", "async"}
        BY <1>7 DEF undo, off_all, turn_off_request, closing_off, reset_all
    <2>. QED  BY <1>3, <2>1, <2>2
<1>8. CASE \/ hook_thread_leaves \/ ctrl_p \/ get_capturer \/ check_privacy_mode_changed
           \/ set_options \/ \E key \in Impls : switch(key)
    BY <1>2, <1>8
    DEF hook_thread_leaves, ctrl_p, get_capturer, check_privacy_mode_changed, set_options,
        switch, taskVars, history
<1>9. CASE process_exits
    <2>1. calls' = {} /\ Free' /\ \A c \in Conns : result'[c] = None
        BY <1>9 DEF process_exits, Free
    <2>. QED  BY <1>1, <2>1 DEF CallInv, Pending, Free
<1>10. CASE UNCHANGED vars
    BY <1>2, <1>10 DEF vars, taskVars, history
<1>. QED
    BY <1>1, <1>4, <1>5, <1>6, <1>7, <1>8, <1>9, <1>10,
       TurnOnCalls, SyncCalls, AskCalls, AnswerCalls DEF Next, TaskStep

-----------------------------------------------------------------------------
(* The owner and what the clients show.                                    *)

(* A connection is registered and struck off with the step that moves it.  *)
LEMMA AuthedStep ==
    ASSUME PrivacyTypeOK, AuthedInv, [Next]_vars
    PROVE  AuthedInv'
<1>. USE DEF AuthedInv
<1>1. ASSUME UNCHANGED <<pc, authed>>
      PROVE  AuthedInv'
    BY <1>1
<1>2. ASSUME NEW c \in Conns, NEW from, NEW to, Goes(c, from, to),
             UNCHANGED authed,
             (from \in {"new", "login", "reset_all", "gone"}) <=>
                (to \in {"new", "login", "reset_all", "gone"})
      PROVE  AuthedInv'
    BY <1>2 DEF Goes, PrivacyTypeOK
<1>3. ASSUME NEW c \in Conns, authorized(c) \/ authed_drop(c)
      PROVE  AuthedInv'
    BY <1>3 DEF authorized, authed_drop, Goes, PrivacyTypeOK
<1>4. ASSUME NEW c \in Conns,
             \/ check_privacy_mode_on(c) \/ turn_on_privacy(c) \/ loop_ends(c)
             \/ get_cur_impl_key(c) \/ is_current_privacy_mode_impl(c)
             \/ is_async_privacy_mode(c) \/ timeout(c) \/ failed(c) \/ off_by_peer(c)
             \/ get_privacy_mode_conn_id(c)
      PROVE  AuthedInv'
    BY <1>2, <1>4
    DEF check_privacy_mode_on, turn_on_privacy, loop_ends, get_cur_impl_key,
        is_current_privacy_mode_impl, is_async_privacy_mode, timeout, failed,
        off_by_peer, get_privacy_mode_conn_id
<1>5. ASSUME NEW c \in Conns, turned_on(c)
      PROVE  AuthedInv'
    BY <1>2, <1>5 DEF turned_on
<1>6. ASSUME NEW c \in Conns,
             undo(c) \/ off_all(c) \/ turn_off_request(c) \/ closing_off(c) \/ reset_all(c)
      PROVE  AuthedInv'
    BY <1>2, <1>6 DEF undo, off_all, turn_off_request, closing_off, reset_all
<1>7. CASE process_exits
    BY <1>7 DEF process_exits
<1>8. ASSUME turn_on_impl
      PROVE  AuthedInv'
    BY <1>1, <1>8
    DEF turn_on_impl, turn_on_topmost, turn_on_virtual_fails, commit_change_display,
        turn_on_virtual_unfinished, turn_on_virtual, Ends, taskVars
<1>9. CASE \/ hook_thread_leaves \/ ctrl_p \/ get_capturer \/ check_privacy_mode_changed
           \/ set_options \/ \E key \in Impls : switch(key)
    BY <1>1, <1>9
    DEF hook_thread_leaves, ctrl_p, get_capturer, check_privacy_mode_changed, set_options,
        switch, taskVars
<1>10. ASSUME NEW call \in calls, turn_on_privacy_sync(call)
       PROVE  AuthedInv'
    BY <1>1, <1>10 DEF turn_on_privacy_sync
<1>11. CASE UNCHANGED vars
    BY <1>1, <1>11 DEF vars, taskVars
<1>. QED
    BY <1>3, <1>4, <1>5, <1>6, <1>7, <1>8, <1>9, <1>10, <1>11 DEF Next, TaskStep

(* What OwnerInv says of one connection. *)
Connected(c) ==
    mode.owner = c => pc[c] \notin {"drop", "reset_all", "gone"} \/ c \in outlived

(* A connection that the step does not move. *)
LEMMA Bystander ==
    ASSUME OwnerInv, NEW d \in Conns, pc'[d] = pc[d], result'[d] = result[d],
           shown'[d] \in {shown[d], "off", "left"},
           outlived \subseteq outlived',
           mode'.owner = d => mode.owner = d,
           d \in authed /\ MayBelieve(d) => MayBelieve(d)'
    PROVE  Connected(d)' /\ Belief(d)'
<1>1. Connected(d) /\ Belief(d)
    BY DEF OwnerInv, OwnerIsConnected, Connected
<1>2. result[d] = "true" => d \in authed
    <2>1. result[d] = "true" => Waits(d)
        BY PrivacyAssumption DEF OwnerInv, CallInv, Results
    <2>. QED  BY <2>1 DEF OwnerInv, AuthedInv, Waits
<1>3. pc[d] \in {"idle", "key", "compare", "ask", "closing", "closing_off"} => d \in authed
    BY DEF OwnerInv, AuthedInv
<1>4. Connected(d)'
    BY <1>1 DEF Connected
<1>. QED  BY <1>1, <1>2, <1>3, <1>4 DEF Belief

(* What a message does to what the client shows. *)
LEMMA TellsShown ==
    ASSUME PrivacyTypeOK, NEW c \in Conns, NEW m, Tells(c, m)
    PROVE  /\ \A d \in Conns : d # c => shown'[d] = shown[d]
           /\ m \in {"PrvOffSucceeded", "PrvOnFailed", "PrvOffByPeer"} => shown'[c] # "on"
           /\ m = "PrvOffFailed" => shown'[c] = shown[c]
<1>1. shown'[c] = handle_back_msg_privacy_mode(shown[c], m)
    BY DEF Tells, PrivacyTypeOK
<1>2. \A d \in Conns : d # c => shown'[d] = shown[d]
    BY DEF Tells, PrivacyTypeOK
<1>. QED  BY <1>1, <1>2 DEF handle_back_msg_privacy_mode

(* Where one connection goes, the others stay. *)
LEMMA GoesOne ==
    ASSUME PrivacyTypeOK, NEW c \in Conns, NEW from, NEW to, Goes(c, from, to)
    PROVE  pc[c] = from /\ pc'[c] = to /\ \A d \in Conns : d # c => pc'[d] = pc[d]
    BY DEF Goes, PrivacyTypeOK

(* The steps of a connection that leave the mode alone. *)
LEMMA TaskOwner ==
    ASSUME OwnerInv, NEW c \in Conns,
           \/ check_privacy_mode_on(c) \/ authorized(c) \/ turn_on_privacy(c)
           \/ loop_ends(c) \/ get_cur_impl_key(c) \/ is_current_privacy_mode_impl(c)
           \/ is_async_privacy_mode(c) \/ timeout(c) \/ turned_on(c) \/ failed(c)
           \/ off_by_peer(c) \/ get_privacy_mode_conn_id(c) \/ authed_drop(c)
    PROVE  \A d \in Conns : Connected(d)' /\ Belief(d)'
<1>1. PrivacyTypeOK /\ Connected(c) /\ Belief(c) /\ (result[c] # None => Waits(c))
    BY DEF OwnerInv, MachineInv, OwnerIsConnected, Connected, CallInv
<1>2. /\ mode' = mode /\ untold' = untold /\ outlived \subseteq outlived'
      /\ \A d \in Conns : d # c => cm'[d] = cm[d] /\ result'[d] = result[d]
    BY <1>1
    DEF check_privacy_mode_on, authorized, turn_on_privacy, loop_ends, get_cur_impl_key,
        is_current_privacy_mode_impl, is_async_privacy_mode, timeout, turned_on, failed,
        off_by_peer, get_privacy_mode_conn_id, authed_drop, machine, onlyTask, messages,
        history, PrivacyTypeOK
<1>3. \A d \in Conns : d # c => pc'[d] = pc[d] /\ shown'[d] = shown[d]
    <2>1. \E from, to : Goes(c, from, to)
        BY DEF check_privacy_mode_on, authorized, turn_on_privacy, loop_ends,
            get_cur_impl_key, is_current_privacy_mode_impl, is_async_privacy_mode, timeout,
            turned_on, failed, off_by_peer, get_privacy_mode_conn_id, authed_drop
    <2>2. shown' = shown \/ \E m : Tells(c, m)
        BY DEF check_privacy_mode_on, authorized, turn_on_privacy, loop_ends,
            get_cur_impl_key, is_current_privacy_mode_impl, is_async_privacy_mode, timeout,
            turned_on, failed, off_by_peer, get_privacy_mode_conn_id, authed_drop, messages
    <2>. QED  BY <1>1, <2>1, <2>2, GoesOne, TellsShown
<1>4. ASSUME NEW d \in Conns, d # c
      PROVE  Connected(d)' /\ Belief(d)'
    BY <1>2, <1>3, <1>4, Bystander DEF MayBelieve
<1>. SUFFICES Connected(c)' /\ Belief(c)'
    BY <1>4
<1>. USE DEF Connected, Belief
<1>5. ASSUME shown' = shown, cm' = cm, result' = result, NEW from, NEW to, Goes(c, from, to),
             to \notin {"new", "drop", "reset_all", "gone"},
             to \in {"idle", "key", "compare", "ask", "closing", "closing_off"} =>
                from \in {"idle", "key", "compare", "ask", "closing", "closing_off"},
             to = "login" => from = "new"
      PROVE  Connected(c)' /\ Belief(c)'
    BY <1>1, <1>2, <1>5, GoesOne DEF MayBelieve
<1>6. CASE \/ check_privacy_mode_on(c) \/ turn_on_privacy(c) \/ loop_ends(c)
           \/ get_cur_impl_key(c) \/ is_async_privacy_mode(c) \/ timeout(c)
    BY <1>5, <1>6
    DEF check_privacy_mode_on, turn_on_privacy, loop_ends, get_cur_impl_key,
        is_async_privacy_mode, timeout, messages
<1>7. CASE authorized(c)
    BY <1>1, <1>2, <1>7, GoesOne DEF authorized, messages, MayBelieve
<1>8. CASE is_current_privacy_mode_impl(c)
    <2>1. shown'[c] \in {shown[c]} \/ shown'[c] # "on"
        BY <1>1, <1>8, TellsShown DEF is_current_privacy_mode_impl
    <2>2. pc[c] = "compare" /\ pc'[c] = "ask" /\ cm' = cm /\ result' = result
        BY <1>1, <1>8, GoesOne DEF is_current_privacy_mode_impl
    <2>. QED  BY <1>1, <1>2, <2>1, <2>2 DEF MayBelieve
<1>9. CASE turned_on(c)
    <2>1. result'[c] = None /\ cm' = cm
        BY <1>1, <1>9 DEF turned_on, PrivacyTypeOK
    <2>2. CASE result[c] = "true"
        <3>1. MayBelieve(c)' /\ pc'[c] \in {"idle", "undo"}
            BY <1>1, <1>2, <1>9, <2>1, <2>2, GoesOne DEF turned_on, MayBelieve
        <3>. QED  BY <2>1, <3>1, PrivacyAssumption DEF Results
    <2>3. CASE result[c] = "false"
        <3>1. pc'[c] = "idle" /\ shown'[c] # "on"
            BY <1>1, <1>9, <2>3, GoesOne, TellsShown DEF turned_on
        <3>. QED  BY <2>1, <3>1, PrivacyAssumption DEF Results
    <2>4. CASE result[c] = "err"
        <3>1. pc'[c] = "failed"
            BY <1>1, <1>9, <2>4, GoesOne DEF turned_on
        <3>. QED  BY <2>1, <3>1, PrivacyAssumption DEF Results
    <2>. QED  BY <1>9, <2>2, <2>3, <2>4 DEF turned_on
<1>10. CASE failed(c)
    <2>1. \/ pc'[c] = "off_all"
          \/ pc'[c] = "idle" /\ shown'[c] # "on"
        BY <1>1, <1>10, GoesOne, TellsShown DEF failed
    <2>2. result' = result /\ cm' = cm /\ pc[c] = "failed"
        BY <1>1, <1>10, GoesOne DEF failed
    <2>. QED  BY <1>1, <1>2, <2>1, <2>2 DEF MayBelieve
<1>11. CASE off_by_peer(c)
    <2>1. shown'[c] # "on" /\ pc[c] = "idle" /\ pc'[c] = "idle" /\ result' = result
        BY <1>1, <1>11, GoesOne, TellsShown DEF off_by_peer
    <2>2. result'[c] # "true"
        BY <1>1, <2>1, PrivacyAssumption DEF Waits, Results
    <2>. QED  BY <1>1, <1>2, <2>1, <2>2
<1>12. CASE get_privacy_mode_conn_id(c)
    <2>1. /\ pc[c] = "closing" /\ pc'[c] = IF mode.owner = c THEN "closing_off" ELSE "drop"
          /\ UNCHANGED <<shown, cm, result>>
        BY <1>1, <1>12, GoesOne DEF get_privacy_mode_conn_id, messages
    <2>. QED  BY <1>1, <1>2, <2>1 DEF MayBelieve
<1>13. CASE authed_drop(c)
    <2>1. pc[c] = "drop" /\ pc'[c] \in {"reset_all", "gone"} /\ UNCHANGED <<shown, cm, result>>
        BY <1>1, <1>13, GoesOne DEF authed_drop, messages
    <2>. QED  BY <1>1, <1>2, <2>1 DEF MayBelieve
<1>. QED
    BY <1>6, <1>7, <1>8, <1>9, <1>10, <1>11, <1>12, <1>13

(* Those that turn it off, for themselves or, without a word, for others.  *)
LEMMA TaskOffOwner ==
    ASSUME OwnerInv, NEW c \in Conns,
           undo(c) \/ off_all(c) \/ turn_off_request(c) \/ closing_off(c) \/ reset_all(c)
    PROVE  \A d \in Conns : Connected(d)' /\ Belief(d)'
<1>1. /\ PrivacyTypeOK /\ Connected(c) /\ Belief(c) /\ (result[c] # None => Waits(c))
      /\ mode.owner \in Conns \cup {None}
    BY DEF OwnerInv, MachineInv, OwnerIsConnected, Connected, CallInv, PrivacyTypeOK, Modes
<1>2. /\ UNCHANGED <<cm, result>> /\ outlived \subseteq outlived'
      /\ mode'.owner \in {None, mode.owner}
    <2>1. \E d, ok : turn_off_privacy(d, ok)
        BY DEF undo, off_all, turn_off_request, closing_off, reset_all, turn_off_silently
    <2>2. mode'.owner \in {None, mode.owner}
        BY <1>1, <2>1, TurnOffEffect DEF machine
    <2>. QED
        BY <2>2 DEF undo, off_all, turn_off_request, closing_off, reset_all,
            turn_off_silently, messages, history
<1>3. \A d \in Conns : d # c => pc'[d] = pc[d] /\ shown'[d] = shown[d]
    <2>1. \E from, to : Goes(c, from, to)
        BY DEF undo, off_all, turn_off_request, closing_off, reset_all
    <2>2. shown' = shown \/ \E m : Tells(c, m)
        BY DEF undo, off_all, turn_off_request, closing_off, reset_all, messages
    <2>. QED  BY <1>1, <2>1, <2>2, GoesOne, TellsShown
<1>4. None \notin Conns /\ result[c] = "true" => Waits(c)
    BY <1>1, PrivacyAssumption DEF Results
<1>5. \A d \in Conns : d # c /\ mode.owner = d => mode'.owner = d \/ d \in untold'
    <2>1. ASSUME NEW ok \in BOOLEAN, turn_off_privacy(c, ok)
          PROVE  \A d \in Conns : d # c /\ mode.owner = d => mode'.owner = d
        BY <1>1, <2>1, TurnOffEffect, PrivacyAssumption DEF check_off_conn_id, machine
    <2>2. ASSUME turn_off_silently(None)
          PROVE  \A d \in Conns : mode.owner = d => mode'.owner = d \/ d \in untold'
        BY <1>1, <2>2, TurnOffEffect, PrivacyAssumption DEF turn_off_silently, On, machine
    <2>. QED
        BY <2>1, <2>2 DEF undo, off_all, turn_off_request, closing_off, reset_all
<1>6. untold \subseteq untold'
    BY DEF undo, off_all, turn_off_request, closing_off, reset_all, turn_off_silently, history
<1>7. ASSUME NEW d \in Conns, d # c
      PROVE  Connected(d)' /\ Belief(d)'
    BY <1>2, <1>3, <1>5, <1>6, <1>7, Bystander, PrivacyAssumption DEF MayBelieve
<1>. SUFFICES Connected(c)' /\ Belief(c)'
    BY <1>7
<1>. USE DEF Connected, Belief
<1>8. CASE undo(c) \/ off_all(c)
    <2>1. pc'[c] = "idle" /\ shown'[c] # "on" /\ ~Waits(c)
        BY <1>1, <1>8, GoesOne, TellsShown DEF undo, off_all, Waits
    <2>. QED  BY <1>1, <1>2, <2>1, PrivacyAssumption DEF Results
<1>9. CASE turn_off_request(c)
    <2>1. pc[c] = "idle" /\ pc'[c] = "idle" /\ ~Waits(c)
        BY <1>1, <1>9, GoesOne DEF turn_off_request, Waits
    <2>2. \/ shown'[c] # "on"
          \/ shown'[c] = shown[c] /\ mode'.owner = mode.owner
        BY <1>1, <1>9, TurnOffEffect, TellsShown DEF turn_off_request, machine
    <2>3. shown'[c] = "on" => MayBelieve(c)'
        BY <1>1, <1>2, <1>6, <2>1, <2>2 DEF MayBelieve
    <2>. QED  BY <1>1, <1>2, <2>1, <2>3, PrivacyAssumption DEF Results
<1>10. CASE closing_off(c)
    <2>1. pc[c] = "closing_off" /\ pc'[c] = "drop" /\ ~Waits(c)
        BY <1>1, <1>10, GoesOne DEF closing_off, Waits
    <2>2. mode'.owner = None \/ c \in outlived'
        BY <1>1, <1>10, TurnOffEffect DEF closing_off
    <2>. QED  BY <1>1, <1>2, <2>1, <2>2, PrivacyAssumption DEF Results
<1>11. CASE reset_all(c)
    <2>1. pc[c] = "reset_all" /\ pc'[c] = "gone" /\ ~Waits(c)
        BY <1>1, <1>11, GoesOne DEF reset_all, Waits
    <2>. QED  BY <1>1, <1>2, <2>1, PrivacyAssumption DEF Results
<1>. QED  BY <1>8, <1>9, <1>10, <1>11

(* A call returns, to a caller that waits for it or has given up. *)
LEMMA ReturnsTo ==
    ASSUME OwnerInv, NEW call \in Pending, NEW r \in Results, Returns(call, r)
    PROVE  /\ call.conn \in Conns
           /\ (Waits(call.conn) /\ result[call.conn] = None) \/ call.conn \in outlived
           /\ result'[call.conn] \in {r, result[call.conn]}
           /\ \A d \in Conns : d # call.conn => result'[d] = result[d]
<1>1. PrivacyTypeOK /\ call \in Calls /\ call.conn \in Conns
    BY PendingCalls DEF OwnerInv, CallInv, Calls
<1>2. (Waits(call.conn) /\ result[call.conn] = None) \/ call.conn \in outlived
    BY DEF OwnerInv, CallInv, AwaitsResult
<1>. QED  BY <1>1, <1>2 DEF Returns, PrivacyTypeOK

(* The call that holds the mutex makes its caller the owner, or nobody. *)
LEMMA TurnOnOwner ==
    ASSUME OwnerInv, turn_on_impl
    PROVE  \A d \in Conns : Connected(d)' /\ Belief(d)'
<1>0. PrivacyTypeOK /\ ~Free /\ mode.owner = None
    BY DEF OwnerInv, MachineInv, On, turn_on_impl, turn_on_topmost, turn_on_virtual_fails,
        commit_change_display, turn_on_virtual_unfinished, turn_on_virtual
<1>1. turning.call \in Pending /\ turning.call.conn \in Conns
    BY <1>0, PendingCalls, TurningType
<1>2. PICK c \in Conns : c = turning.call.conn
    BY <1>1
<1>3. c # None /\ OwnedBy(c).owner = c
    BY <1>0, PrivacyAssumption DEF OwnedBy, PrivacyTypeOK, Modes
<1>4. UNCHANGED <<pc, shown, cm, outlived>>
    BY DEF turn_on_impl, turn_on_topmost, turn_on_virtual_fails, commit_change_display,
        turn_on_virtual_unfinished, turn_on_virtual, Ends, messages, taskVars, history
<1>5. \/ mode'.owner = None /\ untold' = untold
      \/ mode'.owner = c /\ untold' = untold \ {c}
    <2>1. CASE turn_on_topmost
        BY <1>0, <1>2, <1>3, <2>1 DEF turn_on_topmost, machine
    <2>2. CASE turn_on_virtual_fails
        BY <1>0, <2>2, TurnOffEffect DEF turn_on_virtual_fails, machine
    <2>3. CASE commit_change_display
        BY <1>0, <2>3 DEF commit_change_display, PrivacyTypeOK, Modes, history
    <2>4. CASE turn_on_virtual_unfinished
        BY <1>0, <2>4, TurnsOffEffect DEF turn_on_virtual_unfinished, machine
    <2>5. CASE turn_on_virtual
        BY <1>2, <1>3, <2>5 DEF turn_on_virtual
    <2>. QED  BY <2>1, <2>2, <2>3, <2>4, <2>5 DEF turn_on_impl
<1>6. \/ result' = result /\ mode'.owner = None
      \/ \E r \in Results :
            Returns(turning.call, r) /\ (r = "true" => mode'.owner = c)
    <2>1. CASE turn_on_topmost
        BY <1>2, <1>3, <2>1 DEF turn_on_topmost, Ends, Results
    <2>2. CASE turn_on_virtual_fails \/ turn_on_virtual_unfinished
        BY <2>2 DEF turn_on_virtual_fails, turn_on_virtual_unfinished, Ends, Results
    <2>3. CASE commit_change_display
        BY <1>0, <2>3 DEF commit_change_display, PrivacyTypeOK, Modes, taskVars
    <2>4. CASE turn_on_virtual
        BY <1>2, <1>3, <2>4 DEF turn_on_virtual, Ends, Results
    <2>. QED  BY <2>1, <2>2, <2>3, <2>4 DEF turn_on_impl
<1>7. /\ (Waits(c) /\ result[c] = None) \/ c \in outlived
      /\ \A d \in Conns : d # c => result'[d] = result[d]
      /\ result'[c] = "true" => mode'.owner = c \/ c \in outlived
    <2>1. CASE result' = result
        BY <1>1, <1>2, <2>1, PrivacyAssumption DEF OwnerInv, CallInv, AwaitsResult, Results
    <2>2. CASE \E r \in Results : Returns(turning.call, r) /\ (r = "true" => mode'.owner = c)
        BY <1>1, <1>2, <2>2, ReturnsTo, PrivacyAssumption DEF Results
    <2>. QED  BY <1>6, <2>1, <2>2
<1>8. ASSUME NEW d \in Conns, d # c
      PROVE  Connected(d)' /\ Belief(d)'
    BY <1>0, <1>3, <1>4, <1>5, <1>7, <1>8, Bystander, PrivacyAssumption DEF MayBelieve
<1>9. Connected(c)' /\ Belief(c)'
    BY <1>4, <1>7, <1>0 DEF Connected, Belief, MayBelieve, OwnerInv, Waits
<1>. QED  BY <1>8, <1>9

(* turn_on_privacy_sync leaves an owner that is connected and rightly believed in. *)
LEMMA SyncOwner ==
    ASSUME OwnerInv, NEW call \in calls, turn_on_privacy_sync(call)
    PROVE  \A d \in Conns : Connected(d)' /\ Belief(d)'
<1>1. PrivacyTypeOK /\ Free /\ MachineInv /\ call \in Pending /\ call \in Calls
    BY PendingCalls DEF OwnerInv, MachineInv, turn_on_privacy_sync, PrivacyTypeOK
<1>2. PICK c \in Conns : c = call.conn
    BY <1>1 DEF Calls
<1>3. UNCHANGED <<pc, shown, cm, untold, outlived>>
    BY DEF turn_on_privacy_sync, messages
<1>4. /\ mode'.owner \in {None, mode.owner}
      /\ \A d \in Conns : d # c /\ mode.owner = d => mode'.owner = d
    BY <1>1, <1>2, ReplacedType DEF turn_on_privacy_sync, machine, Occupied, Calls
<1>5. \/ result' = result
      \/ \E r \in Results :
            Returns(call, r) /\ mode' = mode /\ (r = "true" => mode.owner = c)
    BY <1>2 DEF turn_on_privacy_sync, machine, Results
<1>6. /\ (Waits(c) /\ result[c] = None) \/ c \in outlived
      /\ \A d \in Conns : d # c => result'[d] = result[d]
      /\ result'[c] = "true" => mode'.owner = c \/ c \in outlived
    <2>1. CASE result' = result
        BY <1>1, <1>2, <2>1, PrivacyAssumption DEF OwnerInv, CallInv, AwaitsResult, Results
    <2>2. CASE \E r \in Results :
                 Returns(call, r) /\ mode' = mode /\ (r = "true" => mode.owner = c)
        BY <1>1, <1>2, <2>2, ReturnsTo, PrivacyAssumption DEF Results
    <2>. QED  BY <1>5, <2>1, <2>2
<1>7. ASSUME NEW d \in Conns, d # c
      PROVE  Connected(d)' /\ Belief(d)'
    BY <1>3, <1>4, <1>6, <1>7, Bystander, PrivacyAssumption DEF MayBelieve
<1>8. Connected(c)' /\ Belief(c)'
    BY <1>3, <1>4, <1>6 DEF Connected, Belief, MayBelieve, OwnerInv, Waits
<1>. QED  BY <1>7, <1>8

(* The host's steps move no connection, until the process ends. *)
LEMMA HostOwner ==
    ASSUME OwnerInv,
           \/ hook_thread_leaves \/ ctrl_p \/ get_capturer \/ check_privacy_mode_changed
           \/ set_options \/ process_exits \/ \E key \in Impls : switch(key)
    PROVE  \A d \in Conns : Connected(d)' /\ Belief(d)'
<1>1. PrivacyTypeOK /\ mode.owner \in Conns \cup {None} /\ None \notin Conns
    BY PrivacyAssumption DEF OwnerInv, MachineInv, PrivacyTypeOK, Modes
<1>2. CASE hook_thread_leaves \/ get_capturer
    BY <1>2, Bystander
    DEF hook_thread_leaves, get_capturer, machine, taskVars, messages, history, MayBelieve
<1>3. CASE ctrl_p
    <2>1. /\ UNCHANGED <<pc, result, shown, outlived, authed>>
          /\ mode'.owner \in {None, mode.owner}
        BY <1>1, <1>3, TurnOffEffect DEF ctrl_p, taskVars, machine
    <2>2. ASSUME NEW d \in Conns, d \in authed, MayBelieve(d)
          PROVE  MayBelieve(d)'
        <3>1. cm'[d] \in {cm[d], cm[d] + 1} /\ cm[d] \in Nat /\ untold \subseteq untold'
            BY <1>1, <1>3 DEF ctrl_p, PrivacyTypeOK
        <3>2. mode.owner = d => mode'.owner = d \/ d \in untold' \/ cm'[d] = cm[d] + 1
            BY <1>1, <1>3, <2>2, TurnOffEffect DEF ctrl_p, On, machine
        <3>. QED  BY <2>1, <2>2, <3>1, <3>2 DEF MayBelieve
    <2>. QED  BY <1>1, <2>1, <2>2, Bystander
<1>4. CASE check_privacy_mode_changed
    <2>1. UNCHANGED <<mode, pc, result, cm, untold, outlived>>
        BY <1>4 DEF check_privacy_mode_changed, machine, taskVars, history
    <2>2. \A d \in Conns : shown'[d] \in {shown[d], "left"}
        BY <1>4 DEF check_privacy_mode_changed, handle_back_msg_privacy_mode
    <2>. QED  BY <2>1, <2>2, Bystander DEF MayBelieve
<1>5. CASE process_exits
    <2>1. /\ mode'.owner = None
          /\ \A d \in Conns : shown'[d] = "left" /\ result'[d] = None
        BY <1>5 DEF process_exits
    <2>. QED  BY <1>1, <2>1, PrivacyAssumption DEF Connected, Belief, Results
<1>6. ASSUME NEW key \in Impls, switch(key)
      PROVE  \A d \in Conns : Connected(d)' /\ Belief(d)'
    <2>1. /\ UNCHANGED <<pc, result, shown, cm, outlived>>
          /\ untold \subseteq untold'
          /\ \/ mode'.owner = mode.owner
             \/ mode'.owner = None /\ (On => mode.owner \in untold')
        <3>1. UNCHANGED <<pc, result, shown, cm, outlived>> /\ untold \subseteq untold'
            BY <1>6 DEF switch, taskVars, messages
        <3>2. CASE UNCHANGED <<machine, left>> \/ ~On
            BY <1>1, <1>6, <3>1, <3>2 DEF switch, machine, Modes, PrivacyTypeOK, On
        <3>3. CASE On /\ key # mode.impl
            BY <1>1, <1>6, <3>1, <3>3, ReplacedType DEF switch
        <3>. QED  BY <1>6, <3>1, <3>2, <3>3 DEF switch
    <2>2. \A d \in Conns : MayBelieve(d) => MayBelieve(d)'
        BY <1>1, <2>1 DEF MayBelieve, On
    <2>. QED  BY <1>1, <2>1, <2>2, Bystander
<1>7. CASE set_options
    <2>1. UNCHANGED <<mode, pc, result, shown, cm, untold, outlived>>
        BY <1>7 DEF set_options, taskVars, messages
    <2>. QED  BY <2>1, Bystander DEF MayBelieve
<1>. QED  BY <1>2, <1>3, <1>4, <1>5, <1>6, <1>7

(* Every step keeps the invariant. *)
LEMMA OwnerStep ==
    ASSUME OwnerInv, [Next]_vars
    PROVE  OwnerInv'
<1>1. MachineInv' /\ CallInv' /\ AuthedInv'
    BY MachineStep, CallStep, AuthedStep DEF OwnerInv, MachineInv
<1>2. CASE UNCHANGED vars
    <2>1. \A d \in Conns : Connected(d)' /\ Belief(d)'
        BY <1>2, Bystander DEF vars, machine, taskVars, messages, history, MayBelieve
    <2>. QED  BY <1>1, <2>1 DEF OwnerInv, OwnerIsConnected, Connected
<1>3. CASE Next
    <2>1. \A d \in Conns : Connected(d)' /\ Belief(d)'
        BY <1>3, TurnOnOwner, SyncOwner, TaskOwner, TaskOffOwner, HostOwner DEF Next, TaskStep
    <2>. QED  BY <1>1, <2>1 DEF OwnerInv, OwnerIsConnected, Connected
<1>. QED  BY <1>2, <1>3

(* Nobody owns the mode at the start. *)
LEMMA OwnerInit == Init => OwnerInv
<1>. SUFFICES ASSUME Init
              PROVE  OwnerInv
    OBVIOUS
<1>1. MachineInv /\ PrivacyTypeOK
    BY MachineInit, TypeInit
<1>2. CallInv
    BY <1>1 DEF Init, CallInv, Pending, Free
<1>3. AuthedInv /\ \A c \in Conns : Belief(c)
    BY PrivacyAssumption DEF Init, AuthedInv, Belief, Results
<1>4. OwnerIsConnected
    BY DEF Init, OwnerIsConnected
<1>. QED  BY <1>1, <1>2, <1>3, <1>4 DEF OwnerInv

(* Privacy mode does not outlast the connection it was turned on for,      *)
(* whoever else turns it on or off meanwhile; the exceptions are the       *)
(* connections that gave up waiting for their thread or whose hook could   *)
(* not be told to leave.                                                   *)
THEOREM OwnerIsConnectedHolds == Spec => []OwnerIsConnected
<1>1. OwnerInv => OwnerIsConnected
    BY DEF OwnerInv
<1>. QED  BY <1>1, OwnerInit, OwnerStep, PTL DEF Spec

(* An idle client that shows privacy mode as on with no news on the way    *)
(* has it on, unless it was ended in one of the ways nobody is told of.    *)
THEOREM BelievedMeansOnHolds == Spec => []BelievedMeansOn
<1>1. ASSUME OwnerInv
      PROVE  BelievedMeansOn
    BY <1>1 DEF OwnerInv, BelievedMeansOn, Belief, MayBelieve
<1>. QED  BY <1>1, OwnerInit, OwnerStep, PTL DEF Spec
=============================================================================
