--------------------------- MODULE Service_proofs ---------------------------
(***************************************************************************)
(* Proofs about Service, for every set of connections and both kinds of    *)
(* service, and about three services that use its table: the clipboard,    *)
(* for every set of texts, the displays, for every set of layouts, and     *)
(* the video, for any number of requests.                                  *)
(***************************************************************************)
EXTENDS ClipboardService, DisplayService, VideoService, TLAPS

(* The server starts with an empty table, which satisfies the invariant. *)
LEMMA InitInv == Init => ServiceInv
  BY DEF Init, ServiceInv, TypeOK, Disjoint, Matches, Subscribed, CallInv, Idle

(* A subscription puts the id in exactly one half and leaves the others.   *)
LEMMA OnSubscribe ==
  ASSUME NEW c \in Conns, TypeOK, Disjoint, on_subscribe(c)
  PROVE  /\ subscribes' \subseteq Conns /\ new_subscribes' \subseteq Conns
         /\ Disjoint'
         /\ Subscribed' = Subscribed \cup {c}
  BY DEF TypeOK, Disjoint, on_subscribe, Subscribed, tableVars

(* An unsubscription takes the id out of both halves: this is where        *)
(* disjointness is needed.                                                 *)
LEMMA OnUnsubscribe ==
  ASSUME NEW c \in Conns, TypeOK, Disjoint, on_unsubscribe(c)
  PROVE  /\ subscribes' \subseteq Conns /\ new_subscribes' \subseteq Conns
         /\ Disjoint'
         /\ Subscribed' = Subscribed \ {c}
  BY DEF TypeOK, Disjoint, on_unsubscribe, Subscribed, tableVars

(* Every step of the server and of the service's thread keeps ServiceInv. *)
LEMMA NextInv == ServiceInv /\ [Next]_vars => ServiceInv'
<1> SUFFICES ASSUME ServiceInv, [Next]_vars PROVE ServiceInv'
  OBVIOUS
<1> USE DEF ServiceInv
<1>1. ASSUME NEW c \in Conns, NEW allowed \in BOOLEAN,
             add_connection(c, allowed),
             raced' = IF allowed THEN raced \ {c} ELSE raced
      PROVE  ServiceInv'
  <2>1. CASE allowed
    <3> USE <1>1, <2>1 DEF add_connection, ServerFree
    <3>1. /\ subscribes' \subseteq Conns /\ new_subscribes' \subseteq Conns
          /\ Disjoint'
          /\ Subscribed' = Subscribed \cup {c}
      BY OnSubscribe
    <3>2. TypeOK'
      BY <3>1 DEF TypeOK, Idle
    <3>3. \A d \in gone' : ~want'[d] /\ d \notin raced'
      BY DEF TypeOK
    <3>4. \A d \in Conns : Matches(d)'
      BY <3>1 DEF TypeOK, Matches
    <3> QED BY <3>1, <3>2, <3>3, <3>4 DEF CallInv
  <2>2. CASE ~allowed
    BY <1>1, <2>2
    DEF add_connection, ServerFree, TypeOK, Matches, CallInv, Idle, Disjoint,
        Subscribed, tableVars
  <2> QED BY <2>1, <2>2
<1>2. ASSUME NEW c \in Conns, remove_connection(c), ClearRaced(c)
      PROVE  ServiceInv'
  BY <1>2, OnUnsubscribe
  DEF remove_connection, ServerFree, ClearRaced, TypeOK, Matches, CallInv, Idle
<1>3. ASSUME NEW c \in Conns, NEW sub \in BOOLEAN,
             is_subed_first_read(c, sub), ClearRaced(c)
      PROVE  ServiceInv'
  <2> USE <1>3 DEF is_subed_first_read, ServerFree, ClearRaced, tableVars
  <2>1. TypeOK' /\ Disjoint'
    BY DEF TypeOK, Disjoint, Calls, Idle
  <2>2. \A d \in gone' : ~want'[d] /\ d \notin raced'
    BY DEF TypeOK
  <2>3. CallInv'
    BY DEF TypeOK, CallInv, Idle
  <2>4. \A d \in Conns : (caller' = Idle \/ d # caller'.conn) => Matches(d)'
    BY DEF TypeOK, Matches, Subscribed, Idle
  <2> QED BY <2>1, <2>2, <2>3, <2>4
<1>4. ASSUME is_subed_second_read, UNCHANGED raced PROVE ServiceInv'
  <2> USE <1>4 DEF is_subed_second_read, tableVars
  <2>0. caller # Idle /\ caller \in Calls
    BY DEF TypeOK, Idle
  <2>1. TypeOK' /\ Disjoint'
    BY <2>0 DEF TypeOK, Disjoint, Calls, Idle
  <2>2. \A d \in gone' : ~want'[d] /\ d \notin raced'
    BY DEF TypeOK
  <2>3. CallInv'
    BY <2>0 DEF TypeOK, CallInv, Idle, Calls, Disjoint
  <2>4. \A d \in Conns : (caller' = Idle \/ d # caller'.conn) => Matches(d)'
    BY <2>0 DEF TypeOK, Matches, Subscribed, Idle, Calls, CallInv
  <2> QED BY <2>1, <2>2, <2>3, <2>4
<1>5. ASSUME subscribe_apply, UNCHANGED raced PROVE ServiceInv'
  <2>0. caller # Idle /\ caller \in Calls
    BY <1>5 DEF subscribe_apply, TypeOK, Idle
  <2>1. caller.conn \in Conns /\ caller.sub \in BOOLEAN
    BY <2>0 DEF Calls
  <2>2. CASE caller.sub
    BY <1>5, <2>0, <2>1, <2>2, OnSubscribe
    DEF subscribe_apply, TypeOK, Matches, CallInv, Idle
  <2>3. CASE ~caller.sub
    BY <1>5, <2>0, <2>1, <2>3, OnUnsubscribe
    DEF subscribe_apply, TypeOK, Matches, CallInv, Idle
  <2> QED BY <2>2, <2>3
<1>6. ASSUME join, UNCHANGED raced PROVE ServiceInv'
  BY <1>6
  DEF join, ServerFree, TypeOK, Matches, CallInv, Idle, Disjoint, Subscribed,
      tableVars
<1>7. ASSUME ThreadSwap PROVE ServiceInv'
  <2> USE <1>7 DEF ThreadSwap, swap_new_subscribes, serverVars
  <2>0. caller \in Calls \/ caller = Idle
    BY DEF TypeOK
  <2>1. Subscribed' = Subscribed /\ TypeOK' /\ Disjoint'
    BY <2>0 DEF TypeOK, Disjoint, Subscribed, Calls, Idle
  <2>2. raced' \subseteq Conns /\ (caller # Idle => caller \in Calls)
    BY <2>0, <2>1 DEF TypeOK
  <2>3. \A d \in gone' : ~want'[d] /\ d \notin raced'
    BY <2>0 DEF TypeOK, CallInv, Idle
  <2>4. CallInv'
    BY <2>0 DEF TypeOK, CallInv, Idle, Calls, Disjoint
  <2>5. \A d \in Conns : (caller' = Idle \/ d # caller'.conn) => Matches(d)'
    BY <2>0, <2>1 DEF TypeOK, Matches, Idle, CallInv
  <2> QED BY <2>1, <2>3, <2>4, <2>5
<1>8. ASSUME UNCHANGED vars PROVE ServiceInv'
  BY <1>8
  DEF vars, tableVars, serverVars, TypeOK, Matches, CallInv, Idle, Disjoint,
      Subscribed
<1> QED
  BY <1>1, <1>2, <1>3, <1>4, <1>5, <1>6, <1>7, <1>8 DEF Next, ServerStep

(* ServiceInv holds in every reachable state. *)
THEOREM Invariance == Spec => []ServiceInv
<1> QED BY InitInv, NextInv, PTL DEF Spec

(* A removed connection is never subscribed again. *)
THEOREM RemovedStaysOutHolds == Spec => []RemovedStaysOut
<1>1. ServiceInv => RemovedStaysOut
  BY DEF ServiceInv, CallInv, TypeOK, Matches, RemovedStaysOut
<1> QED BY <1>1, Invariance, PTL

(* Between calls the table is what was asked for, up to the lost           *)
(* unsubscriptions that raced names.                                       *)
THEOREM TableMatchesRequestsHolds == Spec => []TableMatchesRequests
<1>1. ServiceInv => TableMatchesRequests
  BY DEF ServiceInv, TableMatchesRequests
<1> QED BY <1>1, Invariance, PTL

-----------------------------------------------------------------------------
(* The clipboard service.                                                  *)

(* What a step of the Server does to the table: the invariant of Service,  *)
(* and since the service takes snapshots nobody enters subscribes.         *)
LEMMA ServerStepTable ==
  ASSUME ServiceInv, ServerStep
  PROVE  ServiceInv' /\ subscribes' \subseteq subscribes
<1>1. ServiceInv'
  BY NextInv DEF Next
<1>2. ASSUME NEW c \in Conns, on_subscribe(c) PROVE subscribes' \subseteq subscribes
  BY <1>2, ClipboardNeedsSnapshot DEF on_subscribe, tableVars
<1>3. ASSUME NEW c \in Conns, on_unsubscribe(c) PROVE subscribes' \subseteq subscribes
  BY <1>3 DEF on_unsubscribe, tableVars
<1>4. ASSUME NEW c \in Conns, NEW allowed \in BOOLEAN, add_connection(c, allowed)
      PROVE  subscribes' \subseteq subscribes
  BY <1>4, <1>2 DEF add_connection, tableVars
<1>5. ASSUME subscribe_apply PROVE subscribes' \subseteq subscribes
  <2>1. caller.conn \in Conns
    BY <1>5 DEF subscribe_apply, ServiceInv, TypeOK, Calls, Idle
  <2> QED BY <1>5, <2>1, <1>2, <1>3 DEF subscribe_apply
<1> QED
  BY <1>1, <1>3, <1>4, <1>5
  DEF ServerStep, remove_connection, is_subed_first_read,
      is_subed_second_read, join, tableVars

(* The swap keeps the invariant of Service and empties the new half. *)
LEMMA SwapTable ==
  ASSUME ServiceInv, ThreadSwap
  PROVE  ServiceInv' /\ subscribes' = subscribes \cup new_subscribes
  BY NextInv DEF Next, ThreadSwap, swap_new_subscribes

(* A step that leaves the table alone keeps its invariant. *)
LEMMA KeepTable ==
  ASSUME ServiceInv, UNCHANGED vars
  PROVE  /\ ServiceInv'
         /\ subscribes' = subscribes /\ new_subscribes' = new_subscribes
  BY NextInv DEF vars, tableVars

(* The invariant holds at the start. *)
LEMMA ClipboardInitInv == ClipboardInit => ClipboardInv
<1> SUFFICES ASSUME ClipboardInit PROVE ClipboardInv
  OBVIOUS
<1>1. ServiceInv
  BY InitInv DEF ClipboardInit
<1>2. /\ edits \in 0..MaxEdits
      /\ setting \in [Conns -> Content]
      /\ sent \in [Conns -> Content]
  BY MaxEditsAssumption DEF ClipboardInit, Content
<1>3. ClipboardTypeOK
  BY <1>1, <1>2 DEF ClipboardInit, ClipboardTypeOK, ServiceInv, Content, ClipThreadSteps
<1> QED BY <1>1, <1>3 DEF ClipboardInit, ClipboardInv

(* Each step of the thread keeps the invariant. *)
LEMMA ClipboardThreadInv == ClipboardInv /\ ClipThreadStep => ClipboardInv'
<1> SUFFICES ASSUME ClipboardInv, ClipThreadStep PROVE ClipboardInv'
  OBVIOUS
<1> USE DEF ClipboardInv, clipVars, ClipGoto, Have
<1>a. ServiceInv /\ (ServiceInv' => TypeOK')
  BY DEF ServiceInv
<1>b. subscribes \subseteq Conns /\ new_subscribes \subseteq Conns
  BY DEF ClipboardTypeOK, TypeOK
<1>1. CASE repeat_top \/ check_get_text_fails \/ check_compare \/ run_snapshot
  BY <1>a, <1>1, KeepTable
  DEF repeat_top, check_get_text_fails, check_compare, run_snapshot,
      ClipboardTypeOK, ClipThreadSteps
<1>2. CASE repeat_has_subscribes
  BY <1>a, <1>2, KeepTable
  DEF repeat_has_subscribes, ClipboardTypeOK, ClipThreadSteps, Content
<1>3. CASE check_get_text
  BY <1>a, <1>3, KeepTable DEF check_get_text, ClipboardTypeOK, ClipThreadSteps
<1>4. CASE check_set
  BY <1>a, <1>4, KeepTable DEF check_set, ClipboardTypeOK, ClipThreadSteps
<1>5. CASE run_send
  BY <1>a, <1>b, <1>5, KeepTable DEF run_send, Deliver, ClipboardTypeOK, ClipThreadSteps
<1>6. CASE snapshot_clone
  BY <1>a, <1>6, KeepTable DEF snapshot_clone, ClipboardTypeOK, ClipThreadSteps
<1>7. CASE snapshot_send
  BY <1>a, <1>b, <1>7, KeepTable
  DEF snapshot_send, Deliver, ClipboardTypeOK, ClipThreadSteps
<1>8. CASE clipboard_snapshot_swap
  BY <1>a, <1>8, SwapTable DEF clipboard_snapshot_swap, ClipboardTypeOK, ClipThreadSteps
<1> QED
  BY <1>1, <1>2, <1>3, <1>4, <1>5, <1>6, <1>7, <1>8 DEF ClipThreadStep

(* Every step keeps the invariant. *)
LEMMA ClipboardNextInv ==
  ClipboardInv /\ [ClipboardNext]_clipboardVars => ClipboardInv'
<1> SUFFICES ASSUME ClipboardInv, [ClipboardNext]_clipboardVars
             PROVE  ClipboardInv'
  OBVIOUS
<1> USE DEF ClipboardInv, threadVars, Have
<1>a. ServiceInv /\ (ServiceInv' => TypeOK')
  BY DEF ServiceInv
<1>1. CASE ClipThreadStep
  BY <1>1, ClipboardThreadInv
<1>2. ASSUME NEW t \in Texts, LocalCopy(t) PROVE ClipboardInv'
  BY <1>a, <1>2, KeepTable, MaxEditsAssumption
  DEF LocalCopy, ClipboardTypeOK, Content
<1>3. ASSUME NEW c \in Conns, NEW t \in Texts, update_content(c, t)
      PROVE  ClipboardInv'
  BY <1>a, <1>3, KeepTable, MaxEditsAssumption
  DEF update_content, ClipboardTypeOK, Content
<1>4. ASSUME NEW c \in Conns, update_set_text(c) PROVE ClipboardInv'
  BY <1>a, <1>4, KeepTable DEF update_set_text, ClipboardTypeOK, Content
<1>5. CASE ServerOp
  BY <1>a, <1>5, ServerStepTable
  DEF ServerOp, ClipboardTypeOK, clipVars, TypeOK
<1>6. CASE UNCHANGED clipboardVars
  BY <1>a, <1>6, KeepTable DEF clipboardVars, clipVars, ClipboardTypeOK
<1> QED
  BY <1>1, <1>2, <1>3, <1>4, <1>5, <1>6 DEF ClipboardNext

(* After each round every subscriber outside the snapshot gap has been     *)
(* sent the host's text.                                                   *)
THEOREM SubscribersAreCurrentHolds == ClipboardSpec => []SubscribersAreCurrent
<1>1. ClipboardInv => SubscribersAreCurrent
  BY DEF ClipboardInv, SubscribersAreCurrent, Have
<1> QED
  BY <1>1, ClipboardInitInv, ClipboardNextInv, PTL DEF ClipboardSpec

-----------------------------------------------------------------------------
(* Whoever makes the host the author of CONTENT is the thread, and before  *)
(* it is back at the top of its loop may_reset is set.                     *)
LEMMA ForgottenStep ==
  ASSUME ForgottenWhenUnused, [ClipboardNext]_clipboardVars
  PROVE  ForgottenWhenUnused'
<1> USE DEF ForgottenWhenUnused
<1>1. CASE ClipThreadStep
  BY <1>1
  DEF ClipThreadStep, repeat_top, repeat_has_subscribes, check_get_text,
      check_get_text_fails, check_compare, check_set, run_send, run_snapshot,
      snapshot_clone, snapshot_send, clipboard_snapshot_swap, ClipGoto, clipVars
<1>2. ASSUME NEW t \in Texts, LocalCopy(t) PROVE ForgottenWhenUnused'
  BY <1>2 DEF LocalCopy, threadVars
<1>3. ASSUME NEW c \in Conns, NEW t \in Texts, update_content(c, t)
      PROVE  ForgottenWhenUnused'
  BY <1>3 DEF update_content
<1>4. ASSUME NEW c \in Conns, update_set_text(c) PROVE ForgottenWhenUnused'
  BY <1>4 DEF update_set_text, threadVars
<1>5. CASE ServerOp
  BY <1>5 DEF ServerOp, threadVars, clipVars
<1>6. CASE UNCHANGED clipboardVars
  BY <1>6 DEF clipboardVars, threadVars, clipVars
<1> QED
  BY <1>1, <1>2, <1>3, <1>4, <1>5, <1>6 DEF ClipboardNext

(* Whatever the users, the peers and the Server do meanwhile: once the     *)
(* thread has noticed that nobody is subscribed, CONTENT holds nothing of  *)
(* the host's that a later subscriber could be sent.                       *)
THEOREM ForgottenWhenUnusedHolds == ClipboardSpec => []ForgottenWhenUnused
<1>1. ClipboardInit => ForgottenWhenUnused
  BY DEF ClipboardInit, ForgottenWhenUnused
<1> QED
  BY <1>1, ForgottenStep, PTL DEF ClipboardSpec

(* A step of the clipboard service is a step of Service or leaves the      *)
(* table, its server and its history alone.                                *)
LEMMA ClipboardStepIsServiceStep ==
  ASSUME [ClipboardNext]_clipboardVars
  PROVE  [Next]_vars
<1>1. CASE ClipThreadStep
  BY <1>1
  DEF ClipThreadStep, repeat_top, repeat_has_subscribes, check_get_text,
      check_get_text_fails, check_compare, check_set, run_send, run_snapshot,
      snapshot_clone, snapshot_send, clipboard_snapshot_swap, Next
<1>2. CASE ServerOp
  BY <1>2 DEF ServerOp, Next
<1> QED
  BY <1>1, <1>2
  DEF ClipboardNext, LocalCopy, update_content, update_set_text, clipboardVars

(* The clipboard service implements Service: its thread moves the new      *)
(* subscribers over by Service's swap only, after the snapshot.            *)
THEOREM ClipboardUsesTheTable == ClipboardSpec => Spec
<1>1. ClipboardInit => Init
  BY DEF ClipboardInit
<1> QED
  BY <1>1, ClipboardStepIsServiceStep, PTL DEF ClipboardSpec, Spec

(* So a connection that was removed is in neither half of the table of the *)
(* clipboard service, and between calls the table is what was asked for.   *)
THEOREM ClipboardTableIsRight ==
  ClipboardSpec => [](RemovedStaysOut /\ TableMatchesRequests)
<1> QED
  BY ClipboardUsesTheTable, RemovedStaysOutHolds, TableMatchesRequestsHolds, PTL

-----------------------------------------------------------------------------
(* The display service, for every set of connections and layouts.         *)

(* Every step of the table's module keeps its type. *)
LEMMA DisplayJoinTable ==
  ASSUME NEW c \in Conns, TypeOK, add_connection(c, TRUE), ClearRaced(c)
  PROVE  TypeOK' /\ Subscribed' \subseteq Subscribed \cup {c}
<1> USE DEF TypeOK, add_connection, ServerFree, ClearRaced
<1>1. on_subscribe(c) /\ want' = [want EXCEPT ![c] = TRUE]
  OBVIOUS
<1>2. /\ subscribes' \subseteq subscribes \cup {c}
      /\ new_subscribes' \subseteq new_subscribes \cup {c}
  BY <1>1 DEF on_subscribe, tableVars
<1>3. want' \in [Conns -> BOOLEAN]
  BY <1>1
<1> QED BY <1>2, <1>3 DEF Subscribed

(* Removing a connection only takes out subscribers. *)
LEMMA DisplayLeaveTable ==
  ASSUME NEW c \in Conns, TypeOK, remove_connection(c), ClearRaced(c)
  PROVE  TypeOK' /\ Subscribed' \subseteq Subscribed
  BY DEF TypeOK, remove_connection, ServerFree, on_unsubscribe, tableVars,
         ClearRaced, Subscribed

(* The swap moves the newcomers over and loses nobody. *)
LEMMA DisplaySwapTable ==
  ASSUME TypeOK, ThreadSwap
  PROVE  TypeOK' /\ Subscribed' = Subscribed
  BY DEF TypeOK, ThreadSwap, swap_new_subscribes, serverVars, Subscribed,
         Calls, Idle

(* A step that leaves the table alone keeps its types and its subscribers. *)
LEMMA DisplayKeepTable ==
  ASSUME TypeOK, UNCHANGED vars
  PROVE  TypeOK' /\ Subscribed' = Subscribed /\ subscribes' = subscribes
  BY DEF TypeOK, vars, tableVars, serverVars, Subscribed

(* The invariant holds at the start. *)
LEMMA DisplayInitInv == DisplayInit => DisplayInv
<1> SUFFICES ASSUME DisplayInit PROVE DisplayInv
  OBVIOUS
<1>1. TypeOK /\ Subscribed = {}
  BY DEF DisplayInit, Init, TypeOK, Subscribed, Idle
<1>a. changes \in 0..MaxChanges
  BY DisplaysAssumption DEF DisplayInit
<1>b. /\ login \in [Conns -> {"no", "read", "checked", "in"}]
      /\ lgot \in [Conns -> Layouts]
      /\ known \in [Conns -> Layouts]
  BY DEF DisplayInit, Layouts
<1>2. DisplayTypeOK
  BY <1>1, <1>a, <1>b DEF DisplayInit, DisplayTypeOK, Layouts, DisplayThreadSteps
<1> QED BY <1>1, <1>2 DEF DisplayInit, DisplayInv

(* Each step of the thread keeps the invariant. *)
LEMMA DisplayThreadInv == DisplayInv /\ DisplayThreadStep => DisplayInv'
<1> SUFFICES ASSUME DisplayInv, DisplayThreadStep PROVE DisplayInv'
  OBVIOUS
<1> USE DEF DisplayInv, Others, syncVars, loginVars, DisplayGoto
<1>a. TypeOK
  BY DEF DisplayTypeOK
<1>b. Subscribed \subseteq Conns /\ subscribes \subseteq Subscribed
  BY <1>a DEF TypeOK, Subscribed
<1>1. CASE display_run_top \/ display_run_has_subscribes \/ display_callback_ok \/ callback_snapshot
           \/ display_snapshot_has_subscribes \/ get_displays_fails
  BY <1>a, <1>1, DisplayKeepTable
  DEF display_run_top, display_run_has_subscribes, display_callback_ok, callback_snapshot,
      display_snapshot_has_subscribes, get_displays_fails, DisplayTypeOK, DisplayThreadSteps
<1>2. CASE snapshot_unsync
  BY <1>a, <1>2, DisplayKeepTable DEF snapshot_unsync, DisplayTypeOK, DisplayThreadSteps
<1>3. CASE display_snapshot_swap
  BY <1>a, <1>3, DisplaySwapTable DEF display_snapshot_swap, DisplayTypeOK, DisplayThreadSteps
<1>4. CASE get_displays
  BY <1>a, <1>4, DisplayKeepTable DEF get_displays, DisplayTypeOK, DisplayThreadSteps, Layouts
<1>5. CASE check_update_displays
  BY <1>a, <1>5, DisplayKeepTable
  DEF check_update_displays, check_changed, DisplayTypeOK, DisplayThreadSteps
<1>6. CASE get_update_sync_displays
  BY <1>a, <1>6, DisplayKeepTable
  DEF get_update_sync_displays, DisplayTypeOK, DisplayThreadSteps
<1>7. CASE send_displays
  BY <1>a, <1>b, <1>7, DisplayKeepTable DEF send_displays, DisplayTypeOK, DisplayThreadSteps
<1> QED
  BY <1>1, <1>2, <1>3, <1>4, <1>5, <1>6, <1>7 DEF DisplayThreadStep

(* Every step of the service keeps the invariant. *)
LEMMA DisplayNextInv == DisplayInv /\ [DisplayNext]_displayVars => DisplayInv'
<1> SUFFICES ASSUME DisplayInv, [DisplayNext]_displayVars PROVE DisplayInv'
  OBVIOUS
<1> USE DEF DisplayInv, syncVars, loginVars
<1>a. TypeOK
  BY DEF DisplayTypeOK
<1>b. Subscribed \subseteq Conns
  BY <1>a DEF TypeOK, Subscribed
<1>1. CASE DisplayThreadStep
  BY <1>1, DisplayThreadInv
<1>2. ASSUME NEW ds \in Displays, LayoutChange(ds) PROVE DisplayInv'
  BY <1>a, <1>2, DisplayKeepTable, DisplaysAssumption DEF LayoutChange, DisplayTypeOK
<1>3. CASE video_get_displays
  BY <1>a, <1>3, DisplayKeepTable DEF video_get_displays, DisplayTypeOK, Layouts
<1>4. CASE video_check_displays
  BY <1>a, <1>4, DisplayKeepTable
  DEF video_check_displays, check_changed, DisplayTypeOK, Layouts
<1>5. ASSUME NEW c \in Conns, login_get_displays(c) PROVE DisplayInv'
  BY <1>a, <1>b, <1>5, DisplayKeepTable DEF login_get_displays, DisplayTypeOK, Layouts
<1>6. ASSUME NEW c \in Conns, login_check_displays(c) PROVE DisplayInv'
  BY <1>a, <1>b, <1>6, DisplayKeepTable
  DEF login_check_displays, check_changed, DisplayTypeOK, Layouts
<1>7. ASSUME NEW c \in Conns, login_response(c) PROVE DisplayInv'
  BY <1>a, <1>b, <1>7, DisplayKeepTable DEF login_response, DisplayTypeOK
<1>8. ASSUME NEW c \in Conns, display_join_service(c) PROVE DisplayInv'
  BY <1>a, <1>b, <1>8, DisplayJoinTable DEF display_join_service, DisplayTypeOK
<1>9. ASSUME NEW c \in Conns, display_leave_service(c) PROVE DisplayInv'
  BY <1>a, <1>b, <1>9, DisplayLeaveTable DEF display_leave_service, DisplayTypeOK
<1>10. CASE display_shut_down
  BY <1>a, <1>10
  DEF display_shut_down, join, ServerFree, DisplayTypeOK, TypeOK, Subscribed, tableVars
<1>11. CASE UNCHANGED displayVars
  BY <1>a, <1>11, DisplayKeepTable DEF displayVars, DisplayTypeOK
<1> QED
  BY <1>1, <1>2, <1>3, <1>4, <1>5, <1>6, <1>7, <1>8, <1>9, <1>10, <1>11
  DEF DisplayNext

(* While is_synced is set the subscribers know the displays, except those  *)
(* that were not subscribed yet when the others were told.                 *)
THEOREM SyncedMeansKnownHolds == DisplaySpec => []SyncedMeansKnown
<1>1. DisplayInv => SyncedMeansKnown
  BY DEF DisplayInv, SyncedMeansKnown, DisplayTypeOK, TypeOK, Subscribed
<1> QED
  BY <1>1, DisplayInitInv, DisplayNextInv, PTL DEF DisplaySpec

(* Each step of the display service is one of Service's or leaves the      *)
(* table, its server and its history alone.                                *)
LEMMA DisplayStepIsServiceStep ==
  ASSUME [DisplayNext]_displayVars
  PROVE  [Next]_vars
<1>1. CASE DisplayThreadStep
  BY <1>1
  DEF DisplayThreadStep, display_run_top, display_run_has_subscribes, display_callback_ok,
      callback_snapshot, display_snapshot_has_subscribes, snapshot_unsync,
      display_snapshot_swap, get_displays, get_displays_fails, check_update_displays, get_update_sync_displays,
      send_displays, Next
<1>2. ASSUME NEW c \in Conns, display_join_service(c) \/ display_leave_service(c)
      PROVE  [Next]_vars
  <2>1. TRUE \in BOOLEAN
    OBVIOUS
  <2>2. CASE display_join_service(c)
    <3>1. add_connection(c, TRUE) /\ raced' = raced \ {c}
      BY <2>2 DEF display_join_service, ClearRaced
    <3>2. raced' = IF TRUE THEN raced \ {c} ELSE raced
      BY <3>1
    <3> QED  BY <2>1, <3>1, <3>2 DEF Next, ServerStep
  <2>3. CASE display_leave_service(c)
    BY <2>3 DEF display_leave_service, Next, ServerStep
  <2> QED  BY <1>2, <2>2, <2>3
<1>3. CASE display_shut_down
  BY <1>3 DEF display_shut_down, Next, ServerStep
<1> QED
  BY <1>1, <1>2, <1>3
  DEF DisplayNext, LayoutChange, video_get_displays, video_check_displays,
      login_get_displays, login_check_displays, login_response, displayVars

(* The display service implements Service, whose theorems hold of it: in   *)
(* particular a connection that has left is never sent another layout.     *)
THEOREM DisplayUsesTheTable == DisplaySpec => Spec
<1>1. DisplayInit => Init
  BY DEF DisplayInit
<1> QED
  BY <1>1, DisplayStepIsServiceStep, PTL DEF DisplaySpec, Spec

-----------------------------------------------------------------------------
(* The video service.                                                      *)

(* What the operations do to the table: only the thread's swap adds to     *)
(* subscribes, since a service with snapshots takes newcomers elsewhere.   *)
LEMMA VideoJoinTable ==
  ASSUME NEW c \in Conns, TypeOK, add_connection(c, TRUE), ClearRaced(c)
  PROVE  TypeOK' /\ subscribes' = subscribes
<1> USE DEF TypeOK, add_connection, ServerFree, ClearRaced
<1>1. on_subscribe(c) /\ want' = [want EXCEPT ![c] = TRUE]
  OBVIOUS
<1>2. subscribes' = subscribes /\ new_subscribes' \subseteq new_subscribes \cup {c}
  BY <1>1, VideoNeedsSnapshot DEF on_subscribe, tableVars
<1>3. want' \in [Conns -> BOOLEAN]
  BY <1>1
<1> QED BY <1>2, <1>3

(* Removing a connection only takes out subscribers. *)
LEMMA VideoLeaveTable ==
  ASSUME NEW c \in Conns, TypeOK, remove_connection(c), ClearRaced(c)
  PROVE  TypeOK' /\ subscribes' \subseteq subscribes
  BY DEF TypeOK, remove_connection, ServerFree, on_unsubscribe, tableVars, ClearRaced

(* A call that begins changes neither half of the table. *)
LEMMA VideoCallTable ==
  ASSUME NEW c \in Conns, NEW sub \in BOOLEAN, TypeOK,
         is_subed_first_read(c, sub), ClearRaced(c)
  PROVE  TypeOK' /\ subscribes' = subscribes
  BY DEF TypeOK, is_subed_first_read, ServerFree, tableVars, ClearRaced, Calls, Idle

(* The rest of a call adds nobody to the subscribers, only to the newcomers. *)
LEMMA VideoApplyTable ==
  ASSUME TypeOK, UNCHANGED raced, is_subed_second_read \/ subscribe_apply
  PROVE  /\ TypeOK' /\ subscribes' \subseteq subscribes
         /\ caller.conn \in Conns
<1>1. caller \in Calls
  BY DEF TypeOK, Idle, is_subed_second_read, subscribe_apply
<1>2. CASE is_subed_second_read
  BY <1>1, <1>2 DEF TypeOK, is_subed_second_read, tableVars, Calls
<1>3. CASE subscribe_apply
  BY <1>1, <1>3, VideoNeedsSnapshot
  DEF TypeOK, subscribe_apply, on_subscribe, on_unsubscribe, tableVars, Calls
<1> QED BY <1>2, <1>3

(* The swap adds exactly the newcomers to the subscribers. *)
LEMMA VideoSwapTable ==
  ASSUME TypeOK, ThreadSwap
  PROVE  TypeOK' /\ subscribes' = subscribes \cup new_subscribes
  BY DEF TypeOK, ThreadSwap, swap_new_subscribes, serverVars, Calls, Idle

(* A step that leaves the table alone keeps its types and its subscribers. *)
LEMMA VideoKeepTable ==
  ASSUME TypeOK, UNCHANGED vars
  PROVE  TypeOK' /\ subscribes' = subscribes
  BY DEF TypeOK, vars, tableVars, serverVars

(* The invariant holds at the start. *)
LEMMA VideoInitInv == VideoInit => VideoInv
<1> SUFFICES ASSUME VideoInit PROVE VideoInv
  OBVIOUS
<1>1. TypeOK
  BY DEF VideoInit, Init, TypeOK, Idle
<1>2. requests \in 0..MaxRequests
  BY RequestsAssumption DEF VideoInit
<1> QED
  BY <1>1, <1>2 DEF VideoInit, VideoInv, VideoTypeOK, ThreadSteps, InLoop

(* Each step of the thread keeps the invariant.  A new encoder makes the   *)
(* third conjunct trivial, the swap without a switch relies on the second. *)
LEMMA VideoThreadInv == VideoInv /\ ThreadStep => VideoInv'
<1> SUFFICES ASSUME VideoInv, ThreadStep PROVE VideoInv'
  OBVIOUS
<1> USE DEF VideoInv, VideoTypeOK, frameVars, Goto, ThreadSteps, InLoop
<1>a. TypeOK /\ subscribes \subseteq Conns /\ new_subscribes \subseteq Conns
  BY DEF TypeOK
<1>1. CASE run_top \/ run_has_subscribes \/ setup_fails
  BY <1>a, <1>1, VideoKeepTable DEF run_top, run_has_subscribes, setup_fails
<1>2. CASE setup_encoder \/ clear_refresh
  BY <1>a, <1>2, VideoKeepTable DEF setup_encoder, clear_refresh
<1>3. CASE callback_ok \/ check_settings \/ try_broadcast_display_changed
  BY <1>a, <1>3, VideoKeepTable DEF callback_ok, check_settings, try_broadcast_display_changed
<1>4. CASE capture_frame \/ capture_would_block \/ capture_fails
  BY <1>a, <1>4, VideoKeepTable DEF capture_frame, capture_would_block, capture_fails
<1>5. CASE frame_snapshot \/ snapshot_has_subscribes
  BY <1>a, <1>5, VideoKeepTable DEF frame_snapshot, snapshot_has_subscribes
<1>6. CASE snapshot_swap
  BY <1>a, <1>6, VideoSwapTable DEF snapshot_swap
<1>7. CASE encode_ok \/ encode_fails \/ wait_ends
  BY <1>a, <1>7, VideoKeepTable DEF encode_ok, encode_fails, wait_ends
<1>8. CASE send_video_frame
  BY <1>a, <1>8, VideoKeepTable DEF send_video_frame
<1> QED
  BY <1>1, <1>2, <1>3, <1>4, <1>5, <1>6, <1>7, <1>8 DEF ThreadStep

(* Every step keeps the invariant: the connections only shrink subscribes. *)
LEMMA VideoNextInv == VideoInv /\ [VideoNext]_videoVars => VideoInv'
<1> SUFFICES ASSUME VideoInv, [VideoNext]_videoVars PROVE VideoInv'
  OBVIOUS
<1> USE DEF VideoInv, VideoTypeOK, frameVars
<1>a. TypeOK
  OBVIOUS
<1>b. Request => requests' \in 0..MaxRequests
  BY RequestsAssumption DEF Request
<1>1. CASE ThreadStep
  BY <1>1, VideoThreadInv
<1>2. ASSUME NEW x \in Settings, change_settings(x) PROVE VideoInv'
  BY <1>a, <1>b, <1>2, VideoKeepTable DEF change_settings
<1>3. ASSUME NEW c \in Conns, refresh_video_display(c) PROVE VideoInv'
  BY <1>a, <1>b, <1>3, VideoKeepTable DEF refresh_video_display
<1>4. ASSUME NEW c \in Conns, join_service(c) PROVE VideoInv'
  BY <1>a, <1>4, VideoJoinTable DEF join_service
<1>5. ASSUME NEW c \in Conns, leave_service(c) PROVE VideoInv'
  BY <1>a, <1>5, VideoLeaveTable DEF leave_service, Leave
<1>6. ASSUME NEW c \in Conns, NEW sub \in BOOLEAN, capture_displays(c, sub)
      PROVE  VideoInv'
  BY <1>a, <1>b, <1>6, VideoCallTable DEF capture_displays
<1>7. CASE capture_displays_goes_on
  BY <1>a, <1>7, VideoApplyTable DEF capture_displays_goes_on
<1>8. CASE capture_displays_applies
  BY <1>a, <1>8, VideoApplyTable DEF capture_displays_applies, Leave
<1>9. CASE shut_down
  BY <1>a, <1>9 DEF shut_down, join, ServerFree, TypeOK, tableVars
<1>10. CASE UNCHANGED videoVars
  BY <1>a, <1>10, VideoKeepTable DEF videoVars
<1> QED
  BY <1>1, <1>2, <1>3, <1>4, <1>5, <1>6, <1>7, <1>8, <1>9, <1>10 DEF VideoNext

(* Only who was moved over while nobody was watching is ever sent a frame  *)
(* it cannot decode.                                                       *)
THEOREM StartsWithKeyFrameHolds == VideoSpec => []StartsWithKeyFrame
<1>1. VideoInv => StartsWithKeyFrame
  BY DEF VideoInv, StartsWithKeyFrame
<1> QED
  BY <1>1, VideoInitInv, VideoNextInv, PTL DEF VideoSpec

-----------------------------------------------------------------------------
(* Each step of the video service is a step of the table or leaves it.     *)
LEMMA VideoStepIsTableStep == [VideoNext]_videoVars => [Next]_vars
<1> SUFFICES ASSUME VideoNext PROVE [Next]_vars
  BY DEF videoVars
<1>1. ThreadStep => [Next]_vars
  BY DEF ThreadStep, run_top, run_has_subscribes, setup_encoder, setup_fails,
         clear_refresh, callback_ok, check_settings, try_broadcast_display_changed,
         capture_frame, capture_would_block, capture_fails, frame_snapshot,
         snapshot_has_subscribes, snapshot_swap, encode_ok, encode_fails,
         send_video_frame, wait_ends, Next
<1>2. ASSUME NEW c \in Conns,
             \/ join_service(c) \/ leave_service(c)
             \/ \E sub \in BOOLEAN : capture_displays(c, sub)
      PROVE  Next
  BY <1>2 DEF join_service, leave_service, capture_displays, ClearRaced, Next, ServerStep
<1>3. (capture_displays_goes_on \/ capture_displays_applies \/ shut_down) => Next
  BY DEF capture_displays_goes_on, capture_displays_applies, shut_down, Next, ServerStep
<1>4. ((\E x \in Settings : change_settings(x)) \/ \E c \in Conns : refresh_video_display(c)) => UNCHANGED vars
  BY DEF change_settings, refresh_video_display
<1> QED BY <1>1, <1>2, <1>3, <1>4 DEF VideoNext

(* The video service implements the table: every behaviour of the thread   *)
(* and the connections is one of Service, whose theorems hold of it.       *)
THEOREM VideoUsesTheTable == VideoSpec => UsesTheTable
<1>1. VideoInit => Init
  BY DEF VideoInit
<1> QED
  BY <1>1, VideoStepIsTableStep, PTL DEF VideoSpec, UsesTheTable, Spec
=============================================================================
