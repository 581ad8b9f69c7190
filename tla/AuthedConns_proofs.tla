------------------------- MODULE AuthedConns_proofs -------------------------
(***************************************************************************)
(* For any finite set of connections and any displays and resolutions: the *)
(* wallpaper is back after the last remote connection, the original        *)
(* resolution of a changed display stays on record, and the wake lock is   *)
(* the one for the connections there are.                                  *)
(***************************************************************************)
EXTENDS AuthedConns, FiniteSetTheorems, TLAPS

(* What the connections count are natural numbers. *)
LEMMA CountsAreNumbers ==
    ASSUME TypeOK
    PROVE  Cardinality(authed) \in Nat /\ Cardinality(authed \cap Remote) \in Nat
<1>1. IsFiniteSet(Conns)
    BY ConnAssumption DEF Conns
<1>2. IsFiniteSet(authed) /\ IsFiniteSet(authed \cap Remote)
    BY <1>1, FS_Subset DEF TypeOK
<1>. QED  BY <1>2, FS_CardinalityType

(* A message leaves the wake-lock thread with values of its types. *)
LEMMA ThreadTypes ==
    ASSUME NEW m, TypeOK, drop_wakelock(m) \/ new_wakelock(m) \/ keep_wakelock(m)
    PROVE  /\ wakelock' \in {"none", "empty", "system", "display"}
           /\ last_display' \in BOOLEAN /\ refused' \in BOOLEAN
<1>1. last_display \in BOOLEAN /\ refused \in BOOLEAN
    BY DEF TypeOK
<1>2. last_display' \in BOOLEAN
    BY <1>1, Zenon DEF drop_wakelock, new_wakelock, keep_wakelock
<1>3. \A d : get_wakelock(d) \/ set_display(d) =>
              /\ wakelock' \in {"none", "empty", "system", "display"}
              /\ refused' \in BOOLEAN
    BY DEF TypeOK, get_wakelock, set_display
<1>4. CASE drop_wakelock(m)
    <2>1. wakelock' = "none" /\ refused' = FALSE
        BY <1>4 DEF drop_wakelock
    <2>. QED  BY <1>2, <2>1, Zenon
<1>5. CASE new_wakelock(m)
    BY <1>2, <1>3, <1>5, Zenon DEF new_wakelock
<1>6. CASE keep_wakelock(m)
    <2>1. set_display(last_display') \/ UNCHANGED <<wakelock, refused>>
        BY <1>6, Zenon DEF keep_wakelock
    <2>2. CASE set_display(last_display')
        BY <1>2, <1>3, <2>2, Zenon
    <2>3. CASE UNCHANGED <<wakelock, refused>>
        BY <1>2, <2>3 DEF TypeOK
    <2>. QED  BY <2>1, <2>2, <2>3
<1>. QED  BY <1>4, <1>5, <1>6

(* Every step keeps the types. *)
LEMMA TypeStep ==
    ASSUME TypeOK, [Next]_vars
    PROVE  TypeOK'
<1>. USE DEF TypeOK, wallVars, wakeVars, lockVars, Goto, Steps
<1>0. Cardinality(authed) \in Nat /\ Cardinality(authed \cap Remote) \in Nat
    BY CountsAreNumbers
<1>1. ASSUME NEW c \in Conns, NEW from, NEW to \in Steps,
             \/ read_conn_count(c, from, to)
             \/ read_remote_count(c, from, to)
             \/ send_counts(c, from, to)
      PROVE  TypeOK'
    <2>1. CASE read_conn_count(c, from, to)
        BY <1>0, <2>1 DEF read_conn_count
    <2>2. CASE read_remote_count(c, from, to)
        BY <1>0, <2>2 DEF read_remote_count
    <2>3. CASE send_counts(c, from, to)
        BY <2>3 DEF send_counts, ForgetCounts
    <2>. QED  BY <1>1, <2>1, <2>2, <2>3
<1>2. ASSUME NEW c \in Conns, push(c) \/ on_remote_authorized(c)
      PROVE  TypeOK'
    BY <1>2 DEF push, on_remote_authorized
<1>3. ASSUME NEW c \in Conns,
             retain(c) \/ drop_remote_count(c) \/ drop_wallpaper(c)
      PROVE  TypeOK'
    BY <1>3 DEF retain, drop_remote_count, drop_wallpaper
<1>4. ASSUME NEW c \in Conns, reset_resolutions(c) \/ clear_resolutions(c)
      PROVE  TypeOK'
    BY <1>4 DEF reset_resolutions, clear_resolutions, AllResolutions
<1>5. ASSUME NEW c \in Remote, NEW s \in Screens, NEW r \in Resolutions,
             try_get_displays(c, s, r)
      PROVE  TypeOK'
    BY <1>5 DEF try_get_displays, Changes, AllResolutions, Conns
<1>6. ASSUME NEW c \in Conns, set_last_changed_resolution(c)
      PROVE  TypeOK'
    <2>1. changing[c] \in Changes
        BY <1>6 DEF set_last_changed_resolution
    <2>2. changed' \in [Screens -> AllResolutions \cup {NoRecord}]
        BY <1>6, <2>1 DEF set_last_changed_resolution, original_of, Changes
    <2>3. [changing[c] EXCEPT !.recorded = TRUE] \in Changes
        BY <2>1 DEF Changes
    <2>. QED  BY <1>6, <2>2, <2>3 DEF set_last_changed_resolution
<1>7. ASSUME NEW c \in Conns, change_resolution(c)
      PROVE  TypeOK'
    <2>1. changing[c] \in Changes
        BY <1>7 DEF change_resolution
    <2>2. resolution' \in [Screens -> AllResolutions]
        BY <1>7, <2>1 DEF change_resolution, Changes, AllResolutions
    <2>. QED  BY <1>7, <2>2 DEF change_resolution
<1>8. ASSUME wakelock_thread
      PROVE  TypeOK'
    <2>1. /\ wakelock' \in {"none", "empty", "system", "display"}
          /\ last_display' \in BOOLEAN /\ refused' \in BOOLEAN
        BY <1>8, ThreadTypes DEF wakelock_thread
    <2>. QED  BY <1>8, <2>1 DEF wakelock_thread
<1>9. ASSUME UNCHANGED vars
      PROVE  TypeOK'
    BY <1>9 DEF vars
<1>. QED
    BY <1>1, <1>2, <1>3, <1>4, <1>5, <1>6, <1>7, <1>8, <1>9 DEF Next, new, drop

-----------------------------------------------------------------------------
(* A step moves at most one connection, and whoever it moves is registered *)
(* or struck off with it.                                                  *)
LEMMA WallpaperStep ==
    ASSUME WallpaperInv, [Next]_vars
    PROVE  WallpaperInv'
<1>. TypeOK /\ TypeOK'
    BY TypeStep DEF WallpaperInv
<1>. USE DEF WallpaperInv, TypeOK, wallVars, wakeVars, lockVars, Goto
<1>1. ASSUME NEW c \in Conns, new(c)
      PROVE  WallpaperInv'
    <2>1. CASE push(c)
        BY <2>1 DEF push
    <2>2. CASE read_conn_count(c, "new_count", "new_remote")
        BY <2>2 DEF read_conn_count
    <2>3. CASE read_remote_count(c, "new_remote", "new_send")
        BY <2>3 DEF read_remote_count
    <2>4. CASE send_counts(c, "new_send", IF c \in Remote THEN "new_paper" ELSE "in")
        BY <2>4 DEF send_counts
    <2>5. CASE on_remote_authorized(c)
        BY <2>5 DEF on_remote_authorized
    <2>. QED  BY <1>1, <2>1, <2>2, <2>3, <2>4, <2>5 DEF new
<1>2. ASSUME NEW c \in Conns, drop(c)
      PROVE  WallpaperInv'
    <2>1. CASE retain(c)
        BY <2>1 DEF retain
    <2>2. CASE drop_remote_count(c)
        BY <2>2 DEF drop_remote_count, last_remote
    <2>3. CASE drop_wallpaper(c)
        BY <2>3 DEF drop_wallpaper
    <2>4. CASE reset_resolutions(c) \/ clear_resolutions(c)
        BY <2>4 DEF reset_resolutions, clear_resolutions
    <2>5. CASE read_conn_count(c, "wl_count", "wl_remote")
        BY <2>5 DEF read_conn_count
    <2>6. CASE read_remote_count(c, "wl_remote", "wl_send")
        BY <2>6 DEF read_remote_count
    <2>7. CASE send_counts(c, "wl_send", "done")
        BY <2>7 DEF send_counts
    <2>. QED  BY <1>2, <2>1, <2>2, <2>3, <2>4, <2>5, <2>6, <2>7 DEF drop
<1>3. ASSUME NEW c \in Conns, set_last_changed_resolution(c) \/ change_resolution(c)
      PROVE  WallpaperInv'
    BY <1>3 DEF set_last_changed_resolution, change_resolution
<1>4. ASSUME NEW c \in Remote, NEW s \in Screens, NEW r \in Resolutions,
             try_get_displays(c, s, r)
      PROVE  WallpaperInv'
    BY <1>4 DEF try_get_displays
<1>5. CASE wakelock_thread
    BY <1>5 DEF wakelock_thread
<1>6. CASE UNCHANGED vars
    BY <1>6 DEF vars
<1>. QED  BY <1>1, <1>2, <1>3, <1>4, <1>5, <1>6 DEF Next

(* Init satisfies both invariants. *)
LEMMA InitHolds == Init => WallpaperInv /\ ResolutionInv
<1>. SUFFICES ASSUME Init
              PROVE  WallpaperInv /\ ResolutionInv
    OBVIOUS
<1>1. TypeOK
    BY DEF Init, TypeOK, Steps, AllResolutions
<1>2. WallpaperInv
    BY <1>1 DEF Init, WallpaperInv
<1>3. ResolutionInv
    BY <1>1 DEF Init, ResolutionInv, OriginalIsOnRecord
<1>. QED  BY <1>2, <1>3

(* However logins and closes overlap (the locks of AuthedConnID::new and   *)
(* of its drop are released between their steps), the wallpaper is back    *)
(* once the last remote connection is gone.                                *)
THEOREM WallpaperRestoredHolds == Spec => []WallpaperRestored
<1>1. WallpaperInv => WallpaperRestored
    BY DEF WallpaperInv, WallpaperRestored, Quiet
<1>. QED  BY <1>1, InitHolds, WallpaperStep, PTL DEF Spec

-----------------------------------------------------------------------------
(* Only the steps of change_resolution and of reset_resolutions touch the  *)
(* records, and what they need is kept until they are done.                *)
LEMMA ResolutionStep ==
    ASSUME ResolutionInv, [Next]_vars
    PROVE  ResolutionInv'
<1>1. TypeOK /\ TypeOK'
    BY TypeStep DEF ResolutionInv
<1>2. ASSUME UNCHANGED <<changing, changed, resolution, lost>>
      PROVE  ResolutionInv'
    BY <1>1, <1>2 DEF ResolutionInv, OriginalIsOnRecord
<1>3. ASSUME NEW c \in Remote, NEW s \in Screens, NEW r \in Resolutions,
             try_get_displays(c, s, r)
      PROVE  ResolutionInv'
    BY <1>1, <1>3
    DEF try_get_displays, ResolutionInv, OriginalIsOnRecord, TypeOK, Conns
<1>4. ASSUME NEW c \in Conns, set_last_changed_resolution(c)
      PROVE  ResolutionInv'
    <2>1. changing[c] \in Changes
        BY <1>1, <1>4 DEF TypeOK, set_last_changed_resolution
    <2>2. changing[c].screen \in Screens /\ changing[c].seen # NoRecord
        BY <2>1, ResolutionAssumption DEF Changes, NoRecord, AllResolutions
    <2>. DEFINE t == changing[c].screen
    <2>3. /\ changed' = [changed EXCEPT ![t] = original_of(t, changing[c].seen)]
          /\ changing' = [changing EXCEPT ![c] = [@ EXCEPT !.recorded = TRUE]]
          /\ resolution' = resolution /\ lost' = lost
          /\ changing[c] # NoChange
        BY <1>4 DEF set_last_changed_resolution
    <2>4. changed'[t] # NoRecord
        BY <1>1, <2>2, <2>3 DEF original_of, TypeOK
    <2>5. ASSUME ~lost
          PROVE  changed'[t] = Original
        <3>1. changed[t] = NoRecord => changing[c].seen = Original
            BY <2>3, <2>5 DEF ResolutionInv
        <3>2. changed[t] # NoRecord => changed[t] = Original
            BY <2>2, <2>5 DEF ResolutionInv, OriginalIsOnRecord
        <3>. QED  BY <1>1, <2>2, <2>3, <3>1, <3>2 DEF original_of, TypeOK
    <2>6. \A s \in Screens : s # t => changed'[s] = changed[s]
        BY <1>1, <2>3 DEF TypeOK
    <2>7. OriginalIsOnRecord'
        BY <2>3, <2>4, <2>5, <2>6 DEF ResolutionInv, OriginalIsOnRecord
    <2>8. changing'[c].screen = t /\ \A d \in Conns : d # c => changing'[d] = changing[d]
        BY <1>1, <2>1, <2>3 DEF TypeOK, Changes
    <2>9. \A d \in Conns : changing[d] # NoChange => changing[d].screen \in Screens
        BY <1>1 DEF TypeOK, Changes
    <2>. QED
        BY <1>1, <2>3, <2>4, <2>6, <2>7, <2>8, <2>9 DEF ResolutionInv
<1>5. ASSUME NEW c \in Conns, change_resolution(c)
      PROVE  ResolutionInv'
    <2>1. changing[c] \in Changes
        BY <1>1, <1>5 DEF TypeOK, change_resolution
    <2>. QED
        BY <1>1, <1>5, <2>1
        DEF change_resolution, ResolutionInv, OriginalIsOnRecord, TypeOK, Changes
<1>6. ASSUME NEW c \in Conns, reset_resolutions(c)
      PROVE  ResolutionInv'
    BY <1>1, <1>6 DEF reset_resolutions, ResolutionInv, OriginalIsOnRecord, TypeOK, wakeVars
<1>7. ASSUME NEW c \in Conns, clear_resolutions(c)
      PROVE  ResolutionInv'
    BY <1>1, <1>7 DEF clear_resolutions, ResolutionInv, OriginalIsOnRecord, TypeOK, wakeVars
<1>. QED
    BY <1>2, <1>3, <1>4, <1>5, <1>6, <1>7
    DEF Next, new, drop, push, read_conn_count, read_remote_count, send_counts,
        on_remote_authorized, retain, drop_remote_count, drop_wallpaper, wakelock_thread,
        wallVars, vars

(* Whoever changes resolutions and however often, until a record is        *)
(* cleared that is still needed, CHANGED_RESOLUTIONS holds the original    *)
(* resolution of every display that differs from it.                       *)
THEOREM OriginalIsOnRecordHolds == Spec => []OriginalIsOnRecord
<1>1. ResolutionInv => OriginalIsOnRecord
    BY DEF ResolutionInv
<1>. QED  BY <1>1, InitHolds, ResolutionStep, PTL DEF Spec

-----------------------------------------------------------------------------
(* A set of connections counts zero exactly if it is empty. *)
LEMMA CountOfNone ==
    ASSUME TypeOK
    PROVE  /\ Cardinality(authed) = 0 <=> authed = {}
           /\ Cardinality(authed \cap Remote) = 0 <=> authed \cap Remote = {}
<1>1. IsFiniteSet(authed) /\ IsFiniteSet(authed \cap Remote)
    BY ConnAssumption, FS_Subset DEF TypeOK, Conns
<1>. QED  BY <1>1, FS_EmptySet

(* The last message stays the last when an earlier one is read. *)
LEMMA LastOfTail ==
    ASSUME NEW S, NEW q \in Seq(S), q # <<>>
    PROVE  /\ Tail(q) \in Seq(S)
           /\ Tail(q) = <<>> => Head(q) = q[Len(q)]
           /\ Tail(q) # <<>> => Tail(q)[Len(Tail(q))] = q[Len(q)]
<1>1. Len(q) \in Nat /\ Len(q) > 0
    OBVIOUS
<1>2. /\ Tail(q) \in Seq(S)
      /\ Len(Tail(q)) = Len(q) - 1
      /\ \A i \in 1 .. Len(q) - 1 : Tail(q)[i] = q[i + 1]
    BY <1>1
<1>3. Head(q) = q[1]
    OBVIOUS
<1>4. ASSUME NEW t \in Seq(S)
      PROVE  t = <<>> <=> Len(t) = 0
    OBVIOUS
<1>5. Tail(q) = <<>> <=> Len(Tail(q)) = 0
    BY <1>2, <1>4, Zenon
<1>6. Len(q) > 1 => Tail(q)[Len(q) - 1] = q[Len(q)]
    BY <1>1, <1>2
<1>. QED  BY <1>1, <1>2, <1>3, <1>5, <1>6

(* Once the thread has read a message it has done what it asks for. *)
LEMMA ThreadFollows ==
    ASSUME NEW m, TypeOK, Granted, platform' = platform,
           drop_wakelock(m) \/ new_wakelock(m) \/ keep_wakelock(m)
    PROVE  /\ Granted'
           /\ wakelock' = "none" <=> m[1] = 0
           /\ (m[1] # 0 /\ Settable') => (last_display' <=> m[2] # 0)
<1>. USE DEF TypeOK, Granted, Settable, Platforms
<1>1. CASE drop_wakelock(m)
    BY <1>1 DEF drop_wakelock
<1>2. CASE new_wakelock(m)
    BY <1>2 DEF new_wakelock, get_wakelock
<1>3. CASE keep_wakelock(m)
    BY <1>3 DEF keep_wakelock, set_display
<1>. QED  BY <1>1, <1>2, <1>3

(* Whoever changes the registry reports afterwards, and a report that      *)
(* tells the present counts is the last message or has been read.          *)
LEMMA WakeStep ==
    ASSUME WakeInv, [Next]_vars
    PROVE  WakeInv'
<1>1. TypeOK /\ TypeOK'
    BY TypeStep DEF WakeInv
<1>2. ASSUME NEW c \in Conns, NEW from, NEW to, Goto(c, from, to),
             to \notin {"out", "new_paper", "in", "done"}, UNCHANGED wakeVars
      PROVE  WakeInv'
    <2>1. Reports(c)'
        BY <1>1, <1>2 DEF Goto, TypeOK, Reports
    <2>. QED  BY <1>1, <1>2, <2>1 DEF WakeInv, wakeVars, lockVars, Granted, Settable
<1>3. ASSUME NEW c \in Conns, NEW from, NEW to, send_counts(c, from, to)
      PROVE  WakeInv'
    <2>1. <<count[c], remote[c]>> \in Nat \X Nat
        BY <1>1 DEF TypeOK
    <2>2. /\ channel' \in Seq(Nat \X Nat)
          /\ channel' # <<>>
          /\ channel'[Len(channel')] = <<count[c], remote[c]>>
        BY <1>3, <2>1 DEF send_counts, WakeInv
    <2>3. ~stale' => <<count[c], remote[c]>> = Counts'
        BY <1>3 DEF send_counts, Counts
    <2>4. Granted'
        BY <1>3 DEF send_counts, lockVars, WakeInv, Granted, Settable
    <2>. QED  BY <1>1, <2>2, <2>3, <2>4 DEF WakeInv
<1>4. ASSUME UNCHANGED <<authed, wakeVars>>,
             \A c \in Conns : Reports(c) <=> Reports(c)'
      PROVE  WakeInv'
    BY <1>1, <1>4 DEF WakeInv, wakeVars, lockVars, Counts, Follows, Granted, Settable
<1>5. CASE wakelock_thread
    <2>0. PICK m : m = Head(channel)
        OBVIOUS
    <2>1. /\ channel # <<>> /\ channel \in Seq(Nat \X Nat) /\ channel' = Tail(channel)
          /\ drop_wakelock(m) \/ new_wakelock(m) \/ keep_wakelock(m)
          /\ authed' = authed /\ pc' = pc /\ stale' = stale /\ platform' = platform
        BY <1>5, <2>0 DEF wakelock_thread, WakeInv
    <2>2. /\ channel' \in Seq(Nat \X Nat)
          /\ channel' = <<>> => m = channel[Len(channel)]
          /\ channel' # <<>> => channel'[Len(channel')] = channel[Len(channel)]
        BY <2>0, <2>1, LastOfTail
    <2>3. Counts' = Counts /\ \A c \in Conns : Reports(c)' <=> Reports(c)
        BY <2>1 DEF Counts, Reports
    <2>4. Granted' /\ Follows(m)'
        <3>1. Granted
            BY DEF WakeInv
        <3>. QED  BY <1>1, <2>1, <3>1, ThreadFollows, Zenon DEF Follows
    <2>5. m = Counts => Follows(Counts)'
        BY <2>3, <2>4 DEF Follows
    <2>. QED  BY <1>1, <2>1, <2>2, <2>3, <2>4, <2>5 DEF WakeInv
<1>6. ASSUME NEW c \in Conns, new(c)
      PROVE  WakeInv'
    <2>1. CASE push(c)
        BY <1>2, <2>1 DEF push
    <2>2. CASE read_conn_count(c, "new_count", "new_remote")
        BY <1>2, <2>2 DEF read_conn_count
    <2>3. CASE read_remote_count(c, "new_remote", "new_send")
        BY <1>2, <2>3 DEF read_remote_count
    <2>4. CASE send_counts(c, "new_send", IF c \in Remote THEN "new_paper" ELSE "in")
        BY <1>3, <2>4
    <2>5. CASE on_remote_authorized(c)
        <3>1. \A d \in Conns : Reports(d) <=> Reports(d)'
            BY <1>1, <2>5 DEF on_remote_authorized, Goto, Reports, TypeOK
        <3>. QED  BY <1>4, <2>5, <3>1 DEF on_remote_authorized
    <2>. QED  BY <1>6, <2>1, <2>2, <2>3, <2>4, <2>5 DEF new
<1>7. ASSUME NEW c \in Conns, drop(c)
      PROVE  WakeInv'
    <2>1. CASE retain(c)
        BY <1>2, <2>1 DEF retain
    <2>2. CASE drop_remote_count(c)
        BY <1>2, <2>2 DEF drop_remote_count
    <2>3. CASE drop_wallpaper(c)
        BY <1>2, <2>3 DEF drop_wallpaper
    <2>4. CASE reset_resolutions(c)
        BY <1>2, <2>4 DEF reset_resolutions
    <2>5. CASE clear_resolutions(c)
        BY <1>2, <2>5 DEF clear_resolutions
    <2>6. CASE read_conn_count(c, "wl_count", "wl_remote")
        BY <1>2, <2>6 DEF read_conn_count
    <2>7. CASE read_remote_count(c, "wl_remote", "wl_send")
        BY <1>2, <2>7 DEF read_remote_count
    <2>8. CASE send_counts(c, "wl_send", "done")
        BY <1>3, <2>8
    <2>. QED  BY <1>7, <2>1, <2>2, <2>3, <2>4, <2>5, <2>6, <2>7, <2>8 DEF drop
<1>8. ASSUME UNCHANGED <<authed, pc, wakeVars>>
      PROVE  WakeInv'
    BY <1>4, <1>8 DEF Reports
<1>. QED
    BY <1>5, <1>6, <1>7, <1>8
    DEF Next, set_last_changed_resolution, change_resolution, try_get_displays,
        vars, wakeVars, lockVars

(* With nobody registered the lock is not held. *)
LEMMA WakeInit == Init => WakeInv
<1>. SUFFICES ASSUME Init
              PROVE  WakeInv
    OBVIOUS
<1>1. TypeOK
    BY InitHolds DEF WallpaperInv
<1>2. channel = <<>> /\ <<>> \in Seq(Nat \X Nat)
    BY DEF Init
<1>3. Counts[1] = 0
    BY <1>1, CountOfNone DEF Init, Counts
<1>4. Follows(Counts) /\ Granted
    BY <1>3 DEF Init, Follows, Granted
<1>. QED  BY <1>1, <1>2, <1>4 DEF WakeInv

(* However the counting and sending of check_wake_lock overlap: unless the *)
(* last message sent had been overtaken, the thread, once it has caught    *)
(* up, holds a wake lock exactly if a connection is registered, and unless *)
(* the system refused its last wish, the one that the platform and the     *)
(* registered connections call for.                                        *)
THEOREM WakeLockIsRightHolds == Spec => []WakeLockIsRight
<1>1. ASSUME WakeInv
      PROVE  WakeLockIsRight
    <2>. SUFFICES ASSUME Quiet, channel = <<>>, ~stale
                  PROVE  /\ wakelock = "none" <=> authed = {}
                         /\ (authed # {} /\ ~refused) => wakelock = Wanted
        BY DEF WakeLockIsRight
    <2>1. Follows(Counts) /\ Granted
        BY <1>1 DEF WakeInv, Quiet, Reports
    <2>2. Cardinality(authed \cap Remote) \in Nat /\ TypeOK
        BY <1>1, CountsAreNumbers DEF WakeInv
    <2>3. Counts[1] = Cardinality(authed) /\ Counts[2] = Cardinality(authed \cap Remote)
        BY DEF Counts
    <2>4. /\ wakelock = "none" <=> authed = {}
          /\ (authed # {} /\ Settable) => (last_display <=> authed \cap Remote # {})
        BY <2>1, <2>2, <2>3, CountOfNone DEF Follows
    <2>. QED
        BY <2>1, <2>2, <2>4 DEF Granted, Wanted, Settable, TypeOK, Platforms
<1>. QED  BY <1>1, WakeInit, WakeStep, PTL DEF Spec
=============================================================================
