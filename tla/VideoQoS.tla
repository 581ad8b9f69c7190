------------------------------ MODULE VideoQoS ------------------------------
(***************************************************************************)
(* The quality-of-service controller shared by all video services and all  *)
(* connections (src/src/server/video_qos.rs): from what each user asked    *)
(* for and from the delays measured for each user it computes one frame    *)
(* rate and one image quality.  It is a cache: fps and quality are         *)
(* recomputed by refresh only, and refresh reads its own last quality.     *)
(* Every operation runs under the mutex of VIDEO_QOS.                      *)
(***************************************************************************)
EXTENDS Integers, Sequences, FiniteSets, FiniteSetsExt, SequencesExt

CONSTANTS
    Conns,          \* connection ids
    None,           \* Option::None
    Unit,           \* milliseconds per unit of delay in this model
    Samples,        \* measured delays, in units
    CustomFps,      \* frame rates users ask for
    AutoFps,        \* frame rates old clients adjust to
    ImageQualities  \* values of the image quality options

(* Up to 200 milliseconds per unit every delay state keeps its own delay.  *)
ASSUME UnitAssumption == Unit \in 1..200
ASSUME InputsAssumption ==
    /\ Samples \subseteq Nat
    /\ CustomFps \subseteq Nat
    /\ AutoFps \subseteq Nat
    /\ ImageQualities \subseteq Nat

VARIABLES
    fps,        \* VideoQoS.fps
    quality,    \* VideoQoS.quality
    users,      \* VideoQoS.users
    order,      \* the users with a quality, by the time they set it
    abr,        \* option enable-abr and every support_abr
    pending,    \* history: users added by a delay and not yet in a refresh
    closed      \* connections that are closed; an id is not used again

cacheVars == <<fps, quality>>
userVars == <<users, order>>
vars == <<cacheVars, userVars, abr, pending, closed>>

FPS == 30
MIN_FPS == 1
MAX_FPS == 120
DEBOUNCE == 3

(* DelayState, named by the delay it stands for. *)
Normal == 0
LowDelay == 200 \div Unit
HighDelay == 500 \div Unit
Broken == 1000 \div Unit
DelayStates == {Normal, LowDelay, HighDelay, Broken}

from_delay(d) ==
    IF d > Broken THEN Broken
    ELSE IF d > HighDelay THEN HighDelay
    ELSE IF d > LowDelay THEN LowDelay
    ELSE Normal

Best == [kind |-> "Best", b |-> 0]
Balanced == [kind |-> "Balanced", b |-> 0]
Low == [kind |-> "Low", b |-> 0]
Custom(b) == [kind |-> "Custom", b |-> b]
IsCustom(q) == q.kind = "Custom"

(* convert_quality: the values of the ImageQuality enumeration, else a     *)
(* percentage in bits 8 to 19.                                             *)
convert_quality(q) ==
    CASE q = 2 -> Low
      [] q = 3 -> Balanced
      [] q = 4 -> Best
      [] OTHER -> Custom(Max({20, Min({8000, ((q \div 256) % 4096) * 2})}))

(* UserData::default() *)
NewUser == [auto_adjust_fps |-> None, custom_fps |-> None, quality |-> None,
            delay |-> None, response_delayed |-> FALSE]

-----------------------------------------------------------------------------
(* refresh.  A definition named after a deviation (..._uncapped,           *)
(* ..._never, ..._without_refresh) is the one after it with a plausible    *)
(* mistake; the specification does not use it.                             *)

(* Before the network is looked at. *)
asked_fps(u) ==
    LET custom == IF u.custom_fps = None THEN FPS ELSE u.custom_fps
    IN  IF /\ u.auto_adjust_fps # None
           /\ custom = 0 \/ u.auto_adjust_fps < custom
        THEN u.auto_adjust_fps
        ELSE custom

delayed_fps(u) ==
    LET state == IF u.delay = None THEN Normal ELSE u.delay.state
    IN  CASE state = Normal -> asked_fps(u)
          [] state = LowDelay -> (asked_fps(u) * 3) \div 4
          [] state = HighDelay -> asked_fps(u) \div 2
          [] state = Broken -> asked_fps(u) \div 4

user_fps(u) ==
    IF u.response_delayed THEN Min({delayed_fps(u), MIN_FPS + 2})
    ELSE delayed_fps(u)

fps_of_above_min(us) ==
    LET voting == {f \in {user_fps(us[c]) : c \in DOMAIN us} : f > MIN_FPS}
    IN  IF voting = {} THEN FPS ELSE Min({MAX_FPS, Min(voting)})

(* The slowest user sets the pace; a user that comes out at 0 has no say. *)
fps_of(us) ==
    LET voting == {f \in {user_fps(us[c]) : c \in DOMAIN us} : f >= MIN_FPS}
    IN  IF voting = {} THEN FPS ELSE Min({MAX_FPS, Min(voting)})

latest_quality(us, ord) ==
    IF ord = <<>> THEN Balanced ELSE us[Last(ord)].quality

worst_delay(us) ==
    Max({Normal} \cup
        {us[c].delay.state : c \in {d \in DOMAIN us : us[d].delay # None}})

(* On a slow network the quality steps down from what it was ... *)
degraded(q, state) ==
    CASE q = Best -> IF state = Broken THEN Low ELSE Balanced
      [] q = Balanced -> Low
      [] q = Low -> Low
      [] IsCustom(q) /\ state = LowDelay ->
            Custom(IF q.b >= 150 THEN 100 ELSE Min({50, q.b}))
      [] IsCustom(q) /\ state = HighDelay ->
            Custom(IF q.b >= 100 THEN 50 ELSE Min({25, q.b}))
      [] IsCustom(q) /\ state = Broken ->
            Custom(IF q.b >= 50 THEN 25 ELSE Min({10, q.b}))

recovered_never(q, latest) == q

(* ... and on a good one it steps up to what was asked for last. *)
recovered(q, latest) ==
    IF q = Low /\ latest = Best THEN Balanced
    ELSE IF IsCustom(q) /\ IsCustom(latest) /\ q.b < latest.b \div 2
         THEN Custom(latest.b \div 2)
         ELSE latest

quality_of(us, ord, set_image_quality) ==
    LET latest == latest_quality(us, ord)
    IN  IF ~abr \/ set_image_quality THEN latest
        ELSE IF worst_delay(us) = Normal THEN recovered(quality, latest)
        ELSE degraded(quality, worst_delay(us))

refresh(us, ord, set_image_quality) ==
    /\ fps' = fps_of(us)
    /\ quality' = quality_of(us, ord, set_image_quality)
    /\ pending' = {}

-----------------------------------------------------------------------------
(* The operations.                                                         *)

Init ==
    /\ fps = FPS
    /\ quality = Balanced
    /\ users = <<>>
    /\ order = <<>>
    /\ abr \in BOOLEAN
    /\ pending = {}
    /\ closed = {}

UserOf(c) == IF c \in DOMAIN users THEN users[c] ELSE NewUser

(* The users with c's data replaced; c is added when it is not there. *)
WithUser(c, u) ==
    [d \in DOMAIN users \cup {c} |-> IF d = c THEN u ELSE users[d]]

user_custom_fps(c, f) ==
    /\ f >= MIN_FPS
    /\ users' = WithUser(c, [UserOf(c) EXCEPT !.custom_fps = f])
    /\ refresh(users', order, FALSE)
    /\ UNCHANGED <<order, abr, closed>>

user_auto_adjust_fps(c, f) ==
    /\ users' = WithUser(c, [UserOf(c) EXCEPT !.auto_adjust_fps = f])
    /\ refresh(users', order, FALSE)
    /\ UNCHANGED <<order, abr, closed>>

user_image_quality(c, q) ==
    /\ users' = WithUser(c, [UserOf(c) EXCEPT !.quality = convert_quality(q)])
    /\ order' = Append(RemoveFirst(order, c), c)
    /\ refresh(users', order', TRUE)
    /\ UNCHANGED <<abr, closed>>

(* The first delay measured for a user. *)
user_first_delay(c, delay) ==
    /\ UserOf(c).delay = None
    /\ users' = WithUser(c, [UserOf(c) EXCEPT !.delay =
          [state |-> Normal, staging_state |-> from_delay(delay),
           delay |-> delay, counter |-> 0, slower |-> None]])
    /\ pending' = IF c \in DOMAIN users THEN pending ELSE pending \cup {c}
    /\ UNCHANGED <<cacheVars, order, abr, closed>>

(* slower_than_old_state *)
slower_than(new, old) ==
    IF new > old THEN TRUE ELSE IF new < old THEN FALSE ELSE None

(* A later one.  A change of state has to show three times in a row; every *)
(* further second of delay counts as once more.                            *)
user_network_delay(c, delay) ==
    /\ UserOf(c).delay # None
    /\ LET d == users[c].delay
           mean == (delay + d.delay) \div 2
           new_state == from_delay(mean)
           slower == slower_than(new_state, d.staging_state)
           counter == d.counter + delay \div (1000 \div Unit) + 1
           flips == d.counter < DEBOUNCE /\ counter >= DEBOUNCE
       IN  IF slower = d.slower
           THEN /\ users' = [users EXCEPT ![c].delay =
                     IF flips
                     THEN [d EXCEPT !.delay = mean, !.counter = 0,
                                    !.state = d.staging_state,
                                    !.staging_state = new_state]
                     ELSE [d EXCEPT !.delay = mean, !.counter = counter]]
                /\ IF users'[c].delay.counter % DEBOUNCE = 0
                   THEN refresh(users', order, FALSE)
                   ELSE UNCHANGED <<cacheVars, pending>>
           ELSE /\ users' = [users EXCEPT ![c].delay =
                     [d EXCEPT !.delay = mean, !.counter = 0,
                               !.staging_state = new_state, !.slower = slower]]
                /\ UNCHANGED <<cacheVars, pending>>
    /\ UNCHANGED <<order, abr, closed>>

(* delayed: more than three seconds since the peer answered. *)
user_delay_response_elapsed(c, delayed) ==
    /\ c \in DOMAIN users
    /\ users[c].response_delayed # delayed
    /\ users' = [users EXCEPT ![c].response_delayed = delayed]
    /\ refresh(users', order, FALSE)
    /\ UNCHANGED <<order, abr, closed>>

close_without_refresh(c) ==
    /\ users' = [d \in DOMAIN users \ {c} |-> users[d]]
    /\ order' = RemoveFirst(order, c)
    /\ pending' = pending \ {c}
    /\ closed' = closed \cup {c}
    /\ UNCHANGED <<cacheVars, abr>>

on_connection_close(c) ==
    /\ users' = [d \in DOMAIN users \ {c} |-> users[d]]
    /\ order' = RemoveFirst(order, c)
    /\ refresh(users', order', FALSE)
    /\ closed' = closed \cup {c}
    /\ UNCHANGED abr

(* set_support_abr, or the option is changed: no refresh. *)
set_support_abr ==
    /\ abr' = ~abr
    /\ UNCHANGED <<cacheVars, userVars, pending, closed>>

Measure(c) ==
    \E s \in Samples : user_first_delay(c, s) \/ user_network_delay(c, s)

Next ==
    \/ \E c \in Conns \ closed :
          \/ \E f \in CustomFps : user_custom_fps(c, f)
          \/ \E f \in AutoFps : user_auto_adjust_fps(c, f)
          \/ \E q \in ImageQualities : user_image_quality(c, q)
          \/ Measure(c)
          \/ \E delayed \in BOOLEAN : user_delay_response_elapsed(c, delayed)
          \/ on_connection_close(c)
    \/ set_support_abr

Spec == Init /\ [][Next]_vars

-----------------------------------------------------------------------------
OptionOf(S) == S \cup {None}

Bitrates == 0..8000

Qualities == {Best, Balanced, Low} \cup {Custom(b) : b \in Bitrates}

Delays == [state : DelayStates, staging_state : DelayStates, delay : Nat,
           counter : 0..DEBOUNCE - 1, slower : OptionOf(BOOLEAN)]

(* No value that an option can hold is None. *)
ASSUME NoneAssumption == None \notin Nat /\ None \notin Qualities /\ None \notin Delays

UserData == [auto_adjust_fps : OptionOf(AutoFps), custom_fps : OptionOf(CustomFps),
             quality : OptionOf(Qualities), delay : OptionOf(Delays),
             response_delayed : BOOLEAN]

(* A closed connection is not a user, and a debounce counter never passes  *)
(* its limit.                                                              *)
UsersInv ==
    /\ users \in [DOMAIN users -> UserData]
    /\ DOMAIN users \subseteq Conns \ closed
    /\ abr \in BOOLEAN
    /\ pending \subseteq DOMAIN users
    /\ closed \subseteq Conns

(* order lists exactly the users that set a quality, each of them once. *)
OrderInv ==
    /\ order \in Seq(Conns)
    /\ \A i, j \in DOMAIN order : order[i] = order[j] => i = j
    /\ ToSet(order) = {c \in DOMAIN users : users[c].quality # None}

(* Types: the frame rate and the quality are ones that fps() and quality() *)
(* hand out as they are.                                                   *)
QoSInv ==
    /\ fps \in MIN_FPS..MAX_FPS
    /\ quality \in Qualities
    /\ UsersInv
    /\ OrderInv

(* The cached frame rate is the one the users' present data give: no       *)
(* operation forgets to refresh, also when it is a user's leaving that     *)
(* changes it.  Only a user added by its first delay is not counted until  *)
(* the next refresh.                                                       *)
FpsIsCurrent == fps = fps_of([c \in DOMAIN users \ pending |-> users[c]])

(* A user that asked for at least four frames a second is never given more *)
(* than its network and its response time allow: integer division does not *)
(* take its vote away.                                                     *)
SlowUserCounts ==
    \A c \in DOMAIN users \ pending :
        asked_fps(users[c]) >= 4 => fps <= user_fps(users[c])

(* With every network good, the quality is what was asked for last or one  *)
(* step of recovery below it; a quality asked for by somebody who has left *)
(* does not outlast the refresh.                                           *)
GoodNetworkMeansAskedQuality ==
    worst_delay(users) = Normal =>
        LET latest == latest_quality(users, order)
        IN  \/ quality = latest
            \/ quality = Balanced /\ latest = Best
            \/ IsCustom(latest) /\ quality = Custom(latest.b \div 2)
=============================================================================
