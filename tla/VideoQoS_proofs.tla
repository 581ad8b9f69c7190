-------------------------- MODULE VideoQoS_proofs ---------------------------
(***************************************************************************)
(* Proofs about the quality of service controller: the types and ranges,   *)
(* the frame rate that is never stale, the slow user that is never         *)
(* outvoted by rounding, and the quality on a good network.                *)
(***************************************************************************)
EXTENDS VideoQoSRecovery, FiniteSetTheorems, SequenceTheorems,
        WellFoundedInduction, TLAPS

-----------------------------------------------------------------------------
(* Least elements, and the removal of a user from order.                   *)

(* A non-empty set of naturals has a least element.  The sets of elements  *)
(* up to x are finite, and the strict inclusion of finite sets is          *)
(* well-founded.                                                           *)
LEMMA LeastElement ==
    ASSUME NEW S \in SUBSET Nat, S # {}
    PROVE  \E x \in S : \A y \in S : x <= y
<1>. DEFINE Below(x) == {y \in S : y <= x}
            T == {Below(x) : x \in S}
<1>1. \A x \in S : Below(x) \in FiniteSubsetsOf(Nat)
    <2>. TAKE x \in S
    <2>1. IsFiniteSet(Below(x))
        BY FS_BoundedSetOfNaturals
    <2>. QED BY <2>1 DEF FiniteSubsetsOf
<1>2. T \subseteq FiniteSubsetsOf(Nat) /\ T # {}
    BY <1>1
<1>3. IsWellFoundedOn(StrictSubsetOrdering(Nat), FiniteSubsetsOf(Nat))
    BY FS_StrictSubsetOrderingWellFounded
<1>4. PICK A \in T : \A B \in T : ~(<<B, A>> \in StrictSubsetOrdering(Nat))
    <2>. HIDE DEF T
    <2>. QED BY <1>2, <1>3, WFMin, Zenon
<1>5. PICK x \in S : A = Below(x)
    BY <1>4
<1>6. ASSUME NEW y \in S, y < x PROVE FALSE
    <2>1. x \in Below(x) /\ x \notin Below(y)
        BY <1>6
    <2>2. Below(y) \subseteq Below(x)
        <3>1. \A z \in S : z <= y => z <= x
            BY <1>6
        <3>. QED BY <3>1
    <2>3. Below(y) \in SUBSET Nat /\ Below(x) \in SUBSET Nat /\ Below(y) \in T
        OBVIOUS
    <2>4. <<Below(y), Below(x)>> \in StrictSubsetOrdering(Nat)
        <3>. HIDE DEF Below, T
        <3>. QED BY <2>1, <2>2, <2>3 DEF StrictSubsetOrdering
    <2>. QED BY <2>3, <2>4, <1>4, <1>5
<1>. QED BY <1>6

(* Min of a non-empty set of naturals is its least element. *)
LEMMA MinIsLeast ==
    ASSUME NEW S \in SUBSET Nat, S # {}
    PROVE  Min(S) \in S /\ \A y \in S : Min(S) <= y
BY LeastElement DEF Min

(* Max of a non-empty bounded set of naturals is its greatest element: the *)
(* distances to the bound have a least one.                                *)
LEMMA MaxIsGreatest ==
    ASSUME NEW S \in SUBSET Nat, S # {}, NEW n \in Nat, \A y \in S : y <= n
    PROVE  Max(S) \in S /\ \A y \in S : Max(S) >= y
<1>. DEFINE T == {n - y : y \in S}
<1>1. T \in SUBSET Nat /\ T # {}
    <2>1. \A y \in S : n - y \in Nat
        OBVIOUS
    <2>. QED BY <2>1
<1>2. PICK t \in T : \A u \in T : t <= u
    <2>. HIDE DEF T
    <2>. QED BY <1>1, LeastElement
<1>3. PICK x \in S : t = n - x
    BY <1>2
<1>4. ASSUME NEW y \in S PROVE x >= y
    <2>1. n - x <= n - y
        BY <1>2, <1>3
    <2>2. x \in Nat /\ y \in Nat
        OBVIOUS
    <2>. QED BY <2>1, <2>2
<1>. QED BY <1>4 DEF Max

(* The least and the greatest of two naturals. *)
LEMMA MinMaxOfTwo ==
    ASSUME NEW m \in Nat, NEW n \in Nat
    PROVE  /\ Min({m, n}) = IF m <= n THEN m ELSE n
           /\ Max({m, n}) = IF m >= n THEN m ELSE n
<1>1. {m, n} \in SUBSET Nat /\ {m, n} # {}
    OBVIOUS
<1>2. Min({m, n}) \in {m, n} /\ \A y \in {m, n} : Min({m, n}) <= y
    BY <1>1, MinIsLeast, Zenon
<1>3. \A y \in {m, n} : y <= m + n
    OBVIOUS
<1>4. Max({m, n}) \in {m, n} /\ \A y \in {m, n} : Max({m, n}) >= y
    <2>1. m + n \in Nat
        OBVIOUS
    <2>. QED BY <1>1, <1>3, <2>1, MaxIsGreatest, Zenon
<1>. QED BY <1>2, <1>4

(* What RemoveAt leaves of a sequence. *)
LEMMA RemoveAtIs ==
    ASSUME NEW S, NEW s \in Seq(S), NEW k \in 1..Len(s), NEW r, r = RemoveAt(s, k)
    PROVE  /\ r \in Seq(S)
           /\ Len(r) = Len(s) - 1
           /\ \A i \in 1..Len(r) : r[i] = IF i < k THEN s[i] ELSE s[i + 1]
<1>1. PICK a : a = SubSeq(s, 1, k - 1)
    OBVIOUS
<1>2. PICK b : b = SubSeq(s, k + 1, Len(s))
    OBVIOUS
<1>3. a \in Seq(S) /\ Len(a) = k - 1 /\ \A i \in 1..k - 1 : a[i] = s[i]
    BY <1>1, SubSeqProperties
<1>4. /\ b \in Seq(S)
      /\ Len(b) = Len(s) - k
      /\ \A i \in 1..Len(s) - k : b[i] = s[i + k]
    BY <1>2, SubSeqProperties
<1>5. r = a \o b
    BY <1>1, <1>2, Zenon DEF RemoveAt
<1>6. /\ r \in Seq(S)
      /\ Len(r) = Len(a) + Len(b)
      /\ \A i \in 1..Len(a) + Len(b) : r[i] = IF i <= Len(a) THEN a[i] ELSE b[i - Len(a)]
    <2>1. a \in Seq(S) /\ b \in Seq(S)
        BY <1>3, <1>4
    <2>. QED BY <2>1, <1>5, ConcatProperties, Zenon
<1>7. Len(r) = Len(s) - 1
    BY <1>3, <1>4, <1>6
<1>8. ASSUME NEW i \in 1..Len(r) PROVE r[i] = IF i < k THEN s[i] ELSE s[i + 1]
    <2>1. CASE i < k
        BY <2>1, <1>3, <1>4, <1>6
    <2>2. CASE ~(i < k)
        <3>1. i - Len(a) \in 1..Len(s) - k /\ (i - Len(a)) + k = i + 1
            BY <2>2, <1>3, <1>7
        <3>2. r[i] = b[i - Len(a)]
            BY <2>2, <1>3, <1>4, <1>6
        <3>3. b[i - Len(a)] = s[(i - Len(a)) + k]
            BY <3>1, <1>4
        <3>. QED BY <2>2, <3>1, <3>2, <3>3
    <2>. QED BY <2>1, <2>2
<1>. QED BY <1>6, <1>7, <1>8

(* In a sequence without duplicates RemoveFirst takes an element out. *)
LEMMA RemoveFirstRemoves ==
    ASSUME NEW S, NEW s \in Seq(S), NEW e,
           \A i, j \in DOMAIN s : s[i] = s[j] => i = j
    PROVE  \E r \in Seq(S) : /\ r = RemoveFirst(s, e)
                             /\ \A i, j \in DOMAIN r : r[i] = r[j] => i = j
                             /\ ToSet(r) = ToSet(s) \ {e}
<1>1. CASE ~\E i \in 1..Len(s) : s[i] = e
    <2>1. s = RemoveFirst(s, e)
        BY <1>1, Zenon DEF RemoveFirst
    <2>2. ToSet(s) = ToSet(s) \ {e}
        BY <1>1 DEF ToSet
    <2>. QED BY <2>1, <2>2
<1>2. CASE \E i \in 1..Len(s) : s[i] = e
    <2>. DEFINE I == {i \in 1..Len(s) : s[i] = e}
    <2>1. I \in SUBSET Nat /\ I # {}
        BY <1>2
    <2>2. SelectInSeq(s, LAMBDA v: v = e) = Min(I)
        BY <2>1, Zenon DEF SelectInSeq
    <2>3. Min(I) \in I
        BY <2>1, MinIsLeast
    <2>4. PICK k \in 1..Len(s) : k = Min(I) /\ s[k] = e
        BY <2>3
    <2>5. RemoveFirst(s, e) = RemoveAt(s, k)
        BY <1>2, <2>2, <2>4, Zenon DEF RemoveFirst
    <2>. HIDE DEF I
    <2>6. PICK r \in Seq(S) : /\ r = RemoveAt(s, k)
                              /\ Len(r) = Len(s) - 1
                              /\ \A i \in 1..Len(r) : r[i] = IF i < k THEN s[i] ELSE s[i + 1]
        BY RemoveAtIs
    <2>7. \A i, j \in 1..Len(s) : s[i] = s[j] => i = j
        OBVIOUS
    <2>8. \A i, j \in 1..Len(r) : r[i] = r[j] => i = j
        BY <2>6, <2>7
    <2>9. ASSUME NEW i \in 1..Len(r) PROVE r[i] # e /\ \E j \in 1..Len(s) : r[i] = s[j]
        <3>1. CASE i < k
            BY <3>1, <2>4, <2>6, <2>7
        <3>2. CASE ~(i < k)
            BY <3>2, <2>4, <2>6, <2>7
        <3>. QED BY <3>1, <3>2
    <2>10. ASSUME NEW j \in 1..Len(s), s[j] # e PROVE \E i \in 1..Len(r) : r[i] = s[j]
        <3>1. CASE j < k
            BY <3>1, <2>6
        <3>2. CASE j > k
            <4>1. j - 1 \in 1..Len(r) /\ r[j - 1] = s[j]
                BY <3>2, <2>6
            <4>. QED BY <4>1
        <3>. QED BY <3>1, <3>2, <2>4, <2>10
    <2>11. ToSet(r) = ToSet(s) \ {e}
        <3>1. DOMAIN r = 1..Len(r) /\ DOMAIN s = 1..Len(s)
            OBVIOUS
        <3>2. ToSet(r) = {r[i] : i \in 1..Len(r)} /\ ToSet(s) = {s[i] : i \in 1..Len(s)}
            BY <3>1, Zenon DEF ToSet
        <3>3. \A x \in ToSet(r) : x \in ToSet(s) /\ x # e
            BY <3>2, <2>9
        <3>4. \A x \in ToSet(s) : x # e => x \in ToSet(r)
            BY <3>2, <2>10
        <3>. QED BY <3>3, <3>4, Zenon
    <2>. QED BY <2>5, <2>6, <2>8, <2>11
<1>. QED BY <1>1, <1>2

-----------------------------------------------------------------------------
(* Types.                                                                  *)

(* The delay states are naturals, and every delay stands for one. *)
LEMMA DelayStateTypes ==
    /\ DelayStates \subseteq Nat
    /\ 1000 \div Unit \in Nat \ {0}
    /\ \A d \in Nat : from_delay(d) \in DelayStates
<1>1. Unit \in Nat /\ 1 <= Unit /\ Unit <= 200
    BY UnitAssumption
<1>2. 200 \div Unit \in Nat /\ 500 \div Unit \in Nat /\ 1000 \div Unit \in Nat \ {0}
    BY <1>1
<1>. QED BY <1>2 DEF DelayStates, Normal, LowDelay, HighDelay, Broken, from_delay

(* A division of naturals gives a natural. *)
LEMMA DivIsNat ==
    ASSUME NEW a \in Nat, NEW b \in Nat \ {0}
    PROVE  a \div b \in Nat
OBVIOUS

(* A fresh user has no data. *)
LEMMA NewUserType == NewUser \in UserData
BY DEF NewUser, UserData, OptionOf

(* Every bitrate in range is a quality. *)
LEMMA CustomType ==
    ASSUME NEW n \in Bitrates
    PROVE  Custom(n) \in Qualities
BY Zenon DEF Qualities

(* Every option value stands for a quality. *)
LEMMA ConvertQualityType ==
    ASSUME NEW q \in Nat
    PROVE  convert_quality(q) \in Qualities
<1>1. PICK m \in Nat : m = ((q \div 256) % 4096) * 2
    OBVIOUS
<1>2. Min({8000, m}) = IF 8000 <= m THEN 8000 ELSE m
    <2>1. 8000 \in Nat
        OBVIOUS
    <2>. QED BY <2>1, MinMaxOfTwo, SMT
<1>3. PICK n \in Nat : n = Min({8000, m}) /\ n <= 8000
    BY <1>2
<1>4. Max({20, n}) = IF 20 >= n THEN 20 ELSE n
    <2>1. 20 \in Nat
        OBVIOUS
    <2>. QED BY <2>1, MinMaxOfTwo, SMT
<1>5. PICK b \in Bitrates : b = Max({20, n})
    <2>1. PICK b \in Nat : b = (IF 20 >= n THEN 20 ELSE n) /\ b <= 8000
        BY <1>3
    <2>2. b \in Bitrates
        BY <2>1 DEF Bitrates
    <2>3. b = Max({20, n})
        BY <1>4, <2>1, SMT
    <2>. QED BY <2>2, <2>3, Zenon
<1>6. Custom(b) \in Qualities
    BY CustomType, Zenon
<1>7. convert_quality(q) \in {Low, Balanced, Best, Custom(b)}
    BY <1>1, <1>3, <1>5 DEF convert_quality
<1>. QED BY <1>6, <1>7, Zenon DEF Qualities

(* The changes of a user's data that the operations make. *)
LEMMA UserDataChanges ==
    ASSUME NEW u \in UserData
    PROVE  /\ \A f \in CustomFps : [u EXCEPT !.custom_fps = f] \in UserData
           /\ \A f \in AutoFps : [u EXCEPT !.auto_adjust_fps = f] \in UserData
           /\ \A q \in Qualities : [u EXCEPT !.quality = q] \in UserData
           /\ \A d \in Delays : [u EXCEPT !.delay = d] \in UserData
           /\ \A b \in BOOLEAN : [u EXCEPT !.response_delayed = b] \in UserData
BY DEF UserData, OptionOf

(* The data of a user, or of a fresh one. *)
LEMMA UserOfType ==
    ASSUME users \in [DOMAIN users -> UserData], NEW c
    PROVE  UserOf(c) \in UserData
BY NewUserType DEF UserOf

(* Putting a user's data in its place. *)
LEMMA WithUserIs ==
    ASSUME users \in [DOMAIN users -> UserData], NEW c, NEW u \in UserData,
           users' = WithUser(c, u)
    PROVE  /\ DOMAIN users' = DOMAIN users \cup {c}
           /\ users' \in [DOMAIN users' -> UserData]
           /\ users'[c] = u
           /\ \A d \in DOMAIN users : d # c => users'[d] = users[d]
<1>1. users' = [d \in DOMAIN users \cup {c} |-> IF d = c THEN u ELSE users[d]]
    BY DEF WithUser
<1>. QED BY <1>1

(* The first delay and the later ones are delays. *)
LEMMA DelayTypes ==
    ASSUME NEW d \in Delays, NEW sample \in Nat
    PROVE  /\ [state |-> Normal, staging_state |-> from_delay(sample),
               delay |-> sample, counter |-> 0, slower |-> None] \in Delays
           /\ \A mean \in Nat, new \in DelayStates, sl \in OptionOf(BOOLEAN) :
                 /\ [d EXCEPT !.delay = mean, !.counter = 0, !.state = d.staging_state,
                              !.staging_state = new] \in Delays
                 /\ [d EXCEPT !.delay = mean, !.counter = 0, !.staging_state = new,
                              !.slower = sl] \in Delays
           /\ \A mean \in Nat, n \in 0..DEBOUNCE - 1 :
                 [d EXCEPT !.delay = mean, !.counter = n] \in Delays
<1>1. from_delay(sample) \in DelayStates /\ Normal \in DelayStates /\ 0 \in 0..DEBOUNCE - 1
    BY DelayStateTypes DEF DelayStates, DEBOUNCE
<1>. QED BY <1>1 DEF Delays, OptionOf

(* A later delay changes a user's delay; unless there is a refresh the     *)
(* delay's state stays.                                                    *)
LEMMA NetworkDelayIs ==
    ASSUME users \in [DOMAIN users -> UserData], NEW c, NEW sample \in Nat,
           user_network_delay(c, sample)
    PROVE  /\ c \in DOMAIN users
           /\ users[c].delay \in Delays /\ users[c].delay # None
           /\ \E d \in Delays :
                 /\ users' = [users EXCEPT ![c] = [users[c] EXCEPT !.delay = d]]
                 /\ \/ refresh(users', order, FALSE)
                    \/ /\ d.state = users[c].delay.state
                       /\ UNCHANGED <<fps, quality, pending>>
<1>1. c \in DOMAIN users
    BY DEF user_network_delay, UserOf, NewUser
<1>2. users[c] \in UserData /\ users[c].delay # None
    BY <1>1 DEF user_network_delay, UserOf
<1>3. users[c].delay \in Delays
    BY <1>2 DEF UserData, OptionOf
<1>. DEFINE d == users[c].delay
            mean == (sample + d.delay) \div 2
            new == from_delay(mean)
            sl == slower_than(new, d.staging_state)
            n == d.counter + sample \div (1000 \div Unit) + 1
            flips == d.counter < DEBOUNCE /\ n >= DEBOUNCE
            flipped == [d EXCEPT !.delay = mean, !.counter = 0,
                                 !.state = d.staging_state, !.staging_state = new]
            counted == [d EXCEPT !.delay = mean, !.counter = n]
            turned == [d EXCEPT !.delay = mean, !.counter = 0,
                                !.staging_state = new, !.slower = sl]
<1>4. IF sl = d.slower
      THEN /\ users' = [users EXCEPT ![c].delay = IF flips THEN flipped ELSE counted]
           /\ IF users'[c].delay.counter % DEBOUNCE = 0
              THEN refresh(users', order, FALSE)
              ELSE UNCHANGED <<cacheVars, pending>>
      ELSE /\ users' = [users EXCEPT ![c].delay = turned]
           /\ UNCHANGED <<cacheVars, pending>>
    BY Zenon DEF user_network_delay
<1>5. d \in Delays
    BY <1>3
<1>. HIDE DEF d
<1>6. d.delay \in Nat /\ d.counter \in 0..DEBOUNCE - 1 /\ d.staging_state \in DelayStates
    BY <1>5 DEF Delays
<1>7. mean \in Nat
    BY <1>6
<1>. HIDE DEF mean
<1>8. new \in DelayStates
    BY <1>7, DelayStateTypes
<1>. HIDE DEF new
<1>9. sl \in OptionOf(BOOLEAN)
    BY DEF slower_than, OptionOf
<1>. HIDE DEF sl
<1>10. n \in Nat
    <2>1. sample \div (1000 \div Unit) \in Nat
        BY DelayStateTypes, DivIsNat
    <2>. QED BY <2>1, <1>6 DEF DEBOUNCE
<1>. HIDE DEF n
<1>11. flipped \in Delays /\ turned \in Delays
    BY <1>5, <1>7, <1>8, <1>9, DelayTypes
<1>12. flipped.counter = 0 /\ counted.counter = n /\ counted.state = d.state /\ turned.state = d.state
    BY <1>5 DEF Delays
<1>13. ~flips => counted \in Delays
    <2>1. ~flips => n \in 0..DEBOUNCE - 1
        BY <1>6, <1>10 DEF DEBOUNCE
    <2>. QED BY <2>1, <1>5, <1>7, DelayTypes
<1>. HIDE DEF flips, flipped, counted, turned
<1>14. CASE sl = d.slower /\ flips
    <2>1. users' = [users EXCEPT ![c].delay = flipped]
        BY <1>4, <1>14, Zenon
    <2>2. users' = [users EXCEPT ![c] = [users[c] EXCEPT !.delay = flipped]]
        BY <2>1
    <2>3. users'[c].delay = flipped
        BY <2>2, <1>1, <1>2 DEF UserData
    <2>4. users'[c].delay.counter % DEBOUNCE = 0
        BY <2>3, <1>12 DEF DEBOUNCE
    <2>5. refresh(users', order, FALSE)
        BY <1>4, <1>14, <2>4, Zenon
    <2>. QED BY <1>1, <1>2, <1>3, <1>11, <2>2, <2>5, Zenon
<1>15. CASE sl = d.slower /\ ~flips
    <2>1. users' = [users EXCEPT ![c].delay = counted]
        BY <1>4, <1>15, Zenon
    <2>2. users' = [users EXCEPT ![c] = [users[c] EXCEPT !.delay = counted]]
        BY <2>1
    <2>3. refresh(users', order, FALSE) \/ UNCHANGED <<cacheVars, pending>>
        BY <1>4, <1>15, Zenon
    <2>4. refresh(users', order, FALSE) \/ UNCHANGED <<fps, quality, pending>>
        BY <2>3 DEF cacheVars
    <2>. QED BY <1>1, <1>2, <1>3, <1>12, <1>13, <1>15, <2>2, <2>4, Zenon DEF d
<1>16. CASE sl # d.slower
    <2>1. users' = [users EXCEPT ![c].delay = turned] /\ UNCHANGED <<cacheVars, pending>>
        BY <1>4, <1>16, Zenon
    <2>2. users' = [users EXCEPT ![c] = [users[c] EXCEPT !.delay = turned]]
        BY <2>1
    <2>3. UNCHANGED <<fps, quality, pending>>
        BY <2>1 DEF cacheVars
    <2>. QED BY <1>1, <1>2, <1>3, <1>11, <1>12, <2>2, <2>3, Zenon DEF d
<1>. QED BY <1>14, <1>15, <1>16, Zenon

(* Every step keeps the users' data and the users open. *)
LEMMA UsersStep ==
    ASSUME UsersInv, [Next]_vars
    PROVE  UsersInv'
<1>. USE DEF UsersInv
<1>1. CASE UNCHANGED vars
    BY <1>1 DEF vars, userVars, cacheVars
<1>2. CASE set_support_abr
    BY <1>2 DEF set_support_abr, userVars
<1>3. ASSUME NEW c \in Conns \ closed, NEW f \in CustomFps, user_custom_fps(c, f)
      PROVE  UsersInv'
    <2>1. PICK u \in UserData : users' = WithUser(c, u)
        BY <1>3, UserOfType, UserDataChanges DEF user_custom_fps
    <2>2. pending' = {} /\ UNCHANGED <<abr, closed>>
        BY <1>3 DEF user_custom_fps, refresh
    <2>. QED BY <2>1, <2>2, WithUserIs
<1>4. ASSUME NEW c \in Conns \ closed, NEW f \in AutoFps, user_auto_adjust_fps(c, f)
      PROVE  UsersInv'
    <2>1. PICK u \in UserData : users' = WithUser(c, u)
        BY <1>4, UserOfType, UserDataChanges DEF user_auto_adjust_fps
    <2>2. pending' = {} /\ UNCHANGED <<abr, closed>>
        BY <1>4 DEF user_auto_adjust_fps, refresh
    <2>. QED BY <2>1, <2>2, WithUserIs
<1>5. ASSUME NEW c \in Conns \ closed, NEW q \in ImageQualities, user_image_quality(c, q)
      PROVE  UsersInv'
    <2>1. convert_quality(q) \in Qualities
        BY InputsAssumption, ConvertQualityType
    <2>2. PICK u \in UserData : users' = WithUser(c, u)
        BY <1>5, <2>1, UserOfType, UserDataChanges DEF user_image_quality
    <2>3. pending' = {} /\ UNCHANGED <<abr, closed>>
        BY <1>5 DEF user_image_quality, refresh
    <2>. QED BY <2>2, <2>3, WithUserIs
<1>6. ASSUME NEW c \in Conns \ closed, NEW sample \in Samples, user_first_delay(c, sample)
      PROVE  UsersInv'
    <2>1. [state |-> Normal, staging_state |-> from_delay(sample),
           delay |-> sample, counter |-> 0, slower |-> None] \in Delays
        BY InputsAssumption, DelayStateTypes DEF Delays, OptionOf, DelayStates, DEBOUNCE
    <2>2. PICK u \in UserData : users' = WithUser(c, u)
        BY <1>6, <2>1, UserOfType, UserDataChanges DEF user_first_delay
    <2>3. pending' \subseteq pending \cup {c} /\ UNCHANGED <<abr, closed>>
        BY <1>6 DEF user_first_delay
    <2>4. DOMAIN users' = DOMAIN users \cup {c} /\ users' \in [DOMAIN users' -> UserData]
        BY <2>2, WithUserIs
    <2>. QED BY <2>3, <2>4
<1>7. ASSUME NEW c \in Conns \ closed, NEW sample \in Samples, user_network_delay(c, sample)
      PROVE  UsersInv'
    <2>1. sample \in Nat
        BY InputsAssumption
    <2>2. PICK d \in Delays : users' = [users EXCEPT ![c] = [users[c] EXCEPT !.delay = d]]
        BY <1>7, <2>1, NetworkDelayIs
    <2>3. c \in DOMAIN users
        BY <1>7, <2>1, NetworkDelayIs
    <2>4. [users[c] EXCEPT !.delay = d] \in UserData
        BY <2>3, UserDataChanges
    <2>5. pending' \subseteq pending
        BY <1>7, <2>1, NetworkDelayIs DEF refresh
    <2>6. UNCHANGED <<abr, closed>>
        BY <1>7 DEF user_network_delay
    <2>. QED BY <2>2, <2>3, <2>4, <2>5, <2>6
<1>8. ASSUME NEW c \in Conns \ closed, NEW b \in BOOLEAN, user_delay_response_elapsed(c, b)
      PROVE  UsersInv'
    <2>1. c \in DOMAIN users /\ users' = [users EXCEPT ![c] = [users[c] EXCEPT !.response_delayed = b]]
        BY <1>8 DEF user_delay_response_elapsed
    <2>2. [users[c] EXCEPT !.response_delayed = b] \in UserData
        BY <2>1, UserDataChanges
    <2>3. pending' = {} /\ UNCHANGED <<abr, closed>>
        BY <1>8 DEF user_delay_response_elapsed, refresh
    <2>. QED BY <2>1, <2>2, <2>3
<1>9. ASSUME NEW c \in Conns \ closed, on_connection_close(c)
      PROVE  UsersInv'
    <2>1. users' = [d \in DOMAIN users \ {c} |-> users[d]]
        BY <1>9 DEF on_connection_close
    <2>2. pending' = {} /\ closed' = closed \cup {c} /\ abr' = abr
        BY <1>9 DEF on_connection_close, refresh
    <2>. QED BY <2>1, <2>2
<1>. HIDE DEF UsersInv
<1>. QED BY <1>1, <1>2, <1>3, <1>4, <1>5, <1>6, <1>7, <1>8, <1>9 DEF Next, Measure

(* Appending a new element to a sequence without duplicates. *)
LEMMA AppendNew ==
    ASSUME NEW S, NEW r \in Seq(S), NEW c \in S, c \notin ToSet(r),
           \A i, j \in DOMAIN r : r[i] = r[j] => i = j
    PROVE  /\ Append(r, c) \in Seq(S)
           /\ \A i, j \in DOMAIN Append(r, c) : Append(r, c)[i] = Append(r, c)[j] => i = j
           /\ ToSet(Append(r, c)) = ToSet(r) \cup {c}
<1>1. PICK a \in Seq(S) : /\ a = Append(r, c)
                          /\ Len(a) = Len(r) + 1
                          /\ \A i \in 1..Len(r) : a[i] = r[i]
                          /\ a[Len(r) + 1] = c
    <2>1. /\ Append(r, c) \in Seq(S)
          /\ Len(Append(r, c)) = Len(r) + 1
          /\ \A i \in 1..Len(r) : Append(r, c)[i] = r[i]
          /\ Append(r, c)[Len(r) + 1] = c
        BY AppendProperties
    <2>. QED BY <2>1, Zenon
<1>2. \A i \in 1..Len(r) : r[i] # c
    BY DEF ToSet
<1>3. \A i, j \in 1..Len(r) : r[i] = r[j] => i = j
    OBVIOUS
<1>4. \A i, j \in 1..Len(a) : a[i] = a[j] => i = j
    BY <1>1, <1>2, <1>3
<1>5. ToSet(a) = ToSet(r) \cup {c}
    <2>1. ToSet(a) = {a[i] : i \in 1..Len(a)} /\ ToSet(r) = {r[i] : i \in 1..Len(r)}
        BY DEF ToSet
    <2>2. \A i \in 1..Len(a) : a[i] \in ToSet(r) \cup {c}
        BY <1>1, <2>1
    <2>3. \A i \in 1..Len(r) : r[i] \in ToSet(a)
        BY <1>1, <2>1
    <2>4. c \in ToSet(a)
        BY <1>1, <2>1
    <2>. QED BY <2>1, <2>2, <2>3, <2>4
<1>6. DOMAIN a = 1..Len(a)
    OBVIOUS
<1>. QED BY <1>1, <1>4, <1>5, <1>6

(* order keeps listing exactly the users that set a quality. *)
LEMMA OrderStep ==
    ASSUME UsersInv, OrderInv, [Next]_vars
    PROVE  OrderInv'
<1>. DEFINE Asked == {c \in DOMAIN users : users[c].quality # None}
<1>0. users \in [DOMAIN users -> UserData] /\ ToSet(order) = Asked
    BY DEF UsersInv, OrderInv
<1>1. ASSUME UNCHANGED order, DOMAIN users \subseteq DOMAIN users',
             \A d \in DOMAIN users' :
                users'[d].quality = IF d \in DOMAIN users THEN users[d].quality ELSE None
      PROVE  OrderInv'
    <2>1. Asked' = Asked
        BY <1>1
    <2>. QED BY <1>1, <2>1, Zenon DEF OrderInv
<1>2. ASSUME NEW c, NEW u \in UserData, u.quality = UserOf(c).quality, users' = WithUser(c, u),
             UNCHANGED order
      PROVE  OrderInv'
    <2>1. /\ DOMAIN users' = DOMAIN users \cup {c}
          /\ users'[c] = u
          /\ \A d \in DOMAIN users : d # c => users'[d] = users[d]
        BY <1>0, <1>2, WithUserIs
    <2>2. u.quality = IF c \in DOMAIN users THEN users[c].quality ELSE None
        BY <1>2 DEF UserOf, NewUser
    <2>3. \A d \in DOMAIN users' :
             users'[d].quality = IF d \in DOMAIN users THEN users[d].quality ELSE None
        BY <2>1, <2>2
    <2>4. DOMAIN users \subseteq DOMAIN users'
        BY <2>1
    <2>. QED BY <1>1, <1>2, <2>3, <2>4
<1>3. ASSUME NEW c \in DOMAIN users, NEW u \in UserData, u.quality = users[c].quality,
             users' = [users EXCEPT ![c] = u], UNCHANGED order
      PROVE  OrderInv'
    <2>1. /\ DOMAIN users' = DOMAIN users
          /\ users'[c] = u
          /\ \A d \in DOMAIN users : d # c => users'[d] = users[d]
        BY <1>0, <1>3
    <2>2. \A d \in DOMAIN users' :
             users'[d].quality = IF d \in DOMAIN users THEN users[d].quality ELSE None
        BY <1>3, <2>1
    <2>3. DOMAIN users \subseteq DOMAIN users'
        BY <2>1
    <2>. QED BY <1>1, <1>3, <2>2, <2>3
<1>4. CASE UNCHANGED vars
    BY <1>1, <1>4 DEF vars, userVars
<1>5. CASE set_support_abr
    BY <1>1, <1>5 DEF set_support_abr, userVars
<1>6. ASSUME NEW c \in Conns \ closed, NEW f \in CustomFps, user_custom_fps(c, f)
      PROVE  OrderInv'
    <2>1. PICK v \in UserData : v = UserOf(c)
        BY <1>0, UserOfType
    <2>2. /\ [v EXCEPT !.custom_fps = f] \in UserData
          /\ [v EXCEPT !.custom_fps = f].quality = v.quality
        BY UserDataChanges DEF UserData
    <2>3. users' = WithUser(c, [v EXCEPT !.custom_fps = f]) /\ UNCHANGED order
        BY <1>6, <2>1 DEF user_custom_fps
    <2>. QED BY <1>2, <2>1, <2>2, <2>3
<1>7. ASSUME NEW c \in Conns \ closed, NEW f \in AutoFps, user_auto_adjust_fps(c, f)
      PROVE  OrderInv'
    <2>1. PICK v \in UserData : v = UserOf(c)
        BY <1>0, UserOfType
    <2>2. /\ [v EXCEPT !.auto_adjust_fps = f] \in UserData
          /\ [v EXCEPT !.auto_adjust_fps = f].quality = v.quality
        BY UserDataChanges DEF UserData
    <2>3. users' = WithUser(c, [v EXCEPT !.auto_adjust_fps = f]) /\ UNCHANGED order
        BY <1>7, <2>1 DEF user_auto_adjust_fps
    <2>. QED BY <1>2, <2>1, <2>2, <2>3
<1>8. ASSUME NEW c \in Conns \ closed, NEW q \in ImageQualities, user_image_quality(c, q)
      PROVE  OrderInv'
    <2>1. convert_quality(q) \in Qualities /\ convert_quality(q) # None
        BY InputsAssumption, NoneAssumption, ConvertQualityType
    <2>2. PICK u \in UserData : users' = WithUser(c, u) /\ u.quality = convert_quality(q)
        <3>1. PICK v \in UserData : v = UserOf(c)
            BY <1>0, UserOfType
        <3>2. /\ [v EXCEPT !.quality = convert_quality(q)] \in UserData
              /\ [v EXCEPT !.quality = convert_quality(q)].quality = convert_quality(q)
            BY <2>1, UserDataChanges DEF UserData
        <3>3. users' = WithUser(c, [v EXCEPT !.quality = convert_quality(q)])
            BY <1>8, <3>1 DEF user_image_quality
        <3>. QED BY <3>2, <3>3
    <2>3. /\ DOMAIN users' = DOMAIN users \cup {c}
          /\ users'[c] = u
          /\ \A d \in DOMAIN users : d # c => users'[d] = users[d]
        BY <1>0, <2>2, WithUserIs
    <2>4. Asked' = Asked \cup {c}
        BY <2>1, <2>2, <2>3
    <2>5. PICK r \in Seq(Conns) : /\ r = RemoveFirst(order, c)
                                  /\ \A i, j \in DOMAIN r : r[i] = r[j] => i = j
                                  /\ ToSet(r) = Asked \ {c}
        BY <1>0, RemoveFirstRemoves DEF OrderInv
    <2>6. order' = Append(r, c)
        BY <1>8, <2>5 DEF user_image_quality
    <2>7. /\ order' \in Seq(Conns)
          /\ \A i, j \in DOMAIN order' : order'[i] = order'[j] => i = j
          /\ ToSet(order') = ToSet(r) \cup {c}
        BY <2>5, <2>6, AppendNew
    <2>8. ToSet(order') = Asked'
        BY <2>4, <2>5, <2>7, Zenon
    <2>. QED BY <2>7, <2>8, Zenon DEF OrderInv
<1>9. ASSUME NEW c \in Conns \ closed, NEW sample \in Samples, user_first_delay(c, sample)
       PROVE  OrderInv'
    <2>1. PICK v \in UserData : v = UserOf(c)
        BY <1>0, UserOfType
    <2>2. PICK d \in Delays : d = [state |-> Normal, staging_state |-> from_delay(sample),
                                   delay |-> sample, counter |-> 0, slower |-> None]
        <3>1. [state |-> Normal, staging_state |-> from_delay(sample),
               delay |-> sample, counter |-> 0, slower |-> None] \in Delays
            BY InputsAssumption, DelayStateTypes DEF Delays, OptionOf, DelayStates, DEBOUNCE
        <3>. QED BY <3>1, Zenon
    <2>3. /\ [v EXCEPT !.delay = d] \in UserData
          /\ [v EXCEPT !.delay = d].quality = v.quality
        BY UserDataChanges DEF UserData
    <2>4. users' = WithUser(c, [v EXCEPT !.delay = d]) /\ UNCHANGED order
        BY <1>9, <2>1, <2>2 DEF user_first_delay
    <2>. QED BY <1>2, <2>1, <2>3, <2>4
<1>10. ASSUME NEW c \in Conns \ closed, NEW sample \in Samples, user_network_delay(c, sample)
       PROVE  OrderInv'
    <2>1. sample \in Nat
        BY InputsAssumption
    <2>2. c \in DOMAIN users
        BY <1>0, <1>10, <2>1, NetworkDelayIs
    <2>3. PICK d \in Delays : users' = [users EXCEPT ![c] = [users[c] EXCEPT !.delay = d]]
        BY <1>0, <1>10, <2>1, NetworkDelayIs
    <2>4. /\ [users[c] EXCEPT !.delay = d] \in UserData
          /\ [users[c] EXCEPT !.delay = d].quality = users[c].quality
        BY <1>0, <2>2, UserDataChanges DEF UserData
    <2>5. UNCHANGED order
        BY <1>10 DEF user_network_delay
    <2>. QED BY <1>3, <2>2, <2>3, <2>4, <2>5
<1>11. ASSUME NEW c \in Conns \ closed, NEW b \in BOOLEAN, user_delay_response_elapsed(c, b)
       PROVE  OrderInv'
    <2>1. c \in DOMAIN users /\ users' = [users EXCEPT ![c] = [users[c] EXCEPT !.response_delayed = b]]
        BY <1>11 DEF user_delay_response_elapsed
    <2>2. /\ [users[c] EXCEPT !.response_delayed = b] \in UserData
          /\ [users[c] EXCEPT !.response_delayed = b].quality = users[c].quality
        BY <1>0, <2>1, UserDataChanges DEF UserData
    <2>3. UNCHANGED order
        BY <1>11 DEF user_delay_response_elapsed
    <2>. QED BY <1>3, <2>1, <2>2, <2>3
<1>12. ASSUME NEW c \in Conns \ closed, on_connection_close(c)
       PROVE  OrderInv'
    <2>1. users' = [d \in DOMAIN users \ {c} |-> users[d]]
        BY <1>12 DEF on_connection_close
    <2>2. Asked' = Asked \ {c}
        BY <2>1
    <2>3. PICK r \in Seq(Conns) : /\ r = RemoveFirst(order, c)
                                  /\ \A i, j \in DOMAIN r : r[i] = r[j] => i = j
                                  /\ ToSet(r) = Asked \ {c}
        BY <1>0, RemoveFirstRemoves DEF OrderInv
    <2>4. order' = r
        BY <1>12, <2>3 DEF on_connection_close
    <2>. QED BY <2>2, <2>3, <2>4, Zenon DEF OrderInv
<1>. QED BY <1>4, <1>5, <1>6, <1>7, <1>8, <1>9, <1>10, <1>11, <1>12 DEF Next, Measure

-----------------------------------------------------------------------------
(* The frame rate.                                                         *)

(* A user's frame rate is a number, and a user that asked for at least     *)
(* four frames a second has a vote on the slowest network too.             *)
LEMMA UserFpsIs ==
    ASSUME NEW u \in UserData
    PROVE  user_fps(u) \in Nat /\ (asked_fps(u) >= 4 => user_fps(u) >= MIN_FPS)
<1>1. PICK cf \in OptionOf(CustomFps), af \in OptionOf(AutoFps) :
         cf = u.custom_fps /\ af = u.auto_adjust_fps
    BY DEF UserData
<1>2. PICK asked \in Nat : asked = asked_fps(u)
    <2>1. PICK custom \in Nat : custom = IF u.custom_fps = None THEN FPS ELSE u.custom_fps
        BY <1>1, InputsAssumption DEF OptionOf, FPS
    <2>2. asked_fps(u) = IF u.auto_adjust_fps # None /\ (custom = 0 \/ u.auto_adjust_fps < custom)
                         THEN u.auto_adjust_fps ELSE custom
        BY <2>1, Zenon DEF asked_fps
    <2>3. u.auto_adjust_fps # None => u.auto_adjust_fps \in Nat
        BY <1>1, InputsAssumption DEF OptionOf
    <2>. QED BY <2>2, <2>3
<1>3. PICK state \in DelayStates : state = IF u.delay = None THEN Normal ELSE u.delay.state
    BY DEF UserData, OptionOf, Delays, DelayStates
<1>4. PICK delayed \in Nat : delayed = delayed_fps(u) /\ (asked >= 4 => delayed >= 1)
    <2>1. delayed_fps(u) = CASE state = Normal -> asked
                             [] state = LowDelay -> (asked * 3) \div 4
                             [] state = HighDelay -> asked \div 2
                             [] state = Broken -> asked \div 4
        BY <1>2, <1>3, Zenon DEF delayed_fps
    <2>2. delayed_fps(u) \in {asked, (asked * 3) \div 4, asked \div 2, asked \div 4}
        BY <2>1 DEF DelayStates
    <2>. QED BY <2>2
<1>5. Min({delayed, MIN_FPS + 2}) = IF delayed <= 3 THEN delayed ELSE 3
    <2>1. MIN_FPS + 2 = 3 /\ 3 \in Nat
        BY DEF MIN_FPS
    <2>. QED BY <2>1, MinMaxOfTwo
<1>6. user_fps(u) = IF u.response_delayed THEN (IF delayed <= 3 THEN delayed ELSE 3) ELSE delayed
    BY <1>4, <1>5, Zenon DEF user_fps
<1>. QED BY <1>2, <1>4, <1>6 DEF MIN_FPS

(* The votes of the users. *)
Voting(us) == {f \in {user_fps(us[c]) : c \in DOMAIN us} : f >= MIN_FPS}

(* The frame rate is in range, and no vote is below it. *)
LEMMA FpsOfIs ==
    ASSUME NEW us, us \in [DOMAIN us -> UserData]
    PROVE  /\ fps_of(us) \in MIN_FPS..MAX_FPS
           /\ \A c \in DOMAIN us :
                 user_fps(us[c]) >= MIN_FPS => fps_of(us) <= user_fps(us[c])
<1>1. \A c \in DOMAIN us : user_fps(us[c]) \in Nat
    BY UserFpsIs
<1>2. Voting(us) \in SUBSET Nat /\ \A f \in Voting(us) : f >= 1
    BY <1>1 DEF Voting, MIN_FPS
<1>3. fps_of(us) = IF Voting(us) = {} THEN FPS ELSE Min({MAX_FPS, Min(Voting(us))})
    BY DEF fps_of, Voting
<1>4. \A c \in DOMAIN us : user_fps(us[c]) >= MIN_FPS => user_fps(us[c]) \in Voting(us)
    BY DEF Voting
<1>5. CASE Voting(us) = {}
    BY <1>3, <1>4, <1>5 DEF FPS, MIN_FPS, MAX_FPS
<1>6. CASE Voting(us) # {}
    <2>1. PICK m \in Voting(us) : m = Min(Voting(us)) /\ \A f \in Voting(us) : m <= f
        BY <1>2, <1>6, MinIsLeast
    <2>2. m \in Nat /\ m >= 1
        BY <1>2
    <2>3. Min({MAX_FPS, m}) = IF MAX_FPS <= m THEN MAX_FPS ELSE m
        <3>1. MAX_FPS \in Nat
            BY DEF MAX_FPS
        <3>. QED BY <2>2, <3>1, MinMaxOfTwo
    <2>4. fps_of(us) = IF MAX_FPS <= m THEN MAX_FPS ELSE m
        BY <1>3, <1>6, <2>1, <2>3, Zenon
    <2>5. fps_of(us) \in MIN_FPS..MAX_FPS /\ fps_of(us) <= m
        BY <2>2, <2>4 DEF MIN_FPS, MAX_FPS
    <2>6. ASSUME NEW c \in DOMAIN us, user_fps(us[c]) >= MIN_FPS
          PROVE  fps_of(us) <= user_fps(us[c])
        <3>1. m <= user_fps(us[c]) /\ user_fps(us[c]) \in Nat
            BY <1>1, <1>4, <2>1, <2>6
        <3>2. fps_of(us) \in Nat
            BY <2>5 DEF MIN_FPS, MAX_FPS
        <3>. QED BY <2>2, <2>5, <3>1, <3>2
    <2>. QED BY <2>5, <2>6
<1>. QED BY <1>5, <1>6

(* Only the votes matter. *)
LEMMA SameVotesSameFps ==
    ASSUME NEW us, NEW vs, DOMAIN us = DOMAIN vs,
           \A c \in DOMAIN us : user_fps(us[c]) = user_fps(vs[c])
    PROVE  fps_of(us) = fps_of(vs)
<1>1. {user_fps(us[c]) : c \in DOMAIN us} = {user_fps(vs[c]) : c \in DOMAIN vs}
    OBVIOUS
<1>. QED BY <1>1, Zenon DEF fps_of

(* A delay state that stays keeps a user's vote. *)
LEMMA SameStateSameVote ==
    ASSUME NEW u \in UserData, NEW d \in Delays,
           d.state = IF u.delay = None THEN Normal ELSE u.delay.state
    PROVE  user_fps([u EXCEPT !.delay = d]) = user_fps(u)
<1>1. PICK v \in UserData : v = [u EXCEPT !.delay = d]
    BY UserDataChanges
<1>2. /\ v.delay = d
      /\ v.custom_fps = u.custom_fps
      /\ v.auto_adjust_fps = u.auto_adjust_fps
      /\ v.response_delayed = u.response_delayed
    BY <1>1 DEF UserData
<1>3. asked_fps(v) = asked_fps(u)
    BY <1>2, Zenon DEF asked_fps
<1>4. delayed_fps(v) = delayed_fps(u)
    BY <1>2, <1>3, NoneAssumption, Zenon DEF delayed_fps
<1>. QED BY <1>1, <1>2, <1>4, Zenon DEF user_fps

(* The first delay of a user counts as a good network. *)
LEMMA FirstDelayIs ==
    ASSUME UsersInv, NEW c, NEW sample \in Nat, user_first_delay(c, sample)
    PROVE  \E d \in Delays :
              /\ d.state = Normal
              /\ users' = WithUser(c, [UserOf(c) EXCEPT !.delay = d])
<1>. DEFINE d == [state |-> Normal, staging_state |-> from_delay(sample),
                  delay |-> sample, counter |-> 0, slower |-> None]
<1>1. d \in Delays /\ d.state = Normal
    BY DelayStateTypes DEF Delays, OptionOf, DelayStates, DEBOUNCE
<1>2. users' = WithUser(c, [UserOf(c) EXCEPT !.delay = d])
    BY DEF user_first_delay
<1>. HIDE DEF d
<1>. QED BY <1>1, <1>2, Zenon

(* A refresh brings the frame rate up to date. *)
LEMMA RefreshMakesCurrent ==
    ASSUME UsersInv', NEW ord, NEW b, refresh(users', ord, b)
    PROVE  FpsIsCurrent'
<1>1. fps' = fps_of(users') /\ pending' = {}
    BY DEF refresh
<1>2. [c \in DOMAIN users' \ pending' |-> users'[c]] = users'
    BY <1>1 DEF UsersInv
<1>. QED BY <1>1, <1>2, Zenon DEF FpsIsCurrent

(* Without a refresh the counted users and their votes stay. *)
LEMMA SameVotesStayCurrent ==
    ASSUME FpsIsCurrent, UNCHANGED fps,
           DOMAIN users' \ pending' = DOMAIN users \ pending,
           \A c \in DOMAIN users \ pending : user_fps(users'[c]) = user_fps(users[c])
    PROVE  FpsIsCurrent'
<1>1. PICK us : us = [c \in DOMAIN users \ pending |-> users[c]]
    OBVIOUS
<1>2. PICK vs : vs = [c \in DOMAIN users' \ pending' |-> users'[c]]
    OBVIOUS
<1>3. DOMAIN vs = DOMAIN us /\ \A c \in DOMAIN us : user_fps(us[c]) = user_fps(vs[c])
    BY <1>1, <1>2
<1>4. fps_of(us) = fps_of(vs)
    BY <1>3, SameVotesSameFps
<1>. QED BY <1>1, <1>2, <1>4, Zenon DEF FpsIsCurrent

(* Every step keeps the frame rate up to date. *)
LEMMA FpsStep ==
    ASSUME UsersInv, UsersInv', FpsIsCurrent, [Next]_vars
    PROVE  FpsIsCurrent'
<1>0. users \in [DOMAIN users -> UserData] /\ pending \subseteq DOMAIN users
    BY DEF UsersInv
<1>1. CASE UNCHANGED vars
    BY <1>1, SameVotesStayCurrent DEF vars, userVars, cacheVars
<1>2. CASE set_support_abr
    BY <1>2, SameVotesStayCurrent DEF set_support_abr, userVars, cacheVars
<1>3. ASSUME NEW c, NEW f, user_custom_fps(c, f) PROVE FpsIsCurrent'
    BY <1>3, RefreshMakesCurrent DEF user_custom_fps
<1>4. ASSUME NEW c, NEW f, user_auto_adjust_fps(c, f) PROVE FpsIsCurrent'
    BY <1>4, RefreshMakesCurrent DEF user_auto_adjust_fps
<1>5. ASSUME NEW c, NEW q, user_image_quality(c, q) PROVE FpsIsCurrent'
    BY <1>5, RefreshMakesCurrent DEF user_image_quality
<1>6. ASSUME NEW c, NEW sample \in Samples, user_first_delay(c, sample) PROVE FpsIsCurrent'
    <2>1. PICK d \in Delays : /\ d.state = Normal
                              /\ users' = WithUser(c, [UserOf(c) EXCEPT !.delay = d])
        BY <1>6, InputsAssumption, FirstDelayIs
    <2>2. PICK u \in UserData : u = [UserOf(c) EXCEPT !.delay = d]
        BY <1>0, UserOfType, UserDataChanges
    <2>3. /\ DOMAIN users' = DOMAIN users \cup {c}
          /\ users'[c] = u
          /\ \A e \in DOMAIN users : e # c => users'[e] = users[e]
        BY <1>0, <2>1, <2>2, WithUserIs
    <2>4. /\ UNCHANGED fps
          /\ UserOf(c).delay = None
          /\ pending' = IF c \in DOMAIN users THEN pending ELSE pending \cup {c}
        BY <1>6 DEF user_first_delay, cacheVars
    <2>5. DOMAIN users' \ pending' = DOMAIN users \ pending
        BY <1>0, <2>3, <2>4
    <2>6. c \in DOMAIN users => user_fps(users'[c]) = user_fps(users[c])
        <3>1. user_fps([UserOf(c) EXCEPT !.delay = d]) = user_fps(UserOf(c))
            BY <1>0, <2>1, <2>4, UserOfType, SameStateSameVote
        <3>. QED BY <2>2, <2>3, <3>1 DEF UserOf
    <2>. QED BY <2>3, <2>4, <2>5, <2>6, SameVotesStayCurrent
<1>7. ASSUME NEW c, NEW sample \in Samples, user_network_delay(c, sample) PROVE FpsIsCurrent'
    <2>1. sample \in Nat
        BY InputsAssumption
    <2>2. c \in DOMAIN users /\ users[c].delay # None
        BY <1>0, <1>7, <2>1, NetworkDelayIs
    <2>3. PICK d \in Delays :
             /\ users' = [users EXCEPT ![c] = [users[c] EXCEPT !.delay = d]]
             /\ \/ refresh(users', order, FALSE)
                \/ d.state = users[c].delay.state /\ UNCHANGED <<fps, quality, pending>>
        BY <1>0, <1>7, <2>1, NetworkDelayIs, Zenon
    <2>4. CASE refresh(users', order, FALSE)
        BY <2>4, RefreshMakesCurrent
    <2>5. CASE d.state = users[c].delay.state /\ UNCHANGED <<fps, quality, pending>>
        <3>1. user_fps([users[c] EXCEPT !.delay = d]) = user_fps(users[c])
            BY <1>0, <2>2, <2>5, SameStateSameVote
        <3>2. /\ DOMAIN users' = DOMAIN users
              /\ \A e \in DOMAIN users :
                    users'[e] = IF e = c THEN [users[c] EXCEPT !.delay = d] ELSE users[e]
            BY <1>0, <2>2, <2>3
        <3>3. \A e \in DOMAIN users : user_fps(users'[e]) = user_fps(users[e])
            BY <3>1, <3>2, Zenon
        <3>. QED BY <2>5, <3>2, <3>3, SameVotesStayCurrent
    <2>. QED BY <2>3, <2>4, <2>5
<1>8. ASSUME NEW c, NEW b, user_delay_response_elapsed(c, b) PROVE FpsIsCurrent'
    BY <1>8, RefreshMakesCurrent DEF user_delay_response_elapsed
<1>9. ASSUME NEW c, on_connection_close(c) PROVE FpsIsCurrent'
    BY <1>9, RefreshMakesCurrent DEF on_connection_close
<1>. QED BY <1>1, <1>2, <1>3, <1>4, <1>5, <1>6, <1>7, <1>8, <1>9 DEF Next, Measure

-----------------------------------------------------------------------------
(* The quality.                                                            *)

(* The quality asked for last is one that a user has. *)
LEMMA LatestType ==
    ASSUME UsersInv, OrderInv
    PROVE  /\ order # <<>> => Last(order) \in DOMAIN users
           /\ latest_quality(users, order) \in Qualities
<1>1. CASE order = <<>>
    BY <1>1 DEF latest_quality, Qualities
<1>2. CASE order # <<>>
    <2>1. Len(order) \in DOMAIN order
        BY <1>2 DEF OrderInv
    <2>2. Last(order) \in ToSet(order)
        BY <2>1, Zenon DEF Last, ToSet
    <2>3. Last(order) \in DOMAIN users /\ users[Last(order)].quality # None
        BY <2>2 DEF OrderInv
    <2>4. users[Last(order)].quality \in Qualities
        BY <2>3 DEF UsersInv, UserData, OptionOf
    <2>. QED BY <1>2, <2>3, <2>4, Zenon DEF latest_quality
<1>. QED BY <1>1, <1>2

(* The delay states of the users, with the state nobody is above. *)
StatesOf(us) ==
    {Normal} \cup {us[c].delay.state : c \in {d \in DOMAIN us : us[d].delay # None}}

(* The worst delay is a delay state. *)
LEMMA WorstDelayType ==
    ASSUME NEW us, us \in [DOMAIN us -> UserData]
    PROVE  worst_delay(us) \in DelayStates
<1>1. StatesOf(us) \subseteq DelayStates /\ StatesOf(us) # {}
    BY DEF StatesOf, UserData, OptionOf, Delays, DelayStates
<1>2. PICK n \in Nat : \A y \in DelayStates : y <= n
    <2>1. Normal \in Nat /\ LowDelay \in Nat /\ HighDelay \in Nat /\ Broken \in Nat
        BY DelayStateTypes DEF DelayStates
    <2>2. LowDelay + HighDelay + Broken \in Nat
        BY <2>1
    <2>3. \A y \in DelayStates : y <= LowDelay + HighDelay + Broken
        BY <2>1 DEF DelayStates, Normal
    <2>. QED BY <2>2, <2>3
<1>3. Max(StatesOf(us)) \in StatesOf(us)
    <2>1. StatesOf(us) \in SUBSET Nat /\ \A y \in StatesOf(us) : y <= n
        BY <1>1, <1>2, DelayStateTypes
    <2>. QED BY <1>1, <2>1, MaxIsGreatest
<1>. QED BY <1>1, <1>3, Zenon DEF worst_delay, StatesOf

(* On every network the next quality is one that quality() hands out. *)
LEMMA NextQualityType ==
    ASSUME NEW q \in Qualities, NEW latest \in Qualities, NEW state \in DelayStates
    PROVE  /\ recovered(q, latest) \in Qualities
           /\ state # Normal => degraded(q, state) \in Qualities
<1>1. ASSUME NEW p \in Qualities
      PROVE  \/ p \in {Best, Balanced, Low} /\ ~IsCustom(p)
             \/ p \notin {Best, Balanced, Low} /\ IsCustom(p) /\ p.b \in Bitrates
    <2>1. CASE p \in {Best, Balanced, Low}
        BY <2>1 DEF Best, Balanced, Low, IsCustom
    <2>2. CASE p \notin {Best, Balanced, Low}
        <3>1. PICK n \in Bitrates : p = Custom(n)
            BY <2>2, Zenon DEF Qualities
        <3>. QED BY <2>2, <3>1 DEF Custom, IsCustom
    <2>. QED BY <2>1, <2>2
<1>2. recovered(q, latest) \in Qualities
    <2>1. CASE IsCustom(latest)
        <3>1. latest.b \div 2 \in Bitrates
            <4>1. PICK n \in Bitrates : n = latest.b
                BY <1>1, <2>1
            <4>2. n \div 2 \in Bitrates
                BY DEF Bitrates
            <4>. QED BY <4>1, <4>2, Zenon
        <3>2. Custom(latest.b \div 2) \in Qualities
            BY <3>1, CustomType
        <3>3. recovered(q, latest) \in {Balanced, Custom(latest.b \div 2), latest}
            BY Zenon DEF recovered
        <3>. QED BY <3>2, <3>3, Zenon DEF Qualities
    <2>2. CASE ~IsCustom(latest)
        <3>1. recovered(q, latest) \in {Balanced, latest}
            BY <2>2, Zenon DEF recovered
        <3>. QED BY <3>1, Zenon DEF Qualities
    <2>. QED BY <2>1, <2>2
<1>3. ASSUME state # Normal PROVE degraded(q, state) \in Qualities
    <2>1. CASE q \in {Best, Balanced, Low}
        <3>1. ~IsCustom(q)
            BY <1>1, <2>1
        <3>2. degraded(q, state) \in {Balanced, Low}
            BY <2>1, <3>1, Zenon DEF degraded
        <3>. QED BY <3>2, Zenon DEF Qualities
    <2>2. CASE q \notin {Best, Balanced, Low}
        <3>1. IsCustom(q) /\ q.b \in Bitrates
            BY <1>1, <2>2
        <3>. DEFINE low == IF q.b >= 150 THEN 100 ELSE Min({50, q.b})
                    high == IF q.b >= 100 THEN 50 ELSE Min({25, q.b})
                    broken == IF q.b >= 50 THEN 25 ELSE Min({10, q.b})
        <3>2. PICK n \in Bitrates : n = q.b
            BY <3>1, Zenon
        <3>3. n \in Nat /\ n <= 8000
            BY DEF Bitrates
        <3>4. /\ Min({50, n}) = IF 50 <= n THEN 50 ELSE n
              /\ Min({25, n}) = IF 25 <= n THEN 25 ELSE n
              /\ Min({10, n}) = IF 10 <= n THEN 10 ELSE n
            <4>1. 50 \in Nat /\ 25 \in Nat /\ 10 \in Nat
                OBVIOUS
            <4>. QED BY <3>3, <4>1, MinMaxOfTwo, SMT
        <3>5. /\ (IF n >= 150 THEN 100 ELSE Min({50, n})) \in Bitrates
              /\ (IF n >= 100 THEN 50 ELSE Min({25, n})) \in Bitrates
              /\ (IF n >= 50 THEN 25 ELSE Min({10, n})) \in Bitrates
            BY <3>3, <3>4 DEF Bitrates
        <3>6. low \in Bitrates /\ high \in Bitrates /\ broken \in Bitrates
            BY <3>2, <3>5, Zenon
        <3>7. state \in {LowDelay, HighDelay, Broken}
            BY <1>3 DEF DelayStates
        <3>8. degraded(q, state) \in {Custom(low), Custom(high), Custom(broken)}
            BY <2>2, <3>1, <3>7, Zenon DEF degraded
        <3>. HIDE DEF low, high, broken
        <3>9. Custom(low) \in Qualities /\ Custom(high) \in Qualities /\ Custom(broken) \in Qualities
            BY <3>6, CustomType
        <3>. QED BY <3>8, <3>9, Zenon
    <2>. QED BY <2>1, <2>2
<1>. QED BY <1>2, <1>3

(* A step refreshes, or it leaves the cache, the quality asked for last    *)
(* and the worst delay as they are.                                        *)
LEMMA RefreshOrKeep ==
    ASSUME UsersInv, OrderInv, [Next]_vars
    PROVE  \/ (\E b \in BOOLEAN : refresh(users', order', b)) /\ abr' = abr
           \/ /\ UNCHANGED <<fps, quality>>
              /\ latest_quality(users', order') = latest_quality(users, order)
              /\ worst_delay(users') = worst_delay(users)
<1>0. users \in [DOMAIN users -> UserData]
    BY DEF UsersInv
<1>1. CASE UNCHANGED vars \/ set_support_abr
    BY <1>1, Zenon DEF vars, cacheVars, userVars, set_support_abr
<1>2. ASSUME NEW c, NEW u, UNCHANGED order, u.quality = UserOf(c).quality,
             /\ DOMAIN users' = DOMAIN users \cup {c}
             /\ users'[c] = u
             /\ \A e \in DOMAIN users : e # c => users'[e] = users[e]
      PROVE  latest_quality(users', order') = latest_quality(users, order)
    <2>1. \A e \in DOMAIN users : users'[e].quality = users[e].quality
        BY <1>2 DEF UserOf
    <2>2. order # <<>> => Last(order) \in DOMAIN users
        BY LatestType
    <2>. QED BY <1>2, <2>1, <2>2, Zenon DEF latest_quality
<1>3. ASSUME StatesOf(users') = StatesOf(users)
      PROVE  worst_delay(users') = worst_delay(users)
    BY <1>3, Zenon DEF worst_delay, StatesOf
<1>4. ASSUME NEW c, NEW sample \in Samples, user_first_delay(c, sample)
      PROVE  /\ UNCHANGED <<fps, quality>>
             /\ latest_quality(users', order') = latest_quality(users, order)
             /\ worst_delay(users') = worst_delay(users)
    <2>1. PICK d \in Delays : /\ d.state = Normal
                              /\ users' = WithUser(c, [UserOf(c) EXCEPT !.delay = d])
        BY <1>4, InputsAssumption, FirstDelayIs
    <2>2. PICK v \in UserData : v = UserOf(c)
        BY <1>0, UserOfType
    <2>3. PICK u \in UserData : u = [v EXCEPT !.delay = d]
        BY UserDataChanges
    <2>4. u.delay = d /\ u.quality = v.quality
        BY <2>3 DEF UserData
    <2>5. /\ DOMAIN users' = DOMAIN users \cup {c}
          /\ users'[c] = u
          /\ \A e \in DOMAIN users : e # c => users'[e] = users[e]
        BY <1>0, <2>1, <2>2, <2>3, WithUserIs
    <2>6. UNCHANGED <<fps, quality>> /\ UNCHANGED order /\ UserOf(c).delay = None
        BY <1>4 DEF user_first_delay, cacheVars
    <2>7. latest_quality(users', order') = latest_quality(users, order)
        BY <1>2, <2>2, <2>4, <2>5, <2>6
    <2>8. \A e \in DOMAIN users : users[e].delay # None => e # c
        BY <2>6 DEF UserOf
    <2>9. StatesOf(users') = StatesOf(users)
        <3>1. ASSUME NEW e \in DOMAIN users', users'[e].delay # None
              PROVE  users'[e].delay.state \in StatesOf(users)
            <4>1. CASE e = c
                BY <2>1, <2>4, <2>5, <4>1 DEF StatesOf
            <4>2. CASE e # c
                BY <2>5, <3>1, <4>2 DEF StatesOf
            <4>. QED BY <4>1, <4>2
        <3>2. ASSUME NEW e \in DOMAIN users, users[e].delay # None
              PROVE  users[e].delay.state \in StatesOf(users')
            BY <2>5, <2>8, <3>2 DEF StatesOf
        <3>. QED BY <3>1, <3>2 DEF StatesOf
    <2>. QED BY <1>3, <2>6, <2>7, <2>9
<1>5. ASSUME NEW c, NEW sample \in Samples, user_network_delay(c, sample)
      PROVE  \/ refresh(users', order', FALSE) /\ abr' = abr
             \/ /\ UNCHANGED <<fps, quality>>
                /\ latest_quality(users', order') = latest_quality(users, order)
                /\ worst_delay(users') = worst_delay(users)
    <2>1. sample \in Nat
        BY InputsAssumption
    <2>2. c \in DOMAIN users /\ users[c].delay # None /\ users[c].delay \in Delays
        BY <1>0, <1>5, <2>1, NetworkDelayIs
    <2>3. PICK d \in Delays :
             /\ users' = [users EXCEPT ![c] = [users[c] EXCEPT !.delay = d]]
             /\ \/ refresh(users', order, FALSE)
                \/ d.state = users[c].delay.state /\ UNCHANGED <<fps, quality, pending>>
        BY <1>0, <1>5, <2>1, NetworkDelayIs, Zenon
    <2>4. UNCHANGED <<order, abr>>
        BY <1>5 DEF user_network_delay
    <2>5. CASE refresh(users', order, FALSE)
        BY <2>4, <2>5, Zenon
    <2>6. CASE d.state = users[c].delay.state /\ UNCHANGED <<fps, quality, pending>>
        <3>1. PICK u \in UserData : u = [users[c] EXCEPT !.delay = d]
            BY <1>0, <2>2, UserDataChanges
        <3>2. u.delay = d /\ u.quality = users[c].quality
            BY <1>0, <2>2, <3>1 DEF UserData
        <3>3. /\ DOMAIN users' = DOMAIN users \cup {c}
              /\ users'[c] = u
              /\ \A e \in DOMAIN users : e # c => users'[e] = users[e]
            BY <1>0, <2>2, <2>3, <3>1
        <3>4. latest_quality(users', order') = latest_quality(users, order)
            BY <1>2, <2>2, <2>4, <3>2, <3>3 DEF UserOf
        <3>5. d # None
            BY NoneAssumption
        <3>6. ASSUME NEW e \in DOMAIN users
              PROVE  /\ users'[e].delay # None <=> users[e].delay # None
                     /\ users[e].delay # None => users'[e].delay.state = users[e].delay.state
            <4>1. CASE e = c
                BY <2>2, <2>6, <3>2, <3>3, <3>5, <4>1
            <4>2. CASE e # c
                BY <3>3, <4>2
            <4>. QED BY <4>1, <4>2
        <3>7. StatesOf(users') = StatesOf(users)
            <4>1. DOMAIN users' = DOMAIN users
                BY <2>2, <3>3
            <4>. QED BY <3>6, <4>1 DEF StatesOf
        <3>. QED BY <1>3, <2>6, <3>4, <3>7
    <2>. QED BY <2>3, <2>5, <2>6
<1>6. ASSUME NEW c, \/ \E f : user_custom_fps(c, f) \/ user_auto_adjust_fps(c, f)
                    \/ \E q : user_image_quality(c, q)
                    \/ \E b : user_delay_response_elapsed(c, b)
                    \/ on_connection_close(c)
      PROVE  (\E b \in BOOLEAN : refresh(users', order', b)) /\ abr' = abr
    BY <1>6, Zenon DEF user_custom_fps, user_auto_adjust_fps, user_image_quality,
                       user_delay_response_elapsed, on_connection_close
<1>. QED BY <1>1, <1>4, <1>5, <1>6, Zenon DEF Next, Measure

(* Every step keeps the cached values in range. *)
LEMMA QoSStep ==
    ASSUME QoSInv, [Next]_vars
    PROVE  QoSInv'
<1>1. UsersInv' /\ OrderInv'
    BY UsersStep, OrderStep DEF QoSInv
<1>2. ASSUME NEW b \in BOOLEAN, refresh(users', order', b)
      PROVE  fps' \in MIN_FPS..MAX_FPS /\ quality' \in Qualities
    <2>1. fps' = fps_of(users') /\ quality' = quality_of(users', order', b)
        BY <1>2 DEF refresh
    <2>2. users' \in [DOMAIN users' -> UserData]
        BY <1>1 DEF UsersInv
    <2>3. fps' \in MIN_FPS..MAX_FPS
        BY <2>1, <2>2, FpsOfIs
    <2>4. PICK latest \in Qualities : latest = latest_quality(users', order')
        <3>1. (latest_quality(users, order) \in Qualities)'
            BY <1>1, LatestType, PTL
        <3>. QED BY <3>1, Zenon
    <2>5. PICK state \in DelayStates : state = worst_delay(users')
        BY <2>2, WorstDelayType, Zenon
    <2>6. /\ recovered(quality, latest) \in Qualities
          /\ state # Normal => degraded(quality, state) \in Qualities
        BY NextQualityType DEF QoSInv
    <2>7. \/ quality' \in {latest, recovered(quality, latest)}
          \/ state # Normal /\ quality' = degraded(quality, state)
        BY <2>1, <2>4, <2>5, Zenon DEF quality_of
    <2>. QED BY <2>3, <2>6, <2>7
<1>3. fps' \in MIN_FPS..MAX_FPS /\ quality' \in Qualities
    BY <1>2, RefreshOrKeep DEF QoSInv
<1>. QED BY <1>1, <1>3 DEF QoSInv

(* On a good network every step leads to a quality that was asked for. *)
LEMMA GoodNetworkStep ==
    ASSUME UsersInv, OrderInv, GoodNetworkMeansAskedQuality, [Next]_vars
    PROVE  GoodNetworkMeansAskedQuality'
<1>1. ASSUME NEW b \in BOOLEAN, refresh(users', order', b), worst_delay(users') = Normal,
             NEW latest, latest = latest_quality(users', order')
      PROVE  \/ quality' = latest
             \/ quality' = Balanced /\ latest = Best
             \/ IsCustom(latest) /\ quality' = Custom(latest.b \div 2)
    <2>1. quality' = quality_of(users', order', b)
        BY <1>1 DEF refresh
    <2>2. quality' = latest \/ quality' = recovered(quality, latest)
        BY <1>1, <2>1, Zenon DEF quality_of
    <2>. QED BY <2>2, Zenon DEF recovered
<1>2. CASE \E b \in BOOLEAN : refresh(users', order', b)
    BY <1>1, <1>2, Zenon DEF GoodNetworkMeansAskedQuality
<1>3. CASE /\ UNCHANGED <<fps, quality>>
           /\ latest_quality(users', order') = latest_quality(users, order)
           /\ worst_delay(users') = worst_delay(users)
    <2>1. quality' = quality
        BY <1>3
    <2>. QED BY <1>3, <2>1, Zenon DEF GoodNetworkMeansAskedQuality
<1>. QED BY <1>2, <1>3, RefreshOrKeep

-----------------------------------------------------------------------------
(* The theorems.                                                           *)

(* The initial state. *)
LEMMA QoSInit ==
    ASSUME Init
    PROVE  QoSInv /\ FpsIsCurrent /\ GoodNetworkMeansAskedQuality
<1>1. DOMAIN users = {} /\ users = [c \in {} |-> NewUser]
    BY DEF Init
<1>2. UsersInv
    BY <1>1 DEF Init, UsersInv
<1>3. OrderInv
    BY <1>1 DEF Init, OrderInv, ToSet
<1>4. fps \in MIN_FPS..MAX_FPS /\ quality \in Qualities
    BY DEF Init, FPS, MIN_FPS, MAX_FPS, Qualities
<1>5. FpsIsCurrent
    <2>1. PICK us : us = [c \in DOMAIN users \ pending |-> users[c]]
        OBVIOUS
    <2>2. DOMAIN us = {}
        BY <1>1, <2>1
    <2>3. fps_of(us) = FPS
        BY <2>2 DEF fps_of
    <2>. QED BY <2>1, <2>3, Zenon DEF Init, FpsIsCurrent
<1>6. quality = latest_quality(users, order)
    BY Zenon DEF Init, latest_quality
<1>. QED BY <1>2, <1>3, <1>4, <1>5, <1>6, Zenon DEF QoSInv, GoodNetworkMeansAskedQuality

(* fps() and quality() always hand out values in their ranges; a debounce  *)
(* counter never passes its limit, a closed connection is not a user, and  *)
(* order lists exactly the users that set a quality.                       *)
THEOREM QoSInvHolds == Spec => []QoSInv
<1>1. QoSInv /\ [Next]_vars => QoSInv'
    BY QoSStep
<1>. QED BY <1>1, QoSInit, PTL DEF Spec

(* The cached frame rate is the one the users' present data give: no       *)
(* operation of VideoQoS forgets to refresh.                               *)
THEOREM FpsIsCurrentHolds == Spec => []FpsIsCurrent
<1>1. QoSInv /\ QoSInv' /\ FpsIsCurrent /\ [Next]_vars => FpsIsCurrent'
    BY FpsStep DEF QoSInv
<1>. QED BY <1>1, QoSInit, QoSInvHolds, PTL DEF Spec

(* A user that asked for at least four frames a second is never given more *)
(* than its network and its response time allow, whatever the others do    *)
(* and whatever the divisions in refresh round away.                       *)
THEOREM SlowUserCountsHolds == Spec => []SlowUserCounts
<1>1. QoSInv /\ FpsIsCurrent => SlowUserCounts
    <2>. SUFFICES ASSUME QoSInv, FpsIsCurrent, NEW c \in DOMAIN users \ pending,
                         asked_fps(users[c]) >= 4
                  PROVE  fps <= user_fps(users[c])
        BY DEF SlowUserCounts
    <2>1. PICK us : us = [d \in DOMAIN users \ pending |-> users[d]]
        OBVIOUS
    <2>2. us \in [DOMAIN us -> UserData] /\ c \in DOMAIN us /\ us[c] = users[c]
        BY <2>1 DEF QoSInv, UsersInv
    <2>3. user_fps(us[c]) >= MIN_FPS
        BY <2>2, UserFpsIs
    <2>4. fps = fps_of(us)
        BY <2>1, Zenon DEF FpsIsCurrent
    <2>. QED BY <2>2, <2>3, <2>4, FpsOfIs
<1>. QED BY <1>1, QoSInvHolds, FpsIsCurrentHolds, PTL

(* With every network good, the quality is what was asked for last or one  *)
(* step of recovery below it, also after the user who asked for another    *)
(* one has left.                                                           *)
THEOREM GoodNetworkHolds == Spec => []GoodNetworkMeansAskedQuality
<1>1. QoSInv /\ GoodNetworkMeansAskedQuality /\ [Next]_vars => GoodNetworkMeansAskedQuality'
    BY GoodNetworkStep DEF QoSInv
<1>. QED BY <1>1, QoSInit, QoSInvHolds, PTL DEF Spec

(* A network that becomes good is one of the histories of VideoQoS: what   *)
(* is proved of Spec holds on the way to the recovery too.                 *)
THEOREM RecoveryIsAHistory == RecoverySpec => Spec
<1>1. RecoveryInit => Init
    BY DEF RecoveryInit
<1>2. [RecoveryNext]_recoveryVars => [Next]_vars
    <2>. SUFFICES ASSUME [RecoveryNext]_recoveryVars PROVE [Next]_vars
        OBVIOUS
    <2>1. CASE UNCHANGED recoveryVars
        BY <2>1 DEF recoveryVars
    <2>2. CASE Turbulent \/ BecomeCalm
        BY <2>2 DEF Turbulent, BecomeCalm
    <2>3. ASSUME NEW c \in Conns, GoodSample(c) PROVE Next
        BY <2>3, CalmAssumption, Zenon DEF GoodSample, Next, Measure
    <2>4. ASSUME NEW c \in Conns, InTime(c) PROVE Next
        BY <2>4, Zenon DEF InTime, Next
    <2>. QED BY <2>1, <2>2, <2>3, <2>4 DEF RecoveryNext
<1>. QED BY <1>1, <1>2, PTL DEF RecoverySpec, Spec

=============================================================================
