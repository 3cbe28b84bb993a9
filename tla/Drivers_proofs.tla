--------------------------- MODULE Drivers_proofs ---------------------------
(***************************************************************************)
(* The components that stand on their own: the keys, for any keys, alone   *)
(* or together in a poll, and any gap; the search in the temperature       *)
(* table, for every falling table, whatever its size and its values; and   *)
(* the heap, for every division into its two parts and every size of a     *)
(* block.                                                                  *)
(***************************************************************************)
EXTENDS HalKey, NtcTable, NtcValues, OSAL_Memory, SequenceTheorems, TLAPS

(* The driver keeps its types: the modes are 0, 1 and 3, and the gap stops *)
(* counting at its end (hal_key.c:438-443).                                *)
THEOREM KeyTypes == KeySpec => []KeyTypeOK
<1>1. KeyInit => KeyTypeOK
  <2>1. 0 \in 0 .. MAX_DOUBLE_HIT_GAP
    BY KeyAssumption
  <2> QED
    BY <2>1 DEF KeyInit, KeyTypeOK
<1>2. KeyTypeOK /\ [Poll]_keyVars => KeyTypeOK'
  <2>1. ASSUME KeyTypeOK, NEW now \in SUBSET Keys, HalKeyPoll(now)
        PROVE  KeyTypeOK'
    <3>1. /\ hal_key_mode \in {0, 1, 3} /\ MAX_DOUBLE_HIT_GAP \in Nat \ {0}
          /\ key_depressed_gap \in 0 .. MAX_DOUBLE_HIT_GAP
          /\ halKeySavedKeystate \in SUBSET Keys
          /\ halKeySavedKeybounce \in SUBSET Keys
      BY <2>1, KeyAssumption DEF KeyTypeOK
    <3>2. hal_key_mode' \in {0, 1, 3}
      BY <2>1, <3>1 DEF HalKeyPoll, NextMode, ModeAfterBounce, ModeAfterExit
    <3>3. key_depressed_gap' \in 0 .. MAX_DOUBLE_HIT_GAP
      BY <2>1, <3>1 DEF HalKeyPoll, NextGap, GapIsOver
    <3>4. halKeySavedKeystate' \in SUBSET Keys /\ halKeySavedKeybounce' \in SUBSET Keys
      BY <2>1, <3>1 DEF HalKeyPoll, HalKeyBounce
    <3>5. double_hit' \in BOOLEAN
      BY <2>1 DEF HalKeyPoll
    <3> QED
      BY <3>2, <3>3, <3>4, <3>5 DEF KeyTypeOK
  <2>2. KeyTypeOK /\ UNCHANGED keyVars => KeyTypeOK'
    BY DEF KeyTypeOK, keyVars
  <2> QED
    BY <2>1, <2>2 DEF Poll
<1> QED
  BY <1>1, <1>2, PTL DEF KeySpec

(* A poll reports a shift only for a release under the power key.          *)
LEMMA ShiftIsRelease ==
  ASSUME NEW now, \E i \in DOMAIN Callbacks(now) : Callbacks(now)[i].state = "SHIFT"
  PROVE  HalKeyBounce(now) # {} /\ "PWR" \in now
<1>1. CASE HalKeyBounce(now) = {}
  BY <1>1 DEF Callbacks
<1>2. CASE HalKeyBounce(now) # {} /\ hal_key_mode = 3
  <2> DEFINE exit == [state |-> "EXIT_DOUBLE_HIT", keys |-> HalKeyBounce(now)]
             release == [state |-> BounceState(now), keys |-> HalKeyBounce(now)]
  <2>1. Callbacks(now) = <<exit>> \o <<release>>
    BY <1>2 DEF Callbacks
  <2>2. \A i \in DOMAIN Callbacks(now) : Callbacks(now)[i] \in {exit, release}
    <3>1. /\ <<exit>> \in Seq({exit, release}) /\ <<release>> \in Seq({exit, release})
      OBVIOUS
    <3> HIDE DEF exit, release
    <3> QED
      BY <2>1, <3>1, ConcatProperties
  <2>3. exit.state # "SHIFT"
    OBVIOUS
  <2>4. release.state = "SHIFT"
    <3> HIDE DEF exit, release
    <3> QED
      BY <2>2, <2>3
  <2> QED
    BY <1>2, <2>4 DEF BounceState
<1>3. CASE HalKeyBounce(now) # {} /\ hal_key_mode # 3
  <2>1. Callbacks(now) = <<[state |-> BounceState(now), keys |-> HalKeyBounce(now)]>>
    BY <1>3 DEF Callbacks
  <2> QED
    BY <1>3, <2>1 DEF BounceState
<1> QED
  BY <1>1, <1>2, <1>3

(* One step of ShiftLastsUnlessDoubleHit.                                  *)
ShiftLasts ==
  (hal_key_mode = 1 \/ ReportedAs("SHIFT")) /\ "PWR" \in halKeySavedKeystate'
    /\ ~double_hit /\ ~double_hit' => hal_key_mode' = 1

(* Only the end of a double hit takes the shift mode away while the power  *)
(* key is held (hal_key.c:405, 432).                                       *)
THEOREM ShiftLastsAlways == KeySpec => ShiftLastsUnlessDoubleHit
<1>1. KeyTypeOK /\ [Poll]_keyVars => [ShiftLasts]_keyVars
  <2> SUFFICES ASSUME KeyTypeOK, NEW now \in SUBSET Keys, HalKeyPoll(now),
                      hal_key_mode = 1 \/ ReportedAs("SHIFT"),
                      "PWR" \in halKeySavedKeystate', ~double_hit
               PROVE  hal_key_mode' = 1
    BY DEF Poll, ShiftLasts
  <2>1. halKeySavedKeystate' = now /\ "PWR" \in now
    BY DEF HalKeyPoll
  <2>2. hal_key_mode' = ModeAfterBounce(now)
    <3>1. key_depressed_gap \in Nat /\ MAX_DOUBLE_HIT_GAP \in Nat
      BY KeyAssumption DEF KeyTypeOK
    <3>2. ~(GapIsOver /\ StartsDoubleHit(HalKeyBounce(now)))
      BY <3>1 DEF GapIsOver, StartsDoubleHit
    <3> QED
      BY <3>2 DEF HalKeyPoll, NextMode
  <2>3. CASE hal_key_mode = 1
    BY <2>1, <2>2, <2>3 DEF ModeAfterBounce, ModeAfterExit
  <2>4. CASE ReportedAs("SHIFT")
    <3>1. HalKeyBounce(now) # {}
      BY <2>1, <2>4, ShiftIsRelease DEF ReportedAs
    <3> QED
      BY <2>1, <2>2, <3>1 DEF ModeAfterBounce
  <2> QED
    BY <2>3, <2>4
<1> QED
  BY <1>1, KeyTypes, PTL DEF KeySpec, ShiftLastsUnlessDoubleHit, ShiftLasts

-----------------------------------------------------------------------------
(* The temperature table *)

\* what the first comparisons and the loop condition add
Loop ==
  /\ searchPc # "done" => adcDat # AdcDat[Last]
  /\ searchPc = "search" => left < right
  /\ searchPc = "interpolate" => left >= right

IInv == SearchOK /\ Bracketed /\ Loop

\* A value is not above the first entry of the table.
LEMMA InTable ==
  ASSUME SearchOK
  PROVE  /\ adcDat \in Nat /\ adcDat <= AdcDat[0]
         /\ NTC_TABLE_SIZE \in 2 .. 128 /\ Last = NTC_TABLE_SIZE - 1
         /\ \A i \in 0 .. Last : AdcDat[i] \in Nat
BY TableAssumption DEF SearchOK, Last

LEMMA InitIInv == TableInit => IInv
<1> SUFFICES ASSUME TableInit PROVE IInv
  OBVIOUS
<1>1. Last \in 1 .. 127 /\ NTC_TABLE_SIZE \in 2 .. 128
  BY TableAssumption DEF Last
<1> QED
  BY <1>1 DEF TableInit, IInv, SearchOK, Bracketed, Loop

\* Each iteration keeps the value between what it left behind; the byte right
\* never wraps.
LEMMA SearchKeeps == IInv /\ Search => IInv'
<1> SUFFICES ASSUME IInv, Search PROVE IInv'
  OBVIOUS
<1>0. /\ adcDat \in Nat /\ adcDat <= AdcDat[0]
      /\ NTC_TABLE_SIZE \in 2 .. 128 /\ Last = NTC_TABLE_SIZE - 1
      /\ \A i \in 0 .. Last : AdcDat[i] \in Nat
  BY InTable DEF IInv
<1>1. /\ left \in 0 .. Last /\ right \in 0 .. Last /\ left < right
      /\ mid' = (left + right) \div 2 /\ adcDat' = adcDat
      /\ adcDat # AdcDat[Last]
      /\ left > 0 => AdcDat[left - 1] > adcDat
      /\ right < Last => adcDat > AdcDat[right + 1]
  BY <1>0 DEF Search, IInv, SearchOK, Bracketed, Loop
<1>2. mid' \in 0 .. Last /\ left <= mid' /\ mid' < right
  BY <1>0, <1>1
<1>3. CASE adcDat < AdcDat[mid']
  <2>1. left' = mid' + 1 /\ right' = right
        /\ searchPc' = IF left' < right THEN "search" ELSE "interpolate"
    BY <1>0, <1>2, <1>3 DEF Search
  <2>2. SearchOK'
    BY <1>0, <1>1, <1>2, <2>1 DEF SearchOK, IInv
  <2>3. Bracketed'
    BY <1>0, <1>1, <1>2, <1>3, <2>1 DEF Bracketed
  <2>4. Loop'
    BY <1>0, <1>1, <1>2, <2>1 DEF Loop
  <2> QED
    BY <2>2, <2>3, <2>4 DEF IInv
<1>4. CASE adcDat > AdcDat[mid']
  <2>1. right' = (mid' + 255) % 256 /\ left' = left
        /\ searchPc' = IF left < right' THEN "search" ELSE "interpolate"
    BY <1>0, <1>2, <1>4 DEF Search
  <2>2. mid' > 0
    BY <1>0, <1>2, <1>4
  <2>3. right' = mid' - 1
    BY <1>0, <1>2, <2>1, <2>2
  <2>4. SearchOK'
    BY <1>0, <1>1, <1>2, <2>1, <2>2, <2>3 DEF SearchOK, IInv
  <2>5. Bracketed'
    BY <1>0, <1>1, <1>2, <1>4, <2>1, <2>2, <2>3 DEF Bracketed
  <2>6. Loop'
    BY <1>0, <1>1, <1>2, <2>1, <2>2, <2>3 DEF Loop
  <2> QED
    BY <2>4, <2>5, <2>6 DEF IInv
<1>5. CASE adcDat = AdcDat[mid']
  <2>1. searchPc' = "done" /\ UNCHANGED <<left, right>>
    BY <1>0, <1>2, <1>5 DEF Search
  <2> QED
    BY <1>1, <1>2, <2>1 DEF IInv, SearchOK, Bracketed, Loop
<1>6. adcDat < AdcDat[mid'] \/ adcDat > AdcDat[mid'] \/ adcDat = AdcDat[mid']
  BY <1>0, <1>2
<1> QED
  BY <1>3, <1>4, <1>5, <1>6

LEMMA ReadsNeighboursHere == IInv => ReadsNeighbours
<1> SUFFICES ASSUME IInv, searchPc = "interpolate" PROVE ReadsNeighbours
  BY DEF ReadsNeighbours
<1>0. /\ adcDat \in Nat /\ adcDat <= AdcDat[0]
      /\ NTC_TABLE_SIZE \in 2 .. 128 /\ Last = NTC_TABLE_SIZE - 1
      /\ \A i \in 0 .. Last : AdcDat[i] \in Nat
  BY InTable DEF IInv
<1>1. /\ right \in 0 .. Last /\ left \in Nat
      /\ left >= right /\ left <= right + 1
      /\ left > 0 => AdcDat[left - 1] > adcDat
      /\ right < Last => adcDat > AdcDat[right + 1]
      /\ adcDat # AdcDat[Last]
  BY <1>0 DEF IInv, SearchOK, Bracketed, Loop
<1>2. CASE AdcDat[right] >= adcDat
  BY <1>0, <1>1, <1>2 DEF ReadsNeighbours
<1>3. CASE AdcDat[right] < adcDat
  <2>1. right > 0
    BY <1>0, <1>1, <1>3
  <2>2. left = right
    BY <1>0, <1>1, <1>3
  <2> QED
    BY <1>0, <1>1, <1>3, <2>1, <2>2 DEF ReadsNeighbours
<1> QED
  BY <1>0, <1>1, <1>2, <1>3

-----------------------------------------------------------------------------

\* The inductive invariant of the search.
LEMMA IInvInvariant == TableSpec => []IInv
<1>1. IInv /\ [TableNext]_tableVars => IInv'
  <2> SUFFICES ASSUME IInv, [TableNext]_tableVars PROVE IInv'
    OBVIOUS
  <2>1. CASE Interpolate
    BY <2>1 DEF IInv, SearchOK, Interpolate, Bracketed, Loop
  <2>2. CASE UNCHANGED tableVars
    BY <2>2 DEF IInv, SearchOK, tableVars, Bracketed, Loop
  <2> QED
    BY <2>1, <2>2, SearchKeeps DEF TableNext
<1> QED
  BY <1>1, InitIInv, PTL DEF TableSpec

\* The search never loses the value it looks for.
THEOREM BracketedInvariant == TableSpec => []Bracketed
<1>1. IInv => Bracketed
  BY DEF IInv
<1> QED
  BY <1>1, IInvInvariant, PTL

\* The interpolation reads the two neighbours of the value.
THEOREM ReadsNeighboursInvariant == TableSpec => []ReadsNeighbours
BY IInvInvariant, ReadsNeighboursHere, PTL

\* What the temperatures of the source rely on: entry 20 is wrong, so no value
\* that is looked up may equal it; a step of the table fits the 16 bits of the
\* interpolation; and the word behind the table is so far off that it adds
\* nothing to a value below the table.
OneWrongEntry ==
  /\ NTC_TABLE_SIZE = 86
  /\ \A i \in 0 .. Last : i # 20 => Temp[i] = Degree(i)
  /\ AdcDat[20] \notin Adcs
  /\ AdcDat[0] <= 6553
  /\ \A adc \in Adcs : adc < AdcDat[Last] =>
       (AdcDat[Last] - adc) * 10 < (AdcDat[Last] - Beyond) % 65536

\* The halves of 86 entries: entry 20 is compared on the way to its neighbours,
\* and is not the one that is left when the search ends.
Halves ==
  searchPc # "done" =>
    \/ left = 0 /\ right \in {41, 85} /\ searchPc = "search"
    \/ right <= 19
    \/ left = 21 /\ right \in {24, 30, 41} /\ searchPc = "search"
    \/ left = 21 /\ right = 21
    \/ left >= 22 /\ right >= 21

\* The table falls.
LEMMA Falls ==
  /\ \A i \in 0 .. Last : AdcDat[i] \in Nat
  /\ \A i, j \in 0 .. Last : i < j => AdcDat[i] > AdcDat[j]
BY TableAssumption, FallingAssumption

\* A part of a step is at most a degree.
LEMMA PartOfDegree ==
  ASSUME NEW above \in Nat, NEW below \in Nat, NEW gap \in Nat,
         below <= above, above - below <= gap, 0 < gap, gap <= 6553
  PROVE  /\ Part(above, below, gap) \in 0 .. 10
         /\ above = below => Part(above, below, gap) = 0
<1> DEFINE d == (above - below) * 10
<1>1. d \in 0 .. 10 * gap /\ (above = below => d = 0)
  OBVIOUS
<1>2. d % 65536 = d /\ gap % 65536 = gap
  BY <1>1
<1>3. Part(above, below, gap) = d \div gap
  BY <1>2 DEF Part
<1> HIDE DEF d
<1>4. d \div gap \in Nat /\ gap * (d \div gap) <= d
  BY <1>1
<1>5. ASSUME NEW q \in Nat, gap * q <= d, q > 10 PROVE FALSE
  <2>1. gap * q >= gap * 11
    BY <1>5
  <2> QED
    BY <1>1, <1>5, <2>1
<1>6. d \div gap <= 10
  BY <1>4, <1>5
<1>7. d = 0 => d \div gap = 0
  OBVIOUS
<1> QED
  BY <1>1, <1>3, <1>4, <1>6, <1>7

LEMMA HalvesInit ==
  ASSUME OneWrongEntry, TableInit PROVE Halves
<1>1. Last = 85
  BY DEF OneWrongEntry, Last
<1> QED
  BY <1>1 DEF TableInit, Halves

LEMMA HalvesKept ==
  ASSUME OneWrongEntry, IInv, Halves, [TableNext]_tableVars PROVE Halves'
<1>1. CASE Search
  <2>1. Last = 85
    BY DEF OneWrongEntry, Last
  <2>2. left \in 0 .. 85 /\ right \in 0 .. 85 /\ left < right /\ searchPc = "search"
    BY <1>1, <2>1 DEF Search, IInv, SearchOK, Loop
  <2>3. mid' = (left + right) \div 2 /\ left <= mid' /\ mid' < right /\ mid' \in Nat
    BY <1>1, <2>2 DEF Search
  <2>4. \/ left' = mid' + 1 /\ right' = right
           /\ searchPc' = IF left' < right' THEN "search" ELSE "interpolate"
        \/ right' = (mid' + 255) % 256 /\ left' = left
           /\ searchPc' = IF left' < right' THEN "search" ELSE "interpolate"
        \/ searchPc' = "done"
    BY <1>1 DEF Search
  <2>5. CASE left' = mid' + 1 /\ right' = right
             /\ searchPc' = IF left' < right' THEN "search" ELSE "interpolate"
    BY <2>2, <2>3, <2>5 DEF Halves
  <2>6. CASE right' = (mid' + 255) % 256 /\ left' = left
             /\ searchPc' = IF left' < right' THEN "search" ELSE "interpolate"
    <3>1. right' \in 0 .. Last'
      BY <1>1, SearchKeeps DEF IInv, SearchOK
    <3>2. right' = mid' - 1
      BY <2>1, <2>2, <2>3, <2>6, <3>1 DEF Last
    <3> QED
      BY <2>2, <2>3, <2>6, <3>2 DEF Halves
  <2> QED
    BY <2>4, <2>5, <2>6 DEF Halves
<1>2. CASE Interpolate
  BY <1>2 DEF Interpolate, Halves
<1>3. CASE UNCHANGED tableVars
  BY <1>3 DEF tableVars, Halves
<1> QED
  BY <1>1, <1>2, <1>3 DEF TableNext

\* What Accurate says of a temperature t for a value adc.
Within(adc, t) ==
  IF adc < AdcDat[Last] THEN t = Temp[Last]
  ELSE \A i \in 0 .. Last - 1 :
         AdcDat[i] >= adc /\ adc >= AdcDat[i + 1] => Degree(i) <= t /\ t <= Degree(i + 1)

\* An entry has its own temperature, unless it is the wrong one.
LEMMA AtEntry ==
  ASSUME OneWrongEntry, NEW m \in 0 .. Last, m # 20
  PROVE  Within(AdcDat[m], Temp[m])
<1>1. Last = 85 /\ Temp[m] = Degree(m)
  BY DEF OneWrongEntry, Last
<1>2. ~(AdcDat[m] < AdcDat[Last])
  <2>0. Last \in 0 .. Last /\ (m = Last \/ m < Last)
    BY <1>1
  <2>1. m = Last \/ AdcDat[m] > AdcDat[Last]
    BY <2>0, Falls
  <2>2. AdcDat[m] \in Nat /\ AdcDat[Last] \in Nat
    BY <2>0, Falls
  <2> QED
    BY <2>1, <2>2
<1>3. ASSUME NEW i \in 0 .. Last - 1, AdcDat[i] >= AdcDat[m], AdcDat[m] >= AdcDat[i + 1]
      PROVE  m = i \/ m = i + 1
  <2>1. i \in 0 .. Last /\ i + 1 \in 0 .. Last
    BY <1>1
  <2> DEFINE k == i + 1
  <2>2. k \in 0 .. Last
    BY <2>1
  <2>3. ~(m < i)
    <3>1. m < i => AdcDat[m] > AdcDat[i]
      BY <2>1, Falls
    <3>2. AdcDat[m] \in Nat /\ AdcDat[i] \in Nat
      BY <2>1, Falls
    <3> QED
      BY <1>3, <3>1, <3>2
  <2>4. ~(k < m)
    <3>0. AdcDat[m] >= AdcDat[k]
      BY <1>3
    <3> HIDE DEF k
    <3>1. k < m => AdcDat[k] > AdcDat[m]
      BY <2>2, Falls
    <3>2. AdcDat[m] \in Nat /\ AdcDat[k] \in Nat
      BY <2>2, Falls
    <3> QED
      BY <3>0, <3>1, <3>2
  <2> QED
    BY <1>1, <2>3, <2>4
<1>4. ASSUME NEW i \in 0 .. Last - 1, m = i \/ m = i + 1
      PROVE  Degree(i) <= Temp[m] /\ Temp[m] <= Degree(i + 1)
  <2>1. 0 \in 0 .. Last /\ Temp[0] \in Int
    BY <1>1, TempAssumption
  <2> QED
    BY <1>1, <1>4, <2>1 DEF Degree
<1> QED
  BY <1>2, <1>3, <1>4 DEF Within

\* Strictly between an entry and the next.
LEMMA BetweenEntries ==
  ASSUME OneWrongEntry, NEW m \in 0 .. Last - 1, NEW n \in 0 .. Last, n = m + 1,
         NEW adc \in Nat, NEW t \in Int,
         AdcDat[m] > adc, adc > AdcDat[n],
         Degree(m) <= t, t <= Degree(n)
  PROVE  Within(adc, t)
<1>1. Last = 85
  BY DEF OneWrongEntry, Last
<1>2. m \in 0 .. Last /\ Last \in 0 .. Last
  BY <1>1
<1>3. ~(adc < AdcDat[Last])
  <2>0. n = Last \/ n < Last
    BY <1>1
  <2>1. n = Last \/ AdcDat[n] > AdcDat[Last]
    BY <1>2, <2>0, Falls
  <2>2. AdcDat[n] \in Nat /\ AdcDat[Last] \in Nat
    BY <1>2, Falls
  <2> QED
    BY <2>1, <2>2
<1>4. ASSUME NEW i \in 0 .. Last - 1, AdcDat[i] >= adc, adc >= AdcDat[i + 1]
      PROVE  i = m
  <2> DEFINE k == i + 1
  <2>1. i \in 0 .. Last /\ k \in 0 .. Last /\ adc >= AdcDat[k] /\ k = i + 1
    BY <1>1, <1>4
  <2> HIDE DEF k
  <2>2. /\ AdcDat[m] \in Nat /\ AdcDat[n] \in Nat
        /\ AdcDat[i] \in Nat /\ AdcDat[k] \in Nat
    BY <1>2, <2>1, Falls
  <2>3. ~(i < m)
    <3>0. i < m => k = m \/ k < m
      BY <1>1, <2>1
    <3>1. i < m => k = m \/ AdcDat[k] > AdcDat[m]
      BY <1>2, <2>1, <3>0, Falls
    <3> QED
      BY <2>1, <2>2, <3>1
  <2>4. ~(m < i)
    <3>0. m < i => n = i \/ n < i
      BY <1>1, <2>1
    <3>1. m < i => n = i \/ AdcDat[n] > AdcDat[i]
      BY <2>1, <3>0, Falls
    <3> QED
      BY <1>4, <2>2, <3>1
  <2> QED
    BY <1>1, <2>3, <2>4
<1> QED
  BY <1>3, <1>4 DEF Within

\* The result of the interpolation.
LEMMA InterpolateAccurate ==
  ASSUME OneWrongEntry, IInv, Halves, Interpolate PROVE Within(adcDat, temp')
<1>1. Last = 85 /\ NTC_TABLE_SIZE = 86 /\ searchPc = "interpolate"
  BY DEF OneWrongEntry, Last, Interpolate
<1>2. /\ adcDat \in Adcs /\ adcDat \in Nat
      /\ left \in 0 .. 85 /\ right \in 0 .. 85 /\ left >= right
      /\ right < Last => adcDat > AdcDat[right + 1]
      /\ adcDat # AdcDat[Last]
      /\ right # 20
  BY <1>1, InTable DEF IInv, SearchOK, Loop, Bracketed, Halves
<1>3. /\ \A i \in 0 .. Last : AdcDat[i] \in Nat /\ AdcDat[i] <= 6553
      /\ \A i \in 0 .. Last : Temp[i] \in Int
      /\ Temp[right] = Degree(right)
  <2>1. 0 \in 0 .. Last /\ AdcDat[0] <= 6553
    BY <1>1 DEF OneWrongEntry
  <2>2. ASSUME NEW i \in 0 .. Last PROVE AdcDat[i] \in Nat /\ (i = 0 \/ AdcDat[0] > AdcDat[i])
    <3>1. i = 0 \/ 0 < i
      OBVIOUS
    <3> QED
      BY <2>1, <3>1, Falls
  <2>3. right \in 0 .. Last /\ Temp[right] = Degree(right)
    BY <1>1, <1>2 DEF OneWrongEntry
  <2> QED
    BY <2>1, <2>2, <2>3, TempAssumption
<1>4. \A i \in 0 .. 84, k \in 0 .. 85 : k = i + 1 =>
        Degree(k) = Degree(i) + 10 /\ Degree(i) \in Int /\ Degree(k) \in Int
  <2>1. Temp[0] \in Int
    BY <1>1, <1>3
  <2> QED
    BY <2>1 DEF Degree
<1>5. CASE AdcDat[right] >= adcDat /\ right < Last
  <2> DEFINE n == right + 1
             gap == AdcDat[right] - AdcDat[n]
             part == Part(AdcDat[right], adcDat, gap)
  <2>1. temp' = Temp[right] + part
    BY <1>1, <1>2, <1>5 DEF Interpolate, Entry
  <2>2. /\ n \in 0 .. Last /\ right \in 0 .. Last - 1 /\ right \in 0 .. 84 /\ n = right + 1
        /\ n \in 0 .. 85 /\ adcDat > AdcDat[n] /\ right \in 0 .. Last
    BY <1>1, <1>2, <1>5
  <2> HIDE DEF n
  <2>3. /\ AdcDat[n] \in Nat /\ AdcDat[right] \in Nat /\ AdcDat[right] <= 6553
        /\ gap \in Nat /\ 0 < gap /\ gap <= 6553 /\ AdcDat[right] - adcDat <= gap
    BY <1>2, <1>3, <1>5, <2>2
  <2> HIDE DEF gap
  <2>4. part \in 0 .. 10 /\ (AdcDat[right] = adcDat => part = 0)
    BY <1>2, <1>5, <2>3, PartOfDegree
  <2> HIDE DEF part
  <2>5. CASE AdcDat[right] = adcDat
    <3>1. temp' = Temp[right]
      BY <1>3, <2>1, <2>2, <2>4, <2>5
    <3> QED
      BY <1>2, <2>2, <2>5, <3>1, AtEntry
  <2>6. CASE AdcDat[right] > adcDat
    <3>1. /\ Degree(n) = Degree(right) + 10 /\ Degree(right) \in Int
          /\ Temp[right] = Degree(right)
      BY <1>3, <1>4, <2>2
    <3>2. temp' \in Int /\ Degree(right) <= temp' /\ temp' <= Degree(n)
      BY <2>1, <2>4, <3>1
    <3> QED
      BY <1>2, <2>2, <2>6, <3>2, BetweenEntries
  <2> QED
    BY <1>2, <1>5, <2>3, <2>5, <2>6
<1>6. CASE AdcDat[right] >= adcDat /\ right = Last
  <2>0. AdcDat[Last] \in Nat /\ AdcDat[Last] <= 6553 /\ Temp[Last] \in Int /\ Beyond \in Nat
    <3>1. Last \in 0 .. Last
      BY <1>1
    <3> QED
      BY <1>3, <3>1, FallingAssumption
  <2>1. adcDat < AdcDat[Last]
    BY <1>2, <1>6, <2>0
  <2>2. temp' = Temp[Last] + Part(AdcDat[Last], adcDat, AdcDat[Last] - Beyond)
    BY <1>1, <1>6 DEF Interpolate, Entry
  <2>3. (AdcDat[Last] - adcDat) * 10 < (AdcDat[Last] - Beyond) % 65536
    BY <1>2, <2>1 DEF OneWrongEntry
  <2>4. Part(AdcDat[Last], adcDat, AdcDat[Last] - Beyond) = 0
    <3> DEFINE d == (AdcDat[Last] - adcDat) * 10
               g == (AdcDat[Last] - Beyond) % 65536
    <3>2. d \in Nat /\ d <= 65530 /\ g \in Nat /\ d < g
      BY <1>2, <2>0, <2>1, <2>3
    <3>3. Part(AdcDat[Last], adcDat, AdcDat[Last] - Beyond) = (d % 65536) \div g
      BY DEF Part
    <3> HIDE DEF d, g
    <3>4. d % 65536 = d /\ d \div g = 0
      BY <3>2
    <3> QED
      BY <3>3, <3>4
  <2>5. temp' = Temp[Last]
    BY <2>0, <2>2, <2>4
  <2> QED
    BY <2>1, <2>5 DEF Within
<1>7. CASE AdcDat[right] < adcDat
  <2> DEFINE m == right - 1
             gap == AdcDat[m] - AdcDat[right]
             part == Part(adcDat, AdcDat[right], gap)
  <2>1. right > 0 /\ AdcDat[m] > adcDat
    <3>1. ReadsNeighbours /\ right \in 0 .. Last /\ AdcDat[right] \in Nat
      BY <1>1, <1>2, <1>3, ReadsNeighboursHere
    <3> QED
      BY <1>1, <1>2, <1>7, <3>1 DEF ReadsNeighbours
  <2>2. temp' = Temp[right] - part
    <3>1. AdcDat[right] \in Nat
      BY <1>1, <1>2, <1>3
    <3> QED
      BY <1>1, <1>2, <1>7, <3>1 DEF Interpolate
  <2>3. /\ m \in 0 .. Last /\ m \in 0 .. Last - 1 /\ m \in 0 .. 84 /\ right = m + 1
        /\ right \in 0 .. Last
    BY <1>1, <1>2, <2>1
  <2> HIDE DEF m
  <2>4. /\ AdcDat[m] \in Nat /\ AdcDat[right] \in Nat /\ AdcDat[m] <= 6553
        /\ gap \in Nat /\ 0 < gap /\ gap <= 6553 /\ adcDat - AdcDat[right] <= gap
    BY <1>2, <1>3, <1>7, <2>1, <2>3
  <2> HIDE DEF gap
  <2>5. part \in 0 .. 10
    BY <1>2, <1>7, <2>4, PartOfDegree
  <2> HIDE DEF part
  <2>6. temp' \in Int /\ Degree(m) <= temp' /\ temp' <= Degree(right)
    BY <1>2, <1>3, <1>4, <2>2, <2>3, <2>5, SMTT(40)
  <2> QED
    BY <1>2, <1>7, <2>1, <2>3, <2>6, BetweenEntries
<1> QED
  <2>1. right \in 0 .. Last /\ AdcDat[right] \in Nat
    BY <1>1, <1>2, <1>3
  <2> QED
    BY <1>1, <1>2, <2>1, <1>5, <1>6, <1>7

\* The inductive invariant of the temperatures.
Accuracy == IInv /\ Halves /\ (searchPc = "done" => Within(adcDat, temp))

LEMMA AccuracyInit ==
  ASSUME OneWrongEntry, TableInit PROVE Accuracy
<1>1. IInv /\ Halves
  BY InitIInv, HalvesInit
<1>2. Last = 85 /\ 0 \in 0 .. Last /\ Last \in 0 .. Last
  BY DEF OneWrongEntry, Last
<1>3. Within(AdcDat[0], Temp[0]) /\ Within(AdcDat[Last], Temp[Last])
  BY <1>2, AtEntry
<1>4. searchPc = "done" => Within(adcDat, temp)
  BY <1>3 DEF TableInit
<1> QED
  BY <1>1, <1>4 DEF Accuracy

LEMMA AccuracyKept ==
  ASSUME OneWrongEntry, Accuracy, [TableNext]_tableVars PROVE Accuracy'
<1>1. Halves' /\ IInv /\ Halves
  BY HalvesKept DEF Accuracy
<1>2. CASE Search
  <2>1. IInv'
    BY <1>1, <1>2, SearchKeeps
  <2>2. ASSUME searchPc' = "done" PROVE Within(adcDat', temp')
    <3>1. /\ adcDat = AdcDat[mid'] /\ temp' = Temp[mid'] /\ adcDat' = adcDat
          /\ adcDat \in Adcs /\ mid' \in 0 .. Last
      BY <1>1, <1>2, <2>1, <2>2 DEF Search, IInv, SearchOK
    <3>2. mid' # 20
      BY <3>1 DEF OneWrongEntry
    <3> QED
      BY <3>1, <3>2, AtEntry
  <2> QED
    BY <1>1, <2>1, <2>2 DEF Accuracy, Within
<1>3. CASE Interpolate
  <2>1. IInv'
    BY <1>1, <1>3 DEF IInv, SearchOK, Interpolate, Bracketed, Loop
  <2>2. Within(adcDat, temp') /\ adcDat' = adcDat
    BY <1>1, <1>3, InterpolateAccurate DEF Interpolate
  <2> QED
    BY <1>1, <2>1, <2>2 DEF Accuracy, Within
<1>4. CASE UNCHANGED tableVars
  BY <1>1, <1>4 DEF tableVars, Accuracy, IInv, SearchOK, Bracketed, Loop, Within
<1> QED
  BY <1>2, <1>3, <1>4 DEF TableNext

\* With one wrong entry, and no value equal to it, the temperature of every
\* value looked up is between the degrees of its neighbours.
THEOREM AccurateInvariant ==
  ASSUME OneWrongEntry PROVE TableSpec => []Accurate
<1>1. TableInit => Accuracy
  BY AccuracyInit
<1>2. Accuracy /\ [TableNext]_tableVars => Accuracy'
  BY AccuracyKept
<1>3. Accuracy => Accurate
  BY DEF Accuracy, Accurate, Within
<1> QED
  BY <1>1, <1>2, <1>3, PTL DEF TableSpec

\* The tables of the source are such tables: the values looked up are even,
\* the wrong entry is the odd 2739, and the word that is read behind the table
\* is far from its last entry.
SourceTables ==
  /\ NTC_TABLE_SIZE = 86 /\ AdcDat = ntcTableAdcDat /\ Temp = ntcTableTemp
  /\ Beyond = 20798
  /\ Adcs \subseteq {2 * n : n \in 151 .. 1699}

LEMMA Wraps == ASSUME NEW x \in Int, x < 0, x >= -65536 PROVE x % 65536 = x + 65536
OBVIOUS

LEMMA SourceOneWrongEntry == SourceTables => OneWrongEntry
<1> SUFFICES ASSUME SourceTables PROVE OneWrongEntry
  OBVIOUS
<1>1. Last = 85 /\ 20 \in 0 .. 85 /\ 0 \in 0 .. 85 /\ 85 \in 0 .. 85
  BY DEF SourceTables, Last
<1>2. AdcDat[0] = 3496
  BY <1>1 DEF SourceTables, ntcTableAdcDat
<1>3. AdcDat[20] = 2739
  BY <1>1 DEF SourceTables, ntcTableAdcDat
<1>4. AdcDat[Last] = 532
  BY <1>1 DEF SourceTables, ntcTableAdcDat
<1>5. ASSUME NEW i \in 0 .. Last, i # 20 PROVE Temp[i] = Degree(i)
  BY <1>1, <1>5 DEF SourceTables, ntcTableTemp, Degree
<1>6. ASSUME NEW adc \in Adcs PROVE \E n \in 151 .. 1699 : adc = 2 * n
  BY DEF SourceTables
<1>7. AdcDat[20] \notin Adcs
  BY <1>3, <1>6
<1>8. ASSUME NEW adc \in Adcs, adc < AdcDat[Last]
      PROVE  (AdcDat[Last] - adc) * 10 < (AdcDat[Last] - Beyond) % 65536
  <2>1. PICK n \in 151 .. 1699 : adc = 2 * n
    BY <1>6
  <2>2. (AdcDat[Last] - Beyond) % 65536 = 45270
    <3>1. AdcDat[Last] - Beyond \in Int /\ (AdcDat[Last] - Beyond) + 20266 = 0
      BY <1>4 DEF SourceTables
    <3> QED
      BY <3>1, Wraps
  <2> QED
    BY <1>4, <2>1, <2>2
<1> QED
  BY <1>1, <1>2, <1>5, <1>7, <1>8 DEF OneWrongEntry, SourceTables

\* Every temperature the program looks up in its table is accurate.
THEOREM SourceAccurate == ASSUME SourceTables PROVE TableSpec => []Accurate
<1>1. OneWrongEntry
  BY SourceOneWrongEntry
<1> QED
  BY <1>1, AccurateInvariant

-----------------------------------------------------------------------------
(* The heap.                                                               *)

\* what the walk knows of the block it stands on and of the one to join
WalkOK ==
  Walking =>
    /\ hdr \in DOMAIN heap /\ size > HdrSz
    /\ coal => /\ prev \in DOMAIN heap /\ prev # LastBlk /\ hdr # LastBlk
               /\ ~heap[prev].inUse /\ Ends(prev) = hdr

FoundOK ==
  memPc \in {"found", "kickfound"} =>
    /\ hdr \in DOMAIN heap /\ hdr # LastBlk /\ ~heap[hdr].inUse
    /\ size > HdrSz /\ size <= heap[hdr].len

Kicking == memPc \in {"kickwalk", "kickfound"}

\* the kick takes the first free block, since every free block suffices
KickOK ==
  Kicking => /\ ~kicked /\ size = HdrSz + 1
             /\ \A a \in DOMAIN heap : a < hdr => heap[a].inUse

LongOK == \A a \in DOMAIN heap \ {Barrier, LastBlk} : heap[a].len > HdrSz

\* nothing below ff1 is free
FirstFree ==
  IF kicked THEN \A a \in DOMAIN heap : a < ff1 => heap[a].inUse ELSE ff1 = 0

NotBarrier == \A b \in taken : b.at # Barrier

\* the part of MemTypeOK that is about the headers
HeadersOK == /\ DOMAIN heap \subseteq Addr
             /\ \A a \in DOMAIN heap : heap[a] \in [len : Addr, inUse : BOOLEAN]

HeapInv == HeadersOK /\ Tiled /\ TakenKept /\ LongOK /\ FirstFree /\ NotBarrier

HInv == /\ MemTypeOK /\ Tiled /\ TakenKept
        /\ WalkOK /\ FoundOK /\ KickOK /\ LongOK /\ FirstFree /\ NotBarrier

LEMMA Numbers ==
  /\ HdrSz \in Nat /\ HdrSz > 0 /\ Barrier \in Nat /\ Barrier > HdrSz
  /\ BigBlk = Barrier + HdrSz /\ BigSz \in Nat /\ BigSz > HdrSz
  /\ LastBlk = BigBlk + BigSz /\ MinBlk \in Nat /\ MinBlk > HdrSz
  /\ Addr = 0 .. LastBlk
BY SizeAssumption DEF Barrier, BigBlk, LastBlk, Addr

LEMMA InitHInv == MemInit => HInv
<1> SUFFICES ASSUME MemInit PROVE HInv
  OBVIOUS
<1> USE Numbers
<1>1. /\ DOMAIN heap = {0, Barrier, BigBlk, LastBlk}
      /\ heap[0] = Free(Barrier) /\ heap[Barrier] = Used(HdrSz)
      /\ heap[BigBlk] = Free(BigSz) /\ heap[LastBlk] = EndMark
  BY DEF MemInit, Barrier, EndMark
<1>2. MemTypeOK
  <2>1. /\ 0 \in Addr /\ Barrier \in Addr /\ BigBlk \in Addr /\ LastBlk \in Addr
        /\ HdrSz \in Addr /\ BigSz \in Addr
    OBVIOUS
  <2>2. \A n \in Addr : Free(n) \in [len : Addr, inUse : BOOLEAN] /\ Used(n) \in [len : Addr, inUse : BOOLEAN]
    BY DEF Free, Used
  <2>3. DOMAIN heap \subseteq Addr
    BY <1>1, <2>1
  <2>4. \A a \in DOMAIN heap : heap[a] \in [len : Addr, inUse : BOOLEAN]
    BY <1>1, <2>1, <2>2, ZenonT(60) DEF EndMark
  <2>5. ff1 \in Addr /\ kicked \in BOOLEAN /\ size \in Nat /\ hdr \in Addr
        /\ prev \in Addr /\ coal \in BOOLEAN /\ memPc = "idle"
    BY <2>1 DEF MemInit
  <2> QED
    BY <2>3, <2>4, <2>5 DEF MemTypeOK
<1>3. Tiled
  BY <1>1 DEF MemInit, Tiled, Ends, Free, Used, EndMark
<1>4. TakenKept /\ NotBarrier
  BY <1>1 DEF MemInit, TakenKept, NotBarrier, Free, Used, EndMark
<1>5. LongOK /\ FirstFree
  BY <1>1 DEF MemInit, LongOK, FirstFree, Free, Used, EndMark
<1>6. WalkOK /\ FoundOK /\ KickOK
  BY DEF MemInit, WalkOK, FoundOK, KickOK, Kicking, Walking
<1> QED
  BY <1>2, <1>3, <1>4, <1>5, <1>6 DEF HInv

\* A free block that follows a free one is none of the fixed blocks.
LEMMA JoinedBlock ==
  ASSUME HInv, Walking, Joining
  PROVE  /\ prev \in DOMAIN heap /\ hdr \in DOMAIN heap
         /\ prev < hdr /\ hdr < Ends(hdr) /\ Ends(hdr) \in DOMAIN heap
         /\ Ends(prev) = hdr
         /\ hdr \notin {0, Barrier, BigBlk, LastBlk, ff1}
         /\ prev \notin {Barrier, LastBlk}
         /\ memPc = "walk"
<1> USE Numbers
<1>1. /\ prev \in DOMAIN heap /\ hdr \in DOMAIN heap /\ prev # LastBlk
      /\ hdr # LastBlk /\ ~heap[prev].inUse /\ ~heap[hdr].inUse
      /\ Ends(prev) = hdr
  BY DEF HInv, WalkOK, Joining
<1>2. \A a \in DOMAIN heap : a \in Nat /\ heap[a].len \in Nat
  BY DEF HInv, MemTypeOK
<1>3. prev < hdr /\ hdr < Ends(hdr) /\ Ends(hdr) \in DOMAIN heap
  BY <1>1 DEF HInv, Tiled
<1>4. heap[Barrier].inUse /\ Barrier \in DOMAIN heap /\ Ends(Barrier) = BigBlk
  BY DEF HInv, Tiled, Used, Ends
<1>5. prev # Barrier /\ hdr # Barrier /\ hdr # 0
  BY <1>1, <1>2, <1>3, <1>4
<1>6. hdr # BigBlk
  <2> SUFFICES ASSUME hdr = BigBlk PROVE FALSE
    OBVIOUS
  <2>1. Barrier <= prev \/ Ends(prev) <= Barrier
    BY <1>1, <1>4 DEF HInv, Tiled
  <2>2. prev <= Barrier \/ Ends(Barrier) <= prev
    BY <1>1, <1>4 DEF HInv, Tiled
  <2> QED
    BY <1>1, <1>2, <1>3, <1>4, <1>5, <2>1, <2>2
<1>7. hdr # ff1
  BY <1>1, <1>2, <1>3, <1>5 DEF HInv, FirstFree
<1>8. memPc = "walk"
  BY <1>1, <1>3 DEF HInv, KickOK, Kicking, Walking
<1> QED
  BY <1>1, <1>3, <1>5, <1>6, <1>7, <1>8

-----------------------------------------------------------------------------
(* What the operations make of the headers.                                *)

LEMMA JoinHeader ==
  ASSUME HInv, Walking, Joining
  PROVE  /\ DOMAIN Join = DOMAIN heap \ {hdr}
         /\ Join[prev] = Free(Joined)
         /\ \A x \in DOMAIN heap \ {hdr} : x # prev => Join[x] = heap[x]
         /\ prev + Joined = Ends(hdr)
         /\ Joined \in Nat /\ Joined > HdrSz
<1>1. /\ prev \in DOMAIN heap /\ prev # hdr /\ hdr \in DOMAIN heap
      /\ prev \in Nat /\ hdr \in Nat
      /\ heap[prev].len \in Nat /\ heap[hdr].len \in Nat
  BY JoinedBlock, Numbers DEF HInv, MemTypeOK
<1>2. Join = Put(Drop(heap, hdr), prev, Free(Joined))
  BY DEF Join
<1>3. /\ DOMAIN Drop(heap, hdr) = DOMAIN heap \ {hdr}
      /\ \A x \in DOMAIN heap \ {hdr} : Drop(heap, hdr)[x] = heap[x]
  BY DEF Drop
<1>4. /\ DOMAIN Join = (DOMAIN heap \ {hdr}) \cup {prev}
      /\ Join[prev] = Free(Joined)
      /\ \A x \in DOMAIN heap \ {hdr} : x # prev => Join[x] = heap[x]
  <2> DEFINE d == Drop(heap, hdr)
  <2>1. /\ DOMAIN Put(d, prev, Free(Joined)) = DOMAIN d \cup {prev}
        /\ Put(d, prev, Free(Joined))[prev] = Free(Joined)
        /\ \A x \in DOMAIN d : x # prev => Put(d, prev, Free(Joined))[x] = d[x]
    BY DEF Put
  <2> QED
    BY <1>2, <1>3, <2>1
<1>5. prev + Joined = Ends(hdr) /\ Joined \in Nat
  BY <1>1, JoinedBlock DEF Joined, Ends
<1>6. heap[prev].len > HdrSz
  BY <1>1, JoinedBlock DEF HInv, LongOK
<1> QED
  BY <1>1, <1>4, <1>5, <1>6, Numbers DEF Joined

\* A turn of the walk keeps all that concerns the headers.
LEMMA JoinKeeps ==
  ASSUME HInv, Walking, heap' = Join, UNCHANGED <<ff1, kicked, taken>>
  PROVE  HeapInv'
<1>1. CASE ~Joining
  <2>1. heap' = heap
    BY <1>1 DEF Join
  <2> QED
    BY <2>1 DEF HInv, HeapInv, HeadersOK, MemTypeOK, Tiled, Ends, TakenKept, LongOK,
                FirstFree, NotBarrier
<1>2. CASE Joining
  <2> USE Numbers
  <2>1. /\ DOMAIN heap' = DOMAIN heap \ {hdr}
        /\ heap'[prev] = Free(Joined)
        /\ \A x \in DOMAIN heap' : x # prev => heap'[x] = heap[x]
        /\ prev + Joined = Ends(hdr) /\ Joined \in Nat /\ Joined > HdrSz
    BY <1>2, JoinHeader
  <2>2. /\ prev \in DOMAIN heap /\ hdr \in DOMAIN heap
        /\ prev < hdr /\ hdr < Ends(hdr) /\ Ends(hdr) \in DOMAIN heap
        /\ Ends(prev) = hdr
        /\ hdr \notin {0, Barrier, BigBlk, LastBlk, ff1}
        /\ prev \notin {Barrier, LastBlk}
        /\ ~heap[prev].inUse /\ ~heap[hdr].inUse
    BY <1>2, JoinedBlock DEF HInv, WalkOK, Joining
  <2>3. /\ \A a \in DOMAIN heap : a \in Nat /\ a <= LastBlk
        /\ \A a \in DOMAIN heap : heap[a].len \in Nat /\ Ends(a) \in Nat
    BY DEF HInv, MemTypeOK, Ends
  <2>4. /\ heap'[prev].len = Joined /\ heap'[prev].inUse = FALSE
        /\ Joined <= LastBlk
    BY <2>1, <2>2, <2>3 DEF Free
  <2>5. HeadersOK'
    <3>1. Free(Joined) \in [len : Addr, inUse : BOOLEAN]
      BY <2>1, <2>4 DEF Free
    <3>2. Addr' = Addr
      BY DEF Addr, LastBlk, BigBlk
    <3> QED
      BY <2>1, <3>1, <3>2 DEF HInv, MemTypeOK, HeadersOK
  <2>6. Tiled'
    <3>1. /\ {0, Barrier, BigBlk, LastBlk, ff1} \subseteq DOMAIN heap'
          /\ heap'[Barrier] = Used(HdrSz) /\ heap'[LastBlk] = EndMark
      BY <2>1, <2>2 DEF HInv, Tiled
    <3>2. ASSUME NEW a \in DOMAIN heap', a # LastBlk
          PROVE  LET e == a + heap'[a].len
                 IN a < e /\ e \in DOMAIN heap' /\ \A b \in DOMAIN heap' : b <= a \/ e <= b
      <4>1. CASE a = prev
        <5>1. a + heap'[a].len = Ends(hdr)
          BY <4>1, <2>1, <2>4
        <5>2. ASSUME NEW b \in DOMAIN heap' PROVE b <= a \/ Ends(hdr) <= b
          <6>1. b \in DOMAIN heap /\ b # hdr
            BY <2>1
          <6>2. b <= prev \/ hdr <= b
            BY <6>1, <2>2 DEF HInv, Tiled
          <6>3. b <= hdr \/ Ends(hdr) <= b
            BY <6>1, <2>2 DEF HInv, Tiled
          <6> QED
            BY <4>1, <6>1, <6>2, <6>3, <2>2, <2>3
        <5> QED
          BY <4>1, <5>1, <5>2, <2>1, <2>2, <2>3
      <4>2. CASE a # prev
        <5>1. a \in DOMAIN heap /\ a # hdr /\ heap'[a] = heap[a]
          BY <4>2, <2>1
        <5>2. a + heap'[a].len = Ends(a)
          BY <5>1 DEF Ends
        <5>3. /\ a < Ends(a) /\ Ends(a) \in DOMAIN heap
              /\ \A b \in DOMAIN heap : b <= a \/ Ends(a) <= b
          BY <5>1, <3>2 DEF HInv, Tiled
        <5>4. a <= prev \/ hdr <= a
          BY <5>1, <2>2 DEF HInv, Tiled
        <5>5. Ends(a) # hdr
          BY <5>1, <5>3, <5>4, <4>2, <2>2, <2>3, SMTT(40)
        <5> QED
          BY <5>1, <5>2, <5>3, <5>5, <2>1
      <4> QED
        BY <4>1, <4>2
    <3> QED
      BY <3>1, <3>2 DEF Tiled, Ends, Barrier, BigBlk, LastBlk, EndMark, Used, Free
  <2>7. TakenKept'
    <3>1. ASSUME NEW b \in taken
          PROVE  b.at \in DOMAIN heap' /\ heap'[b.at] = heap[b.at]
      BY <2>1, <2>2 DEF HInv, TakenKept
    <3>2. \A a \in DOMAIN heap' : heap'[a].inUse <=> heap[a].inUse
      BY <2>1, <2>2, <2>4
    <3> QED
      BY <3>1, <3>2, <2>1 DEF HInv, TakenKept, Barrier
  <2>8. LongOK' /\ NotBarrier'
    BY <2>1, <2>4 DEF HInv, LongOK, NotBarrier, Barrier, BigBlk, LastBlk
  <2>9. FirstFree'
    BY <2>1, <2>2, <2>4 DEF HInv, FirstFree
  <2> QED
    BY <2>5, <2>6, <2>7, <2>8, <2>9 DEF HeapInv
<1> QED
  BY <1>1, <1>2

(* The block found is cut to the size asked for, or taken whole.           *)
Cut(inUse) ==
  /\ Split =>
       /\ DOMAIN heap' = DOMAIN heap \cup {hdr + size}
       /\ heap'[hdr] = [len |-> size, inUse |-> inUse]
       /\ heap'[hdr + size] = Free(Rest)
       /\ \A a \in DOMAIN heap : a # hdr => heap'[a] = heap[a]
  /\ ~Split =>
       /\ DOMAIN heap' = DOMAIN heap
       /\ heap'[hdr] = [len |-> heap[hdr].len, inUse |-> inUse]
       /\ \A a \in DOMAIN heap : a # hdr => heap'[a] = heap[a]

Found == memPc \in {"found", "kickfound"}

\* The block found and what is left of it lie between two headers.
LEMMA FoundBlock ==
  ASSUME HInv, Found
  PROVE  /\ hdr \in DOMAIN heap /\ hdr \notin {Barrier, LastBlk} /\ ~heap[hdr].inUse
         /\ hdr \in Nat /\ size \in Nat /\ heap[hdr].len \in Nat
         /\ size > HdrSz /\ size <= heap[hdr].len
         /\ hdr < Ends(hdr) /\ Ends(hdr) \in DOMAIN heap
         /\ Split => /\ hdr < hdr + size /\ hdr + size < Ends(hdr)
                     /\ hdr + size \notin DOMAIN heap
                     /\ Rest \in Nat /\ Rest > HdrSz /\ hdr + size + Rest = Ends(hdr)
<1> USE Numbers
<1>1. /\ hdr \in DOMAIN heap /\ hdr # LastBlk /\ ~heap[hdr].inUse
      /\ size > HdrSz /\ size <= heap[hdr].len
  BY DEF HInv, FoundOK, Found
<1>2. hdr \in Nat /\ size \in Nat /\ heap[hdr].len \in Nat
  BY <1>1 DEF HInv, MemTypeOK
<1>3. hdr < Ends(hdr) /\ Ends(hdr) \in DOMAIN heap
  BY <1>1 DEF HInv, Tiled
<1>4. hdr # Barrier
  BY <1>1 DEF HInv, Tiled, Used
<1>5. ASSUME Split
      PROVE  /\ hdr < hdr + size /\ hdr + size < Ends(hdr)
             /\ Rest \in Nat /\ Rest > HdrSz /\ hdr + size + Rest = Ends(hdr)
  BY <1>1, <1>2, <1>5 DEF Split, Rest, Ends
<1>6. ASSUME Split PROVE hdr + size \notin DOMAIN heap
  <2>1. \A b \in DOMAIN heap : b <= hdr \/ Ends(hdr) <= b
    BY <1>1 DEF HInv, Tiled
  <2>2. Ends(hdr) \in Nat
    BY <1>2 DEF Ends
  <2> QED
    BY <1>2, <1>5, <1>6, <2>1, <2>2, SMTT(40)
<1> QED
  BY <1>1, <1>2, <1>3, <1>4, <1>5, <1>6

LEMMA AllocatedCuts ==
  ASSUME HInv, Found, heap' = Allocated
  PROVE  Cut(TRUE)
<1>1. hdr \in DOMAIN heap /\ hdr \in Nat /\ size \in Nat /\ (Split => hdr + size # hdr)
      /\ (Split => hdr + size \notin DOMAIN heap)
  BY FoundBlock, Numbers
<1>2. CASE Split
  <2> DEFINE f == Put(heap, hdr, Used(size))
  <2>1. /\ DOMAIN f = DOMAIN heap
        /\ f[hdr] = Used(size)
        /\ \A a \in DOMAIN heap : a # hdr => f[a] = heap[a]
    BY <1>1 DEF Put
  <2>2. heap' = Put(f, hdr + size, Free(Rest))
    BY <1>2 DEF Allocated
  <2> HIDE DEF f
  <2>3. /\ DOMAIN heap' = DOMAIN f \cup {hdr + size}
        /\ heap'[hdr + size] = Free(Rest)
        /\ \A a \in DOMAIN f : a # hdr + size => heap'[a] = f[a]
    BY <2>2 DEF Put
  <2> QED
    BY <1>1, <1>2, <2>1, <2>3 DEF Cut, Used
<1>3. CASE ~Split
  <2>1. heap' = Put(heap, hdr, Used(heap[hdr].len))
    BY <1>3 DEF Allocated
  <2>2. /\ DOMAIN heap' = DOMAIN heap
        /\ heap'[hdr] = Used(heap[hdr].len)
        /\ \A a \in DOMAIN heap : a # hdr => heap'[a] = heap[a]
    BY <1>1, <2>1 DEF Put
  <2> QED
    BY <1>3, <2>2 DEF Cut, Used
<1> QED
  BY <1>2, <1>3

\* A cut leaves the headers sound, whether the block is taken or not.
LEMMA CutKeeps ==
  ASSUME HInv, Found, NEW u \in BOOLEAN, Cut(u), ff1' \in DOMAIN heap'
  PROVE  HeadersOK' /\ Tiled' /\ LongOK'
<1> USE Numbers, FoundBlock
<1>1. /\ \A a \in DOMAIN heap : a \in Nat /\ a <= LastBlk
      /\ \A a \in DOMAIN heap : heap[a].len \in Nat /\ Ends(a) \in Nat
  BY SMTT(40) DEF HInv, MemTypeOK, Ends
<1>2. \A a \in DOMAIN heap : a # hdr => a \in DOMAIN heap' /\ heap'[a] = heap[a]
  BY DEF Cut
<1>3. hdr \in DOMAIN heap' /\ heap'[hdr].inUse = u /\ DOMAIN heap \subseteq DOMAIN heap'
  BY DEF Cut
<1>4. /\ Split => heap'[hdr].len = size
      /\ ~Split => heap'[hdr].len = heap[hdr].len
  BY DEF Cut
<1>5. heap'[hdr].len \in Nat /\ heap'[hdr].len > HdrSz /\ heap'[hdr].len <= LastBlk
  <2>1. heap[hdr].len <= LastBlk
    BY DEF HInv, MemTypeOK
  <2> QED
    BY <1>4, <2>1, SMTT(40)
<1>6. ASSUME Split
      PROVE  /\ DOMAIN heap' = DOMAIN heap \cup {hdr + size}
             /\ heap'[hdr + size].len = Rest /\ heap'[hdr + size].inUse = FALSE
             /\ Rest <= LastBlk /\ hdr + size <= LastBlk
  BY <1>1, <1>6 DEF Cut, Free
<1>7. HeadersOK'
  <2>1. Addr' = Addr
    BY DEF Addr, LastBlk, BigBlk
  <2>2. /\ heap'[hdr] \in [len : Addr, inUse : BOOLEAN]
        /\ Split => heap'[hdr + size] \in [len : Addr, inUse : BOOLEAN]
    <3>1. size \in Addr /\ heap[hdr].len \in Addr /\ (Split => Rest \in Addr)
      BY <1>4, <1>5, <1>6 DEF HInv, MemTypeOK
    <3>2. CASE Split
      <4>1. heap'[hdr] = [len |-> size, inUse |-> u] /\ heap'[hdr + size] = [len |-> Rest, inUse |-> FALSE]
        BY <3>2 DEF Cut, Free
      <4> QED
        BY <3>1, <3>2, <4>1
    <3>3. CASE ~Split
      <4>1. heap'[hdr] = [len |-> heap[hdr].len, inUse |-> u]
        BY <3>3 DEF Cut
      <4> QED
        BY <3>1, <3>3, <4>1
    <3> QED
      BY <3>2, <3>3
  <2>3. DOMAIN heap' \subseteq Addr
    BY <1>6 DEF Cut, HInv, MemTypeOK
  <2> QED
    BY <2>1, <2>2, <2>3, <1>2, <1>6 DEF HInv, MemTypeOK, HeadersOK, Cut
<1>8. LongOK'
  BY <1>2, <1>5, <1>6 DEF HInv, LongOK, Barrier, BigBlk, LastBlk, Cut
<1>9. Tiled'
  <2>1. /\ {0, Barrier, BigBlk, LastBlk, ff1'} \subseteq DOMAIN heap'
        /\ heap'[Barrier] = Used(HdrSz) /\ heap'[LastBlk] = EndMark
    BY <1>2, <1>3 DEF HInv, Tiled
  <2>2. ASSUME NEW a \in DOMAIN heap', a # LastBlk
        PROVE  LET e == a + heap'[a].len
               IN a < e /\ e \in DOMAIN heap' /\ \A b \in DOMAIN heap' : b <= a \/ e <= b
    <3>0. \A b \in DOMAIN heap : b <= hdr \/ Ends(hdr) <= b
      BY DEF HInv, Tiled
    <3>1. CASE a = hdr
      <4>1. CASE Split
        BY <3>0, <3>1, <4>1, <1>1, <1>4, <1>6, SMTT(40)
      <4>2. CASE ~Split
        <5>1. a + heap'[a].len = Ends(hdr) /\ DOMAIN heap' = DOMAIN heap
          BY <3>1, <4>2, <1>4 DEF Cut, Ends
        <5> QED
          BY <3>0, <3>1, <5>1
      <4> QED
        BY <4>1, <4>2
    <3>2. CASE Split /\ a = hdr + size
      <4>1. a + heap'[a].len = Ends(hdr)
        BY <3>2, <1>6
      <4> QED
        BY <3>0, <3>2, <4>1, <1>1, <1>6, SMTT(40)
    <3>3. CASE a # hdr /\ ~(Split /\ a = hdr + size)
      <4>1. a \in DOMAIN heap
        BY <3>3 DEF Cut
      <4>2. a + heap'[a].len = Ends(a)
        BY <4>1, <3>3, <1>2 DEF Ends
      <4>3. /\ a < Ends(a) /\ Ends(a) \in DOMAIN heap
            /\ \A b \in DOMAIN heap : b <= a \/ Ends(a) <= b
        BY <4>1, <2>2 DEF HInv, Tiled
      <4>4. Split => hdr + size <= a \/ Ends(a) <= hdr + size
        <5>1. a <= hdr \/ Ends(hdr) <= a
          BY <4>1, <3>0
        <5>2. hdr <= a \/ Ends(a) <= hdr
          BY <4>3
        <5>3. hdr \in Nat /\ size \in Nat /\ a \in Nat /\ Ends(a) \in Nat /\ Ends(hdr) \in Nat
          BY <4>1, <1>1
        <5>4. Split => hdr < hdr + size /\ hdr + size < Ends(hdr)
          OBVIOUS
        <5> QED
          BY <5>1, <5>2, <5>3, <5>4, <3>3
      <4>5. \A b \in DOMAIN heap' : b \in DOMAIN heap \/ (Split /\ b = hdr + size)
        BY DEF Cut
      <4>6. Split /\ hdr + size <= a => Ends(hdr) <= a
        BY <4>1, <3>0, <3>3, <1>1
      <4> QED
        BY <4>1, <4>2, <4>3, <4>4, <4>5, <4>6, <1>1, <1>3, <3>0
    <3> QED
      BY <3>1, <3>2, <3>3
  <2> QED
    BY <2>1, <2>2 DEF Tiled, Ends, Barrier, BigBlk, LastBlk, EndMark, Used, Free
<1> QED
  BY <1>7, <1>8, <1>9

-----------------------------------------------------------------------------
(* One step per action.  Rest of the invariant: the locals of the walk.    *)
LocalsOK == /\ ff1 \in Addr /\ kicked \in BOOLEAN
            /\ memPc \in {"idle", "walk", "kickwalk", "found", "kickfound", "failed"}
            /\ size \in Nat /\ hdr \in Addr /\ prev \in Addr /\ coal \in BOOLEAN
            /\ WalkOK /\ FoundOK /\ KickOK

LEMMA Parts == HeapInv' /\ LocalsOK' => HInv'
BY DEF HInv, HeapInv, LocalsOK, MemTypeOK, HeadersOK

LEMMA HeapUnchanged ==
  ASSUME HInv, UNCHANGED <<heap, ff1, kicked, taken>>
  PROVE  HeapInv'
BY DEF HInv, HeapInv, HeadersOK, MemTypeOK, Tiled, Ends, TakenKept, LongOK, FirstFree,
       NotBarrier, Addr, LastBlk, BigBlk, Barrier, EndMark, Used, Free

\* Between two calls nothing is known of the locals but their types.
LEMMA AtRest ==
  ASSUME HeadersOK', Tiled', kicked' \in BOOLEAN, Rests
  PROVE  LocalsOK'
<1>1. 0 \in Addr'
  BY Numbers DEF Addr, LastBlk, BigBlk, Barrier
<1>2. ff1' \in Addr'
  BY DEF HeadersOK, Tiled
<1> QED
  BY <1>1, <1>2 DEF Rests, LocalsOK, WalkOK, FoundOK, KickOK, Kicking, Walking

LEMMA BeginKeeps ==
  ASSUME HInv, NEW n \in Nat \ {0}, NEW next \in {"walk", "kickwalk"}, Begin(n, next),
         next = "kickwalk" => ~kicked /\ n = 1
  PROVE  HInv'
<1> USE Numbers
<1>1. HeapInv'
  BY HeapUnchanged DEF Begin
<1>2. StartAt(n + HdrSz) \in DOMAIN heap
  BY DEF StartAt, HInv, Tiled
<1>3. /\ hdr' \in DOMAIN heap' /\ size' \in Nat /\ size' > HdrSz /\ prev' = 0 /\ coal' = FALSE
      /\ memPc' = next /\ heap' = heap /\ ff1' = ff1 /\ kicked' = kicked
  BY <1>2 DEF Begin
<1>4. hdr' \in Addr /\ ff1' \in Addr /\ prev' \in Addr /\ kicked' \in BOOLEAN
  BY <1>3 DEF HInv, MemTypeOK
<1>5. next = "kickwalk" => hdr' = 0 /\ size' = HdrSz + 1
  BY DEF Begin, StartAt, HInv, FirstFree
<1>6. \A a \in DOMAIN heap' : a \in Nat
  BY <1>3 DEF HInv, MemTypeOK
<1>7. WalkOK' /\ FoundOK' /\ KickOK'
  BY <1>3, <1>5, <1>6 DEF WalkOK, FoundOK, KickOK, Kicking, Walking
<1>8. LocalsOK'
  BY <1>3, <1>4, <1>7 DEF LocalsOK, Addr, LastBlk, BigBlk
<1> QED
  BY <1>1, <1>8, Parts

\* A walk that has not found enough stands before the end of the heap.
LEMMA NextBlock ==
  ASSUME HInv, Walking, heap[NextBlk] # EndMark
  PROVE  /\ hdr \in DOMAIN heap /\ hdr # LastBlk /\ NextBlk = Ends(hdr)
         /\ NextBlk \in DOMAIN heap /\ NextBlk # LastBlk /\ hdr < NextBlk
<1> USE Numbers
<1>1. hdr \in DOMAIN heap /\ hdr \in Nat /\ heap[hdr].len \in Nat
  BY DEF HInv, WalkOK, MemTypeOK
<1>2. heap[LastBlk] = EndMark
  BY DEF HInv, Tiled
<1>3. hdr # LastBlk
  BY <1>1, <1>2 DEF NextBlk, EndMark, Free
<1>4. NextBlk = Ends(hdr)
  BY DEF NextBlk, Ends
<1> QED
  BY <1>1, <1>2, <1>3, <1>4 DEF HInv, Tiled

LEMMA WalkOnKeeps ==
  ASSUME HInv, WalkOn
  PROVE  HInv'
<1> USE Numbers
<1>1. /\ Walking /\ heap' = Join /\ ~Enough /\ heap[NextBlk] # EndMark
      /\ UNCHANGED <<ff1, kicked, taken, memPc, size>>
      /\ hdr' = NextBlk /\ (coal' <=> ~heap[hdr].inUse) /\ coal' \in BOOLEAN
      /\ prev' = IF heap[hdr].inUse \/ coal THEN prev ELSE hdr
  BY DEF WalkOn
<1>2. HeapInv'
  BY <1>1, JoinKeeps
<1>3. /\ hdr \in DOMAIN heap /\ hdr # LastBlk /\ NextBlk = Ends(hdr)
      /\ NextBlk \in DOMAIN heap /\ NextBlk # LastBlk /\ hdr < NextBlk
  BY <1>1, NextBlock
<1>4. /\ \A a \in DOMAIN heap : a \in Nat /\ a \in Addr /\ heap[a].len \in Nat
      /\ hdr \in Nat /\ NextBlk \in Nat
  BY <1>3 DEF HInv, MemTypeOK
<1>5. WalkOK'
  <2>1. CASE Joining
    <3>1. /\ DOMAIN heap' = DOMAIN heap \ {hdr} /\ heap'[prev] = Free(Joined)
          /\ prev + Joined = Ends(hdr) /\ prev # hdr /\ prev \in DOMAIN heap /\ prev # LastBlk
      BY <1>1, <1>4, <2>1, JoinHeader, JoinedBlock
    <3>2. coal' /\ prev' = prev /\ size' > HdrSz
      BY <1>1, <2>1 DEF Joining, HInv, WalkOK
    <3>3. Ends(prev)' = hdr' /\ ~heap'[prev].inUse
      BY <1>1, <1>3, <3>1, <3>2 DEF Ends, Free
    <3> QED
      BY <1>1, <1>3, <1>4, <3>1, <3>2, <3>3 DEF WalkOK, LastBlk, BigBlk, Barrier
  <2>2. CASE ~Joining
    <3>1. heap' = heap /\ size' > HdrSz
      BY <1>1, <2>2 DEF Join, HInv, WalkOK
    <3>2. coal' => prev' = hdr /\ ~heap[hdr].inUse
      BY <1>1, <2>2 DEF Joining
    <3>3. coal' => Ends(prev)' = hdr'
      BY <1>1, <1>3, <3>1, <3>2 DEF Ends
    <3> QED
      BY <1>1, <1>3, <3>1, <3>2, <3>3 DEF WalkOK, LastBlk, BigBlk, Barrier
  <2> QED
    BY <2>1, <2>2
<1>6. KickOK'
  <2> SUFFICES ASSUME Kicking PROVE KickOK'
    BY <1>1 DEF KickOK, Kicking
  <2>1. ~kicked /\ size = HdrSz + 1 /\ \A a \in DOMAIN heap : a < hdr => heap[a].inUse
    BY DEF HInv, KickOK
  <2>2. ~Joining
    BY <1>1, JoinedBlock DEF Kicking
  <2>3. heap[hdr].inUse
    <3> SUFFICES ASSUME ~heap[hdr].inUse PROVE FALSE
      OBVIOUS
    <3>1. hdr # Barrier /\ ~coal
      BY <2>2 DEF Joining, HInv, Tiled, Used
    <3>2. heap[hdr].len > HdrSz
      BY <1>3, <3>1 DEF HInv, LongOK
    <3> QED
      BY <1>1, <1>3, <1>4, <2>1, <3>1, <3>2 DEF Enough
  <2>4. heap' = heap
    BY <1>1, <2>2 DEF Join
  <2>5. \A a \in DOMAIN heap : a < NextBlk => a <= hdr
    BY <1>3, <1>4 DEF HInv, Tiled
  <2>6. \A a \in DOMAIN heap : a < NextBlk => heap[a].inUse
    BY <1>4, <2>1, <2>3, <2>5
  <2> QED
    BY <1>1, <2>1, <2>4, <2>6 DEF KickOK
<1>7. FoundOK'
  BY <1>1 DEF FoundOK, Walking
<1>8. LocalsOK'
  <2>1. prev' \in Addr /\ hdr' \in Addr /\ Addr' = Addr
    BY <1>1, <1>3, <1>4 DEF HInv, MemTypeOK, Addr, LastBlk, BigBlk
  <2> QED
    BY <1>1, <1>5, <1>6, <1>7, <2>1 DEF HInv, MemTypeOK, LocalsOK
<1> QED
  BY <1>2, <1>8, Parts

LEMMA WalkFindsKeeps ==
  ASSUME HInv, WalkFinds
  PROVE  HInv'
<1> USE Numbers
<1>1. /\ Walking /\ heap' = Join /\ Enough
      /\ UNCHANGED <<ff1, kicked, taken, size, prev, coal>>
      /\ hdr' = IF coal THEN prev ELSE hdr
      /\ memPc' = IF memPc = "walk" THEN "found" ELSE "kickfound"
  BY DEF WalkFinds
<1>2. HeapInv'
  BY <1>1, JoinKeeps
<1>3. /\ hdr \in DOMAIN heap /\ size > HdrSz /\ size \in Nat /\ ~heap[hdr].inUse
      /\ heap[hdr].len \in Nat /\ hdr \in Nat /\ prev \in Nat
  BY <1>1 DEF HInv, WalkOK, MemTypeOK, Enough
<1>4. FoundOK'
  <2>1. CASE Joining
    <3>1. /\ heap'[prev] = Free(Joined) /\ prev \in DOMAIN heap' /\ prev # LastBlk
      BY <1>1, <1>3, <2>1, JoinHeader, JoinedBlock
    <3>2. hdr' = prev /\ Joined >= size
      BY <1>1, <2>1 DEF Joining, Enough
    <3>3. Joined \in Nat
      BY <1>1, <2>1, JoinHeader
    <3> QED
      <4>1. heap'[prev].len = Joined /\ ~heap'[prev].inUse
        BY <3>1 DEF Free
      <4> QED
        BY <1>1, <1>3, <3>1, <3>2, <3>3, <4>1 DEF FoundOK, LastBlk, BigBlk, Barrier
  <2>2. CASE ~Joining
    <3>1. heap' = heap /\ hdr' = hdr /\ heap[hdr].len >= size
      BY <1>1, <1>3, <2>2 DEF Join, Joining, Enough
    <3>2. hdr # LastBlk
      BY <1>3, <3>1 DEF HInv, Tiled, EndMark, Free
    <3> QED
      BY <1>1, <1>3, <3>1, <3>2 DEF FoundOK, LastBlk, BigBlk, Barrier
  <2> QED
    BY <2>1, <2>2
<1>5. KickOK'
  <2> SUFFICES ASSUME Kicking PROVE KickOK'
    BY <1>1 DEF KickOK, Kicking, Walking
  <2>1. ~Joining
    BY <1>1, JoinedBlock DEF Kicking
  <2>2. heap' = heap /\ hdr' = hdr
    BY <1>1, <1>3, <2>1 DEF Join, Joining
  <2> QED
    BY <1>1, <2>2 DEF HInv, KickOK
<1>6. WalkOK'
  BY <1>1 DEF WalkOK, Walking
<1>7. LocalsOK'
  <2>1. hdr' \in Addr /\ Addr' = Addr /\ memPc' \in {"found", "kickfound"}
    BY <1>1 DEF HInv, MemTypeOK, Addr, LastBlk, BigBlk
  <2> QED
    BY <1>1, <1>4, <1>5, <1>6, <2>1 DEF HInv, MemTypeOK, LocalsOK
<1> QED
  BY <1>2, <1>7, Parts

LEMMA WalkFailsKeeps ==
  ASSUME HInv, WalkFails
  PROVE  HInv'
<1>1. /\ Walking /\ heap' = Join /\ memPc' = "failed"
      /\ UNCHANGED <<ff1, kicked, taken, size, hdr, prev, coal>>
  BY DEF WalkFails, Walking
<1>2. HeapInv'
  BY <1>1, JoinKeeps
<1>3. LocalsOK'
  BY <1>1 DEF HInv, MemTypeOK, LocalsOK, WalkOK, FoundOK, KickOK, Kicking, Walking,
              Addr, LastBlk, BigBlk
<1> QED
  BY <1>2, <1>3, Parts

LEMMA AllocateKeeps ==
  ASSUME HInv, Allocate
  PROVE  HInv'
<1> USE Numbers
<1>1. /\ Found /\ heap' = Allocated /\ Rests /\ kicked' = kicked
      /\ ff1' = IF kicked /\ ff1 = hdr THEN hdr + heap'[hdr].len ELSE ff1
      /\ taken' = taken \cup {[at |-> hdr, len |-> size]}
  BY DEF Allocate, Found
<1>2. Cut(TRUE)
  BY <1>1, AllocatedCuts
<1>3. /\ hdr \in DOMAIN heap /\ hdr \notin {Barrier, LastBlk} /\ ~heap[hdr].inUse
      /\ hdr \in Nat /\ size \in Nat /\ heap[hdr].len \in Nat /\ size <= heap[hdr].len
      /\ hdr < Ends(hdr) /\ Ends(hdr) \in DOMAIN heap
      /\ Split => /\ hdr < hdr + size /\ hdr + size < Ends(hdr)
                  /\ hdr + size \notin DOMAIN heap
  BY <1>1, FoundBlock
<1>4. /\ heap'[hdr].inUse /\ size <= heap'[hdr].len /\ DOMAIN heap \subseteq DOMAIN heap'
      /\ \A a \in DOMAIN heap : a # hdr => heap'[a] = heap[a]
  BY <1>2, <1>3 DEF Cut
<1>5. \A a \in DOMAIN heap' \ DOMAIN heap : Split /\ a = hdr + size /\ ~heap'[a].inUse
  BY <1>2 DEF Cut, Free
<1>6. hdr + heap'[hdr].len = IF Split THEN hdr + size ELSE Ends(hdr)
  BY <1>2 DEF Cut, Ends
<1>7. ff1 \in DOMAIN heap
  BY DEF HInv, Tiled
<1>8. ff1' \in DOMAIN heap'
  BY <1>1, <1>2, <1>3, <1>4, <1>6, <1>7 DEF Cut
<1>9. HeadersOK' /\ Tiled' /\ LongOK'
  BY <1>1, <1>2, <1>8, CutKeeps
<1>10. TakenKept' /\ NotBarrier'
  <2>1. \A b \in taken : b.at \in DOMAIN heap /\ heap[b.at].inUse
    BY DEF HInv, TakenKept
  <2>2. \A b \in taken : b.at # hdr
    BY <1>3, <2>1
  <2> DEFINE new == [at |-> hdr, len |-> size]
  <2>3. new.at = hdr /\ new.len = size
    OBVIOUS
  <2> HIDE DEF new
  <2>4. \A b \in taken' : b \in taken \/ b = new
    BY <1>1 DEF new
  <2>5. \A b \in taken' : b.at \in DOMAIN heap' /\ b.len <= heap'[b.at].len
    BY <1>3, <1>4, <2>1, <2>2, <2>3, <2>4 DEF HInv, TakenKept
  <2>6. \A b \in taken' : \A c \in taken' : b.at = c.at => b = c
    BY <2>2, <2>3, <2>4 DEF HInv, TakenKept
  <2>7. taken \subseteq taken' /\ new \in taken'
    BY <1>1 DEF new
  <2>8. ASSUME NEW a \in DOMAIN heap'
        PROVE  heap'[a].inUse <=> a = Barrier \/ \E b \in taken' : b.at = a
    <3>1. CASE a = hdr
      BY <3>1, <1>4, <2>3, <2>7
    <3>2. CASE a \notin DOMAIN heap
      <4>1. a # hdr /\ a # Barrier /\ ~heap'[a].inUse
        BY <3>2, <1>3, <1>5 DEF HInv, Tiled
      <4> QED
        BY <3>2, <4>1, <2>1, <2>3, <2>4
    <3>3. CASE a \in DOMAIN heap /\ a # hdr
      <4>1. heap'[a] = heap[a]
        BY <3>3, <1>4
      <4>2. heap[a].inUse <=> a = Barrier \/ \E b \in taken : b.at = a
        BY <3>3 DEF HInv, TakenKept
      <4> QED
        BY <3>3, <4>1, <4>2, <2>3, <2>4, <2>7
    <3> QED
      BY <3>1, <3>2, <3>3
  <2> QED
    BY <1>3, <2>3, <2>4, <2>5, <2>6, <2>8 DEF TakenKept, NotBarrier, HInv, Barrier
<1>11. FirstFree'
  <2>1. /\ \A a \in DOMAIN heap : a \in Nat /\ heap[a].len \in Nat
        /\ Ends(hdr) \in Nat
    BY <1>3 DEF HInv, MemTypeOK, Ends
  <2>2. CASE ~kicked
    BY <1>1, <1>8, <2>2 DEF HInv, FirstFree
  <2>3. CASE kicked
    <3>1. \A a \in DOMAIN heap : a < ff1 => heap[a].inUse
      BY <2>3 DEF HInv, FirstFree
    <3>2. ff1 <= hdr
      BY <1>3, <1>7, <2>1, <3>1
    <3>3. \A a \in DOMAIN heap : a <= hdr \/ Ends(hdr) <= a
      BY <1>3 DEF HInv, Tiled
    <3>4. \A a \in DOMAIN heap' : a < ff1' => a \in DOMAIN heap
      BY <1>1, <1>3, <1>5, <1>6, <1>7, <2>1, <3>2
    <3>5. \A a \in DOMAIN heap : a < ff1' => a < ff1 \/ a = hdr
      BY <1>1, <1>3, <1>6, <1>7, <2>1, <3>3
    <3>6. \A a \in DOMAIN heap' : a < ff1' => heap'[a].inUse
      BY <1>4, <3>1, <3>4, <3>5
    <3> QED
      BY <1>1, <2>3, <3>6 DEF FirstFree
  <2> QED
    BY <2>2, <2>3
<1>12. LocalsOK'
  BY <1>1, <1>9, AtRest DEF HInv, MemTypeOK
<1> QED
  BY <1>9, <1>10, <1>11, <1>12, Parts DEF HeapInv

LEMMA KickKeeps ==
  ASSUME HInv, Kick
  PROVE  HInv'
<1> USE Numbers
<1>1. /\ Found /\ heap' = Put(Allocated, hdr, Free(Allocated[hdr].len)) /\ Rests
      /\ ff1' = hdr /\ kicked' = TRUE /\ taken' = taken
  BY DEF Kick, Found
<1>2. /\ hdr \in DOMAIN heap /\ hdr \notin {Barrier, LastBlk} /\ ~heap[hdr].inUse
      /\ hdr \in Nat /\ size \in Nat
      /\ Split => hdr < hdr + size /\ hdr + size \notin DOMAIN heap
  BY <1>1, FoundBlock
<1>3. Cut(FALSE)
  <2>1. CASE Split
    <3> DEFINE f == Put(heap, hdr, Used(size))
               g == Put(f, hdr + size, Free(Rest))
    <3>1. /\ DOMAIN f = DOMAIN heap
          /\ f[hdr] = Used(size)
          /\ \A a \in DOMAIN heap : a # hdr => f[a] = heap[a]
      BY <1>2 DEF Put
    <3>2. g = Allocated
      BY <2>1 DEF Allocated
    <3> HIDE DEF f
    <3>3. /\ DOMAIN g = DOMAIN heap \cup {hdr + size}
          /\ g[hdr] = Used(size) /\ g[hdr + size] = Free(Rest)
          /\ \A a \in DOMAIN heap : a # hdr => g[a] = heap[a]
      BY <1>2, <2>1, <3>1 DEF Put
    <3>4. heap' = Put(g, hdr, Free(size))
      BY <1>1, <3>2, <3>3 DEF Used
    <3> HIDE DEF g
    <3> QED
      BY <1>2, <2>1, <3>3, <3>4 DEF Put, Cut, Free
  <2>2. CASE ~Split
    <3> DEFINE f == Put(heap, hdr, Used(heap[hdr].len))
    <3>1. /\ DOMAIN f = DOMAIN heap
          /\ f[hdr] = Used(heap[hdr].len)
          /\ \A a \in DOMAIN heap : a # hdr => f[a] = heap[a]
      BY <1>2 DEF Put
    <3>2. f = Allocated
      BY <2>2 DEF Allocated
    <3>3. heap' = Put(f, hdr, Free(heap[hdr].len))
      BY <1>1, <3>1, <3>2 DEF Used
    <3> HIDE DEF f
    <3> QED
      BY <1>2, <2>2, <3>1, <3>3 DEF Put, Cut, Free
  <2> QED
    BY <2>1, <2>2
<1>4. /\ hdr \in DOMAIN heap' /\ ~heap'[hdr].inUse /\ DOMAIN heap \subseteq DOMAIN heap'
      /\ \A a \in DOMAIN heap : a # hdr => heap'[a] = heap[a]
      /\ \A a \in DOMAIN heap' \ DOMAIN heap : Split /\ a = hdr + size /\ ~heap'[a].inUse
  BY <1>2, <1>3 DEF Cut, Free
<1>5. HeadersOK' /\ Tiled' /\ LongOK'
  BY <1>1, <1>3, <1>4, CutKeeps
<1>6. \A b \in taken : b.at \in DOMAIN heap /\ b.at # hdr /\ b.len <= heap[b.at].len
  BY <1>2 DEF HInv, TakenKept
<1>7. TakenKept' /\ NotBarrier'
  <2>1. ASSUME NEW a \in DOMAIN heap'
        PROVE  heap'[a].inUse <=> a = Barrier \/ \E b \in taken' : b.at = a
    <3>1. CASE a \in DOMAIN heap /\ a # hdr
      BY <3>1, <1>1, <1>4 DEF HInv, TakenKept
    <3>2. CASE a = hdr
      BY <3>2, <1>1, <1>2, <1>4, <1>6
    <3>3. CASE a \notin DOMAIN heap
      <4>1. ~heap'[a].inUse /\ a # Barrier
        BY <3>3, <1>4 DEF HInv, Tiled
      <4> QED
        BY <3>3, <4>1, <1>1, <1>6
    <3> QED
      BY <3>1, <3>2, <3>3
  <2>2. \A b \in taken' : b.at \in DOMAIN heap' /\ b.len <= heap'[b.at].len
    BY <1>1, <1>4, <1>6
  <2> QED
    BY <1>1, <2>1, <2>2 DEF HInv, TakenKept, NotBarrier, Barrier
<1>8. FirstFree'
  <2>1. \A a \in DOMAIN heap : a < hdr => heap[a].inUse
    BY DEF Kick, HInv, KickOK, Kicking
  <2>2. \A a \in DOMAIN heap : a \in Nat
    BY DEF HInv, MemTypeOK
  <2>3. \A a \in DOMAIN heap' : a < hdr => a \in DOMAIN heap /\ a # hdr
    BY <1>2, <1>4, <2>2
  <2> QED
    BY <1>1, <1>4, <2>1, <2>3 DEF FirstFree
<1>9. LocalsOK'
  BY <1>1, <1>5, AtRest
<1> QED
  BY <1>5, <1>7, <1>8, <1>9, Parts DEF HeapInv

LEMMA FreeKeeps ==
  ASSUME HInv, osal_mem_free
  PROVE  HInv'
<1> USE Numbers
<1>1. PICK b \in taken :
        /\ heap' = Put(heap, b.at, Free(heap[b.at].len))
        /\ ff1' = IF ff1 > b.at THEN b.at ELSE ff1
        /\ taken' = taken \ {b}
  BY DEF osal_mem_free
<1>2. memPc = "idle" /\ UNCHANGED <<kicked, memPc, size, hdr, prev, coal>>
  BY DEF osal_mem_free
<1>3. /\ b.at \in DOMAIN heap /\ heap[b.at].inUse /\ b.at # Barrier
      /\ \A c \in taken \ {b} : c.at # b.at
  BY DEF HInv, TakenKept, NotBarrier
<1>4. /\ \A a \in DOMAIN heap : a \in Nat /\ a \in Addr
      /\ \A a \in DOMAIN heap : heap[a].len \in Addr
      /\ \A a \in DOMAIN heap : heap[a] \in [len : Addr, inUse : BOOLEAN]
  BY DEF HInv, MemTypeOK
<1>5. /\ DOMAIN heap' = DOMAIN heap
      /\ heap'[b.at].len = heap[b.at].len /\ heap'[b.at].inUse = FALSE
      /\ heap'[b.at] = Free(heap[b.at].len)
      /\ \A a \in DOMAIN heap : a # b.at => heap'[a] = heap[a]
  BY <1>1, <1>3 DEF Put, Free
<1>6. \A a \in DOMAIN heap : heap'[a].len = heap[a].len
  BY <1>5
<1>7. b.at # LastBlk /\ ff1' \in DOMAIN heap'
  BY <1>1, <1>3, <1>5 DEF HInv, Tiled, EndMark, Free
<1>8. HeadersOK'
  <2>1. Addr' = Addr
    BY DEF Addr, LastBlk, BigBlk
  <2>2. heap'[b.at] \in [len : Addr, inUse : BOOLEAN]
    BY <1>3, <1>4, <1>5 DEF Free
  <2> QED
    BY <1>3, <1>4, <1>5, <2>1, <2>2 DEF HeadersOK
<1>9. Tiled'
  <2>1. \A a \in DOMAIN heap : Ends(a)' = Ends(a)
    BY <1>6 DEF Ends
  <2> QED
    BY <1>3, <1>5, <1>7, <2>1 DEF HInv, Tiled, Barrier, BigBlk, LastBlk, EndMark, Used, Free
<1>10. LongOK'
  BY <1>5, <1>6 DEF HInv, LongOK, Barrier, BigBlk, LastBlk
<1>11. TakenKept' /\ NotBarrier'
  BY <1>1, <1>3, <1>5, <1>6 DEF HInv, TakenKept, NotBarrier, Barrier
<1>12. FirstFree'
  <2>1. ff1 \in Nat /\ b.at \in Nat
    BY <1>3, <1>4 DEF HInv, Tiled
  <2> QED
    BY <1>1, <1>2, <1>3, <1>4, <1>5, <2>1 DEF HInv, FirstFree
<1>13. LocalsOK'
  <2>1. ff1' \in Addr'
    BY <1>7, <1>8 DEF HeadersOK
  <2> QED
    BY <1>2, <2>1 DEF HInv, MemTypeOK, LocalsOK, WalkOK, FoundOK, KickOK, Kicking, Walking,
                      Addr, LastBlk, BigBlk, Barrier
<1> QED
  BY <1>8, <1>9, <1>10, <1>11, <1>12, <1>13, Parts DEF HeapInv

LEMMA NextHInv == HInv /\ [MemNext]_memVars => HInv'
<1> SUFFICES ASSUME HInv, [MemNext]_memVars PROVE HInv'
  OBVIOUS
<1>1. CASE osal_mem_alloc
  <2>1. PICK n \in Sizes : Begin(n, "walk")
    BY <1>1 DEF osal_mem_alloc
  <2> QED
    BY <2>1, BeginKeeps, SizeAssumption
<1>2. CASE osal_mem_kick
  BY <1>2, BeginKeeps DEF osal_mem_kick
<1>3. CASE osal_mem_free
  BY <1>3, FreeKeeps
<1>4. CASE WalkOn
  BY <1>4, WalkOnKeeps
<1>5. CASE WalkFinds
  BY <1>5, WalkFindsKeeps
<1>6. CASE WalkFails
  BY <1>6, WalkFailsKeeps
<1>7. CASE Allocate
  BY <1>7, AllocateKeeps
<1>8. CASE Kick
  BY <1>8, KickKeeps
<1>9. CASE ReturnNull
  <2>1. HeapInv' /\ kicked' \in BOOLEAN
    BY <1>9, HeapUnchanged DEF ReturnNull, HInv, MemTypeOK
  <2>2. LocalsOK'
    BY <1>9, <2>1, AtRest DEF ReturnNull, HeapInv
  <2> QED
    BY <2>1, <2>2, Parts
<1>10. CASE UNCHANGED memVars
  <2>1. HeapInv'
    BY <1>10, HeapUnchanged DEF memVars
  <2>2. LocalsOK'
    BY <1>10 DEF memVars, HInv, MemTypeOK, LocalsOK, WalkOK, FoundOK, KickOK, Kicking, Walking,
                 Ends, Addr, LastBlk, BigBlk, Barrier
  <2> QED
    BY <2>1, <2>2, Parts
<1> QED
  BY <1>1, <1>2, <1>3, <1>4, <1>5, <1>6, <1>7, <1>8, <1>9, <1>10 DEF MemNext

LEMMA HInvAlways == MemSpec => []HInv
BY InitHInv, NextHInv, PTL DEF MemSpec

\* Every variable of the heap keeps its type: no address leaves the heap.
THEOREM HeapTypes == MemSpec => []MemTypeOK
<1>1. HInv => MemTypeOK
  BY DEF HInv
<1> QED
  BY <1>1, HInvAlways, PTL

\* The blocks fill both parts of the heap without gap or overlap, and ff1 is
\* one of them: whatever is split, joined and freed in whatever order.
THEOREM HeapTiled == MemSpec => []Tiled
<1>1. HInv => Tiled
  BY DEF HInv
<1> QED
  BY <1>1, HInvAlways, PTL

\* What was given out stays with its caller, as long as was asked for.
THEOREM HeapTakenKept == MemSpec => []TakenKept
<1>1. HInv => TakenKept
  BY DEF HInv
<1> QED
  BY <1>1, HInvAlways, PTL

\* A block given out is its caller's own, and no byte of the heap is lost.
THEOREM BlocksAlwaysKept == MemSpec => []BlocksKept
<1>1. Tiled /\ TakenKept => BlocksKept
  BY DEF BlocksKept
<1> QED
  BY <1>1, HeapTiled, HeapTakenKept, PTL
-----------------------------------------------------------------------------
(* Why nothing is overlooked.  NoneBefore: no run of free blocks reaches   *)
(* from before the first of the blocks being joined up to it.  RunsShort:  *)
(* all runs that end where the walk stands are too short.                  *)
First == IF coal THEN prev ELSE hdr
NoneBefore == \A a \in DOMAIN heap : a < First /\ InReach(a) => ~FreeRun(a, First)
RunsShort(end) ==
  \A a \in DOMAIN heap : \A b \in DOMAIN heap :
    a < b /\ b <= end /\ InReach(a) /\ FreeRun(a, b) => b - a < size
RunInv == /\ Walking => NoneBefore /\ RunsShort(hdr)
          /\ memPc = "failed" => RunsShort(LastBlk)

LEMMA AddrNat ==
  ASSUME HInv
  PROVE  /\ \A a \in DOMAIN heap : a \in Nat /\ a <= LastBlk
         /\ \A a \in DOMAIN heap : heap[a].len \in Nat
         /\ size \in Nat /\ hdr \in Nat /\ prev \in Nat /\ ff1 \in Nat
BY Numbers DEF HInv, MemTypeOK

LEMMA BeginRuns ==
  ASSUME HInv, NEW n \in Nat, NEW next, Begin(n, next), next \in {"walk", "kickwalk"}
  PROVE  RunInv'
<1> USE Numbers, AddrNat
<1>1. /\ heap' = heap /\ kicked' = kicked /\ size' = n + HdrSz /\ hdr' = StartAt(n + HdrSz)
      /\ coal' = FALSE /\ memPc' = next
  BY DEF Begin
<1>2. First' = hdr' /\ hdr' \in Nat
  <2>1. First' = hdr'
    BY <1>1 DEF First
  <2>2. hdr' \in {ff1, BigBlk}
    BY <1>1 DEF StartAt
  <2> QED
    BY <2>1, <2>2
<1>3. ASSUME NEW a \in DOMAIN heap, a < hdr', InReach(a)' PROVE ~heap[a].inUse => FALSE
  <2>1. CASE hdr' = ff1
    BY <1>3, <2>1 DEF HInv, FirstFree
  <2>2. CASE hdr' # ff1
    BY <1>1, <1>3, <2>2 DEF StartAt, InReach, BigBlk, Barrier
  <2> QED
    BY <2>1, <2>2
<1>4. ASSUME NEW a \in DOMAIN heap', NEW b \in Nat, a < b, b <= hdr', InReach(a)'
      PROVE  ~FreeRun(a, b)'
  BY <1>1, <1>2, <1>3, <1>4 DEF FreeRun
<1>5. NoneBefore'
  BY <1>1, <1>2, <1>4 DEF NoneBefore
<1>6. RunsShort(hdr)'
  BY <1>1, <1>2, <1>4 DEF RunsShort
<1> QED
  BY <1>1, <1>5, <1>6 DEF RunInv, Walking

\* A turn that does not find enough: the runs up to the next block are too
\* short as well, whether or not the block was joined.
LEMMA TurnRuns ==
  ASSUME HInv, RunInv, Walking, ~Enough, heap' = Join, UNCHANGED <<size, kicked>>
  PROVE  \A a \in DOMAIN heap' : \A b \in DOMAIN heap' :
           a < b /\ b <= NextBlk /\ InReach(a) /\ FreeRun(a, b)' => b - a < size
<1> USE Numbers, AddrNat
<1>1. NoneBefore /\ RunsShort(hdr)
  BY DEF RunInv
<1>2. hdr \in DOMAIN heap /\ NextBlk = Ends(hdr) /\ NextBlk \in Nat
  BY DEF HInv, WalkOK, NextBlk, Ends
<1>3. DOMAIN heap' \subseteq DOMAIN heap /\ (Joining => hdr \notin DOMAIN heap')
  BY JoinHeader DEF Join
<1>4. ASSUME NEW a \in DOMAIN heap', NEW b \in DOMAIN heap', FreeRun(a, b)'
      PROVE  FreeRun(a, b)
  <2>1. CASE ~Joining
    BY <1>4, <2>1 DEF Join, FreeRun
  <2>2. CASE Joining
    <3>1. \A c \in DOMAIN heap : c # hdr => c \in DOMAIN heap' /\ (heap[c].inUse => c # prev)
      BY <2>2, JoinHeader DEF HInv, WalkOK, Joining
    <3>2. \A c \in DOMAIN heap : c # hdr /\ c # prev => heap'[c] = heap[c]
      BY <2>2, JoinHeader
    <3>3. ~heap[hdr].inUse
      BY <2>2 DEF Joining
    <3> QED
      BY <1>4, <3>1, <3>2, <3>3 DEF FreeRun
  <2> QED
    BY <2>1, <2>2
<1>5. ASSUME NEW a \in DOMAIN heap', NEW b \in DOMAIN heap', a < b, b <= NextBlk, InReach(a),
             FreeRun(a, b)
      PROVE  b - a < size
  <2>1. a \in DOMAIN heap /\ b \in DOMAIN heap /\ a \in Nat /\ b \in Nat
    BY <1>3
  <2>2. CASE b <= hdr
    BY <1>1, <1>5, <2>1, <2>2 DEF RunsShort
  <2>3. CASE ~(b <= hdr)
    <3>1. hdr # LastBlk
      BY <2>1, <2>3
    <3>2. b <= hdr \/ NextBlk <= b
      BY <1>2, <2>1, <3>1 DEF HInv, Tiled
    <3>3. b = NextBlk
      BY <1>2, <1>5, <2>1, <2>3, <3>2
    <3>4. a <= hdr \/ NextBlk <= a
      BY <1>2, <2>1, <3>1 DEF HInv, Tiled
    <3>5. a <= hdr /\ hdr < b
      BY <1>2, <1>5, <2>1, <2>3, <3>3, <3>4
    <3>6. ~heap[hdr].inUse
      BY <1>2, <1>5, <3>5 DEF FreeRun
    <3>7. First \in DOMAIN heap /\ First <= hdr /\ First \in Nat
      <4>1. CASE coal
        BY <4>1, <1>2, <3>6, JoinedBlock DEF First, Joining
      <4>2. CASE ~coal
        BY <4>2, <1>2 DEF First
      <4> QED
        BY <4>1, <4>2
    <3>8. ~(a < First)
      <4> SUFFICES ASSUME a < First PROVE FALSE
        OBVIOUS
      <4>1. ~FreeRun(a, First)
        BY <1>1, <1>5, <2>1 DEF NoneBefore
      <4>2. FreeRun(a, First)
        BY <1>2, <1>5, <2>1, <3>5, <3>7 DEF FreeRun
      <4> QED
        BY <4>1, <4>2
    <3>9. a = First
      <4>1. CASE coal
        <5>1. Joining /\ First = prev
          BY <3>6, <4>1 DEF Joining, First
        <5>2. a <= prev \/ hdr <= a
          BY <2>1, <5>1, JoinedBlock DEF HInv, Tiled
        <5> QED
          BY <1>2, <1>3, <2>1, <3>5, <3>8, <5>1, <5>2
      <4>2. CASE ~coal
        BY <2>1, <3>5, <3>8, <4>2 DEF First
      <4> QED
        BY <4>1, <4>2
    <3>10. CASE coal
      <4>1. Joining /\ a = prev /\ Joined < size
        BY <3>6, <3>9, <3>10, JoinHeader DEF Joining, First, Enough
      <4>2. prev + Joined = b
        BY <4>1, <1>2, <3>3, JoinHeader
      <4>3. Joined \in Nat
        BY <4>1, JoinHeader
      <4> QED
        BY <4>1, <4>2, <4>3, <2>1
    <3>11. CASE ~coal
      <4>1. a = hdr /\ heap[hdr].len < size
        BY <1>2, <3>6, <3>9, <3>11 DEF First, Enough
      <4>2. b = hdr + heap[hdr].len
        BY <3>3 DEF NextBlk
      <4> QED
        BY <4>1, <4>2, <1>2
    <3> QED
      BY <3>10, <3>11
  <2> QED
    BY <2>2, <2>3
<1> QED
  BY <1>4, <1>5

LEMMA WalkOnRuns ==
  ASSUME HInv, RunInv, WalkOn
  PROVE  RunInv'
<1> USE Numbers, AddrNat
<1>1. /\ Walking /\ heap' = Join /\ ~Enough /\ heap[NextBlk] # EndMark
      /\ UNCHANGED <<ff1, kicked, taken, memPc, size>>
      /\ hdr' = NextBlk /\ (coal' <=> ~heap[hdr].inUse)
      /\ prev' = IF heap[hdr].inUse \/ coal THEN prev ELSE hdr
  BY DEF WalkOn
<1>2. /\ hdr \in DOMAIN heap /\ hdr # LastBlk /\ NextBlk = Ends(hdr)
      /\ hdr < NextBlk /\ NextBlk \in Nat
  BY <1>1, NextBlock
<1>3. RunsShort(hdr)'
  BY <1>1, TurnRuns DEF RunsShort, InReach, BigBlk, Barrier
<1>4. NoneBefore'
  <2>1. CASE heap[hdr].inUse
    <3>1. heap' = heap /\ First' = NextBlk
      BY <1>1, <2>1 DEF Join, Joining, First
    <3>2. ASSUME NEW a \in DOMAIN heap, a < NextBlk PROVE ~FreeRun(a, NextBlk)
      <4>1. a <= hdr \/ NextBlk <= a
        BY <1>2 DEF HInv, Tiled
      <4>2. a <= hdr
        BY <1>2, <3>2, <4>1
      <4> QED
        BY <1>2, <2>1, <4>2 DEF FreeRun
    <3> QED
      BY <3>1, <3>2 DEF NoneBefore, FreeRun
  <2>2. CASE ~heap[hdr].inUse
    <3>1. First' = First
      BY <1>1, <2>2 DEF First
    <3>2. CASE ~coal
      <4>1. heap' = heap
        BY <1>1, <3>2 DEF Join, Joining
      <4> QED
        BY <1>1, <3>1, <4>1 DEF RunInv, NoneBefore, FreeRun, InReach, BigBlk, Barrier
    <3>3. CASE coal
      <4>1. Joining /\ First = prev
        BY <2>2, <3>3 DEF Joining, First
      <4>2. prev < hdr
        BY <1>1, <4>1, JoinedBlock
      <4>3. ASSUME NEW a \in DOMAIN heap', a < prev, InReach(a), FreeRun(a, prev)' PROVE FALSE
        <5>1. a \in DOMAIN heap
          BY <1>1, <4>1, JoinHeader
        <5>2. \A c \in DOMAIN heap : c < prev => c \in DOMAIN heap' /\ heap'[c] = heap[c]
          BY <1>1, <4>1, <4>2, JoinHeader
        <5>3. prev' = prev
          BY <1>1, <3>3
        <5>4. FreeRun(a, prev)
          BY <4>3, <5>2, <5>3 DEF FreeRun
        <5> QED
          BY <1>1, <4>1, <4>3, <5>1, <5>4 DEF RunInv, NoneBefore
      <4>4. First' = prev'
        BY <1>1, <2>2 DEF First
      <4>5. prev' = prev /\ kicked' = kicked /\ size' = size
        BY <1>1, <3>3
      <4> QED
        BY <4>3, <4>4, <4>5 DEF NoneBefore, InReach, BigBlk, Barrier
    <3> QED
      BY <3>2, <3>3
  <2> QED
    BY <2>1, <2>2
<1> QED
  BY <1>1, <1>3, <1>4 DEF RunInv, Walking

LEMMA WalkFailsRuns ==
  ASSUME HInv, RunInv, WalkFails
  PROVE  RunInv'
<1> USE Numbers, AddrNat
<1>1. /\ Walking /\ heap' = Join /\ ~Enough /\ heap[NextBlk] = EndMark /\ memPc' = "failed"
      /\ UNCHANGED <<ff1, kicked, taken, size, hdr, prev, coal>>
  BY DEF WalkFails, Walking
<1>2. hdr \in DOMAIN heap /\ NextBlk = Ends(hdr)
  BY <1>1 DEF HInv, WalkOK, NextBlk, Ends
<1>3. NextBlk = LastBlk
  <2>1. CASE hdr = LastBlk
    BY <2>1, <1>2 DEF HInv, Tiled, Ends, EndMark, Free
  <2>2. CASE hdr # LastBlk
    <3>1. NextBlk \in DOMAIN heap
      BY <1>2, <2>2 DEF HInv, Tiled
    <3>2. heap[NextBlk].len = 0
      BY <1>1 DEF EndMark, Free
    <3> QED
      BY <3>1, <3>2 DEF HInv, Tiled, Ends
  <2> QED
    BY <2>1, <2>2
<1>4. RunsShort(LastBlk)'
  BY <1>1, <1>3, TurnRuns DEF RunsShort, InReach, BigBlk, Barrier, LastBlk
<1> QED
  BY <1>1, <1>4 DEF RunInv, Walking

LEMMA NextRunInv == HInv /\ RunInv /\ [MemNext]_memVars => RunInv'
<1> SUFFICES ASSUME HInv, RunInv, [MemNext]_memVars PROVE RunInv'
  OBVIOUS
<1>1. CASE osal_mem_alloc
  <2>1. PICK n \in Sizes : Begin(n, "walk")
    BY <1>1 DEF osal_mem_alloc
  <2> QED
    BY <2>1, BeginRuns, SizeAssumption
<1>2. CASE osal_mem_kick
  BY <1>2, BeginRuns DEF osal_mem_kick
<1>3. CASE osal_mem_free
  BY <1>3 DEF osal_mem_free, RunInv, Walking
<1>4. CASE WalkOn
  BY <1>4, WalkOnRuns
<1>5. CASE WalkFinds
  BY <1>5 DEF WalkFinds, RunInv, Walking
<1>6. CASE WalkFails
  BY <1>6, WalkFailsRuns
<1>7. CASE Allocate
  BY <1>7 DEF Allocate, Rests, RunInv, Walking
<1>8. CASE Kick
  BY <1>8 DEF Kick, Rests, RunInv, Walking
<1>9. CASE ReturnNull
  BY <1>9 DEF ReturnNull, Rests, RunInv, Walking
<1>10. CASE UNCHANGED memVars
  BY <1>10 DEF memVars, RunInv, Walking, NoneBefore, RunsShort, First, InReach, FreeRun,
               LastBlk, BigBlk, Barrier
<1> QED
  BY <1>1, <1>2, <1>3, <1>4, <1>5, <1>6, <1>7, <1>8, <1>9, <1>10 DEF MemNext

\* A request is refused only when no run of free blocks in reach is long
\* enough for it: ff1 never hides a free block, and joining on the way finds
\* every run.
THEOREM NothingOverlooked == MemSpec => []FailsOnlyWithoutRoom
<1>1. MemInit => RunInv
  BY DEF MemInit, RunInv, Walking
<1>2. HInv /\ RunInv => FailsOnlyWithoutRoom
  BY AddrNat DEF RunInv, RunsShort, FailsOnlyWithoutRoom
<1> QED
  BY <1>1, <1>2, NextRunInv, HInvAlways, PTL DEF MemSpec
=============================================================================
