------------------------- MODULE OSAL_Timers_proofs -------------------------
(***************************************************************************)
(* The software timers, for any timers, records and timeouts and any bound *)
(* on the time between two updates: the linked list stays whole while      *)
(* interrupts append to it during a walk, no timer is late, and a timer    *)
(* that was stopped does not fire.                                         *)
(***************************************************************************)
EXTENDS OSAL_Timers, TLAPS, FiniteSetTheorems, FunctionTheorems,
        WellFoundedInduction

-----------------------------------------------------------------------------
(* The list as a sequence.                                                 *)

(* The n records s[1] .. s[n], each once, are the list, in this order.     *)
IsList(n, s) ==
  /\ n \in Nat /\ s \in [1 .. n -> Recs]
  /\ \A i, j \in 1 .. n : s[i] = s[j] => i = j
  /\ timerHead = IF n = 0 THEN NULL ELSE s[1]
  /\ \A i \in 1 .. n : timer[s[i]].next = IF i = n THEN NULL ELSE s[i + 1]

(* The chain a list of n records in the order s makes.                     *)
ChainOf(n, s) ==
  [k \in 0 .. Cardinality(Recs) |-> IF k < n THEN s[k + 1] ELSE NULL]

(* Every set of natural numbers that is not empty has a least element.     *)
LEMMA LeastNat ==
  ASSUME NEW T, T \subseteq Nat, T # {}
  PROVE  \E x \in T : \A y \in T : x <= y
<1> DEFINE Sets == {0 .. t : t \in T}
<1>1. Sets \subseteq FiniteSubsetsOf(Nat) /\ Sets # {}
  <2>1. \A t \in T : 0 .. t \in FiniteSubsetsOf(Nat)
    BY FS_Interval DEF FiniteSubsetsOf
  <2> QED
    BY <2>1
<1>2. PICK U \in Sets : \A V \in Sets : ~(<<V, U>> \in StrictSubsetOrdering(Nat))
  <2> HIDE DEF Sets
  <2> QED
    BY <1>1, WFMin, FS_StrictSubsetOrderingWellFounded
<1>3. PICK x \in T : U = 0 .. x
  OBVIOUS
<1>4. ASSUME NEW y \in T, y < x PROVE FALSE
  <2>1. <<0 .. y, 0 .. x>> \in StrictSubsetOrdering(Nat)
    BY <1>4 DEF StrictSubsetOrdering
  <2> QED
    BY <1>2, <1>3, <2>1
<1> QED
  BY <1>4

LEMMA RecsFinite == Cardinality(Recs) \in Nat /\ NULL \notin Recs
<1>1. IsFiniteSet(Recs) /\ NULL \notin Recs
  BY TimerAssumption
<1> QED
  BY <1>1, FS_CardinalityType, Zenon

(* A list is no longer than there are records.                             *)
LEMMA ListFits == ASSUME NEW n, NEW s, IsList(n, s) PROVE n <= Cardinality(Recs)
<1>1. s \in Injection(1 .. n, Recs)
  BY Fun_IsInj DEF IsList
<1>2. IsFiniteSet(Recs)
  BY TimerAssumption
<1>3. Cardinality(1 .. n) <= Cardinality(Recs)
  BY <1>1, <1>2, FS_Injection
<1>4. Cardinality(1 .. n) = n
  BY FS_Interval DEF IsList
<1> QED
  BY <1>3, <1>4

(* The chain that is followed from the head is the list, by induction on   *)
(* the place in it.                                                        *)
LEMMA ChainIsList ==
  ASSUME NEW n, NEW s, IsList(n, s) PROVE Chain = ChainOf(n, s)
<1> DEFINE D == 0 .. Cardinality(Recs)
           Link(c) == [k \in D |-> IF k = 0 THEN timerHead
                                   ELSE IF c[k - 1] = NULL THEN NULL
                                   ELSE timer[c[k - 1]].next]
           w == ChainOf(n, s)
<1>1. w = Link(w)
  <2>1. w = [k \in D |-> w[k]]
    BY DEF ChainOf
  <2>2. ASSUME NEW k \in D PROVE w[k] = Link(w)[k]
    <3>1. CASE k = 0
      BY <3>1, RecsFinite DEF ChainOf, IsList
    <3>2. CASE k # 0
      <4>1. k - 1 \in D /\ (k - 1) + 1 = k
        BY <3>2, RecsFinite
      <4>2. w[k - 1] = IF k - 1 < n THEN s[k] ELSE NULL
        BY <4>1 DEF ChainOf
      <4>3. CASE k - 1 < n
        <5>1. k \in 1 .. n /\ s[k] # NULL
          BY <3>2, <4>3, RecsFinite DEF IsList
        <5>2. Link(w)[k] = timer[s[k]].next
          BY <3>2, <4>2, <4>3, <5>1
        <5> QED
          BY <5>1, <5>2 DEF IsList, ChainOf
      <4>4. CASE ~(k - 1 < n)
        BY <3>2, <4>2, <4>4, RecsFinite, SMTT(40) DEF IsList, ChainOf
      <4> QED
        BY <4>3, <4>4
    <3> QED
      BY <3>1, <3>2
  <2> QED
    BY <2>1, <2>2
<1>2. Chain = Link(Chain)
  BY <1>1 DEF Chain
<1>3. \A k \in D : Chain[k] = w[k]
  <2> DEFINE T == {k \in D : Chain[k] # w[k]}
  <2> SUFFICES ASSUME T # {} PROVE FALSE
    OBVIOUS
  <2>1. PICK x \in T : \A y \in T : x <= y
    <3>1. T \subseteq Nat
      BY RecsFinite
    <3> HIDE DEF T
    <3> QED
      BY <3>1, LeastNat
  <2> HIDE DEF w
  <2>2. x # 0
    BY <1>1, <1>2, <2>1, RecsFinite
  <2>3. x - 1 \in D /\ x - 1 \notin T
    BY <2>1, <2>2, RecsFinite
  <2>4. Chain[x - 1] = w[x - 1]
    BY <2>3
  <2>5. /\ Chain[x] = IF Chain[x - 1] = NULL THEN NULL ELSE timer[Chain[x - 1]].next
        /\ w[x] = IF w[x - 1] = NULL THEN NULL ELSE timer[w[x - 1]].next
    BY <1>1, <1>2, <2>1, <2>2, Zenon
  <2> QED
    BY <2>1, <2>4, <2>5
<1> QED
  BY <1>2, <1>3 DEF ChainOf

(* What the walk has not passed: the records from srchTimer on, and before *)
(* it starts all of them.                                                  *)
Ahead(s, i) == \/ pc = "head"
               \/ pc \in {"walk", "free"} /\ \E p \in 1 .. i : s[p] = srchTimer

LEMMA ListRead ==
  ASSUME NEW n, NEW s, IsList(n, s)
  PROVE  /\ Linked = {s[i] : i \in 1 .. n}
         /\ Chain[Cardinality(Recs)] = NULL
<1>1. Chain = ChainOf(n, s) /\ n <= Cardinality(Recs) /\ n \in Nat
  BY ChainIsList, ListFits DEF IsList
<1>2. DOMAIN Chain = 0 .. Cardinality(Recs)
  BY <1>1 DEF ChainOf
<1>3. \A k \in 0 .. Cardinality(Recs) : Chain[k] = IF k < n THEN s[k + 1] ELSE NULL
  BY <1>1 DEF ChainOf
<1>4. \A i \in 1 .. n : s[i] \in Recs /\ s[i] # NULL
  BY RecsFinite DEF IsList
<1>5. ASSUME NEW r \in Linked PROVE \E i \in 1 .. n : r = s[i]
  <2>1. PICK k \in 0 .. Cardinality(Recs) : r = Chain[k] /\ r # NULL
    BY <1>2 DEF Linked
  <2>2. k < n /\ r = s[k + 1]
    BY <1>3, <2>1
  <2> QED
    BY <1>1, <2>2, RecsFinite
<1>6. ASSUME NEW i \in 1 .. n PROVE s[i] \in Linked
  <2>1. i - 1 \in 0 .. Cardinality(Recs) /\ i - 1 < n /\ (i - 1) + 1 = i
    BY <1>1, RecsFinite
  <2>2. Chain[i - 1] = s[i]
    BY <1>3, <2>1
  <2> QED
    BY <1>2, <1>4, <2>1, <2>2 DEF Linked
<1>7. Chain[Cardinality(Recs)] = NULL
  BY <1>1, <1>3, RecsFinite
<1> QED
  BY <1>5, <1>6, <1>7

LEMMA UnvisitedRead ==
  ASSUME NEW n, NEW s, IsList(n, s), NEW i \in 1 .. n,
         pc \in {"idle", "head", "walk", "free"}
  PROVE  s[i] \in Unvisited <=> Ahead(s, i)
<1>1. /\ Chain = ChainOf(n, s) /\ n <= Cardinality(Recs) /\ n \in Nat
      /\ Linked = {s[k] : k \in 1 .. n}
  BY ChainIsList, ListFits, ListRead DEF IsList
<1>2. /\ DOMAIN Chain = 0 .. Cardinality(Recs)
      /\ \A k \in 0 .. Cardinality(Recs) : Chain[k] = IF k < n THEN s[k + 1] ELSE NULL
  BY <1>1 DEF ChainOf
<1>3. \A k \in 1 .. n : s[k] \in Recs /\ s[k] # NULL
  BY RecsFinite DEF IsList
<1>4. CASE pc \in {"idle", "head"}
  BY <1>1, <1>4 DEF Unvisited, Ahead
<1>5. CASE pc \in {"walk", "free"}
  <2>1. s[i] \in Unvisited <=>
          \E a, b \in DOMAIN Chain :
            Chain[a] = srchTimer /\ srchTimer # NULL /\ Chain[b] = s[i] /\ a <= b
    BY <1>1, <1>5 DEF Unvisited
  <2>2. ASSUME NEW a \in DOMAIN Chain, NEW b \in DOMAIN Chain,
               Chain[a] = srchTimer, srchTimer # NULL, Chain[b] = s[i], a <= b
        PROVE  \E p \in 1 .. i : s[p] = srchTimer
    <3>1. a < n /\ s[a + 1] = srchTimer /\ b < n /\ s[b + 1] = s[i]
      BY <1>2, <1>3, <2>2
    <3>2. b + 1 = i
      BY <1>1, <1>2, <3>1, RecsFinite DEF IsList
    <3> QED
      BY <1>1, <1>2, <2>2, <3>1, <3>2, RecsFinite
  <2>3. ASSUME NEW p \in 1 .. i, s[p] = srchTimer
        PROVE  \E a, b \in DOMAIN Chain :
                 Chain[a] = srchTimer /\ srchTimer # NULL /\ Chain[b] = s[i] /\ a <= b
    <3>1. /\ p - 1 \in DOMAIN Chain /\ i - 1 \in DOMAIN Chain /\ p - 1 <= i - 1
          /\ p \in 1 .. n
      BY <1>1, <1>2, RecsFinite
    <3>2. Chain[p - 1] = s[p] /\ Chain[i - 1] = s[i]
      BY <1>1, <1>2, <3>1, RecsFinite
    <3> QED
      BY <1>3, <2>3, <3>1, <3>2
  <2> QED
    BY <1>5, <2>1, <2>2, <2>3 DEF Ahead
<1> QED
  BY <1>4, <1>5
-----------------------------------------------------------------------------
(* The inductive invariant.                                                *)

(* Every record is in the list, on the heap, or about to be freed.         *)
Placed(n, s) ==
  /\ \A i \in 1 .. n : s[i] \notin heap /\ s[i] # freeTimer
  /\ freeTimer \notin heap
  /\ freeTimer # NULL <=> pc = "free"
  /\ \A r \in Recs : r \in heap \/ r = freeTimer \/ \E i \in 1 .. n : s[i] = r

(* The walk stands between two neighbours.                                 *)
Between(n, s) ==
  pc \in {"walk", "free"} /\ srchTimer # NULL =>
    \E p \in 1 .. n : /\ srchTimer = s[p]
                      /\ prevTimer = IF p = 1 THEN NULL ELSE s[p - 1]

OneTimer(n, s) ==
  \A i, j \in 1 .. n :
    timer[s[i]].event_flag # NULL /\ timer[s[i]].event_flag = timer[s[j]].event_flag
      => i = j

InTime(n, s) ==
  \A i \in 1 .. n :
    timer[s[i]].event_flag # NULL =>
      timer[s[i]].timeout - (IF Ahead(s, i) THEN updateTime ELSE 0)
        <= left[timer[s[i]].event_flag] + lag

(* A timer that was stopped has no record, nor is one about to be freed.   *)
Stopped(n, s) ==
  \A id \in TimerIds :
    status[id] = "stopped" =>
      /\ \A i \in 1 .. n : timer[s[i]].event_flag # id
      /\ pc = "free" => timer[freeTimer].event_flag # id

Whole(n, s) ==
  /\ IsList(n, s) /\ Placed(n, s) /\ Between(n, s)
  /\ OneTimer(n, s) /\ InTime(n, s) /\ Stopped(n, s)

Inv == TypeOK /\ \E n, s : Whole(n, s)

(* What Inv says of the state in the words of the properties.              *)
LEMMA Found ==
  ASSUME TypeOK, NEW n, NEW s, IsList(n, s), NEW id \in TimerIds
  PROVE  osalFindTimer(id) = {s[i] : i \in {k \in 1 .. n : timer[s[k]].event_flag = id}}
BY ListRead DEF osalFindTimer

LEMMA InvRead == Inv => ListIntact /\ NeverLate
<1> SUFFICES ASSUME Inv PROVE ListIntact /\ NeverLate
  OBVIOUS
<1>1. PICK n, s : Whole(n, s)
  BY DEF Inv
<1>2. /\ IsList(n, s) /\ TypeOK /\ n \in Nat
      /\ Linked = {s[i] : i \in 1 .. n}
      /\ Chain[Cardinality(Recs)] = NULL
  <2>1. IsList(n, s) /\ TypeOK
    BY <1>1 DEF Inv, Whole
  <2>2. n \in Nat
    BY <2>1 DEF IsList
  <2> QED
    BY <2>1, <2>2, ListRead
<1>3. /\ Linked \cap heap = {}
      /\ freeTimer \notin Linked \cup heap
      /\ freeTimer # NULL <=> pc = "free"
      /\ Recs \subseteq Linked \cup heap \cup {freeTimer}
  BY <1>1, <1>2 DEF Whole, Placed
<1>4. ASSUME pc \in {"walk", "free"}, srchTimer # NULL
      PROVE  IF prevTimer = NULL THEN srchTimer = timerHead
             ELSE prevTimer \in Linked /\ timer[prevTimer].next = srchTimer
  <2>1. PICK p \in 1 .. n : /\ srchTimer = s[p]
                            /\ prevTimer = IF p = 1 THEN NULL ELSE s[p - 1]
    BY <1>1, <1>4 DEF Whole, Between
  <2>2. CASE p = 1
    BY <1>2, <2>1, <2>2 DEF IsList
  <2>3. CASE p # 1
    <3>1. p - 1 \in 1 .. n /\ p - 1 # n /\ (p - 1) + 1 = p
      BY <1>2, <2>3
    <3>2. s[p - 1] \in Recs
      BY <1>2, <3>1 DEF IsList
    <3> QED
      BY <1>2, <2>1, <2>3, <3>1, <3>2, RecsFinite DEF IsList
  <2> QED
    BY <2>2, <2>3
<1>5. OneRecord
  <2> SUFFICES ASSUME NEW id \in TimerIds PROVE Cardinality(osalFindTimer(id)) <= 1
    BY DEF OneRecord
  <2>1. id # NULL
    BY TimerAssumption
  <2>2. CASE osalFindTimer(id) = {}
    BY <2>2, FS_EmptySet
  <2>3. CASE osalFindTimer(id) # {}
    <3>1. PICK r : r \in osalFindTimer(id)
      BY <2>3
    <3>2. osalFindTimer(id) = {r}
      BY <1>1, <1>2, <2>1, <3>1, Found DEF Whole, OneTimer
    <3>3. Cardinality({r}) = 1
      BY FS_Singleton
    <3> QED
      BY <3>2, <3>3
  <2> QED
    BY <2>2, <2>3
<1>6. NeverLate
  <2> SUFFICES ASSUME NEW r \in Linked, timer[r].event_flag # NULL
               PROVE  timer[r].timeout - (IF r \in Unvisited THEN updateTime ELSE 0)
                        <= left[timer[r].event_flag] + lag
    BY DEF NeverLate
  <2>1. PICK i \in 1 .. n : r = s[i]
    BY <1>2
  <2>2. r \in Unvisited <=> Ahead(s, i)
    <3>1. pc \in {"idle", "head", "walk", "free"}
      BY DEF Inv, TypeOK
    <3> QED
      BY <1>2, <2>1, <3>1, UnvisitedRead
  <2> QED
    BY <1>1, <2>1, <2>2 DEF Whole, InTime
<1> QED
  BY <1>2, <1>3, <1>4, <1>5, <1>6 DEF ListIntact

-----------------------------------------------------------------------------
(* What happens to the list.                                               *)

Added(n, s, r) == [i \in 1 .. n + 1 |-> IF i <= n THEN s[i] ELSE r]

Without(n, s, p) == [i \in 1 .. n - 1 |-> IF i < p THEN s[i] ELSE s[i + 1]]

(* Neither the head nor a next pointer changes.                            *)
LEMMA ListKept ==
  ASSUME NEW n, NEW s, IsList(n, s), timerHead' = timerHead,
         \A i \in 1 .. n : timer'[s[i]].next = timer[s[i]].next
  PROVE  IsList(n, s)'
BY DEF IsList

(* A record that was not in the list is linked behind its last one.        *)
LEMMA ListAdded ==
  ASSUME NEW n, NEW s, IsList(n, s), NEW r \in Recs,
         \A i \in 1 .. n : s[i] # r,
         timer'[r].next = NULL,
         n = 0 => timerHead' = r,
         n # 0 => timerHead' = timerHead /\ timer'[s[n]].next = r,
         \A i \in 1 .. n : i # n => timer'[s[i]].next = timer[s[i]].next
  PROVE  IsList(n + 1, Added(n, s, r))'
<1> DEFINE t == Added(n, s, r)
<1>1. n \in Nat /\ n + 1 \in Nat
  BY DEF IsList
<1>2. \A i \in 1 .. n + 1 : t[i] = IF i <= n THEN s[i] ELSE r
  BY DEF Added
<1>3. t \in [1 .. n + 1 -> Recs]
  BY <1>1 DEF Added, IsList
<1>4. \A i, j \in 1 .. n + 1 : t[i] = t[j] => i = j
  BY <1>1, <1>2 DEF IsList
<1>5. timerHead' = t[1]
  BY <1>1, <1>2 DEF IsList
<1>6. ASSUME NEW i \in 1 .. n + 1
      PROVE  timer'[t[i]].next = IF i = n + 1 THEN NULL ELSE t[i + 1]
  <2>1. CASE i = n + 1
    BY <1>1, <1>2, <2>1
  <2>2. CASE i = n
    BY <1>1, <1>2, <1>6, <2>2
  <2>3. CASE i < n
    BY <1>1, <1>2, <1>6, <2>3 DEF IsList
  <2> QED
    BY <1>1, <1>6, <2>1, <2>2, <2>3
<1> QED
  BY <1>1, <1>3, <1>4, <1>5, <1>6 DEF IsList

(* The p-th record is taken out: the one before it, or the head, gets its  *)
(* next pointer.                                                           *)
LEMMA ListWithout ==
  ASSUME NEW n, NEW s, IsList(n, s), NEW p \in 1 .. n,
         p = 1 => timerHead' = timer[s[p]].next,
         p # 1 => timerHead' = timerHead /\ timer'[s[p - 1]].next = timer[s[p]].next,
         \A i \in 1 .. n : i # p /\ i # p - 1 => timer'[s[i]].next = timer[s[i]].next
  PROVE  IsList(n - 1, Without(n, s, p))'
<1> DEFINE t == Without(n, s, p)
<1>1. n \in Nat /\ n - 1 \in Nat
  BY DEF IsList
<1>2. \A i \in 1 .. n - 1 : t[i] = IF i < p THEN s[i] ELSE s[i + 1]
  BY DEF Without
<1>3. t \in [1 .. n - 1 -> Recs]
  BY <1>1 DEF Without, IsList
<1>4. \A i, j \in 1 .. n - 1 : t[i] = t[j] => i = j
  BY <1>1, <1>2 DEF IsList
<1>5. timerHead' = IF n - 1 = 0 THEN NULL ELSE t[1]
  <2>1. CASE p = 1
    BY <1>1, <1>2, <2>1 DEF IsList
  <2>2. CASE p # 1
    BY <1>1, <1>2, <2>2 DEF IsList
  <2> QED
    BY <2>1, <2>2
<1>6. ASSUME NEW i \in 1 .. n - 1
      PROVE  timer'[t[i]].next = IF i = n - 1 THEN NULL ELSE t[i + 1]
  <2>1. CASE i < p - 1
    BY <1>1, <1>2, <2>1 DEF IsList
  <2>2. CASE i = p - 1
    <3>1. t[i] = s[p - 1] /\ p # 1
      BY <1>1, <1>2, <2>2
    <3>2. timer'[t[i]].next = timer[s[p]].next
      BY <3>1
    <3> QED
      BY <1>1, <1>2, <2>2, <3>2 DEF IsList
  <2>3. CASE i >= p
    BY <1>1, <1>2, <2>3 DEF IsList
  <2> QED
    BY <1>1, <2>1, <2>2, <2>3
<1> QED
  BY <1>1, <1>3, <1>4, <1>5, <1>6 DEF IsList

-----------------------------------------------------------------------------
(* Type correctness.                                                       *)

LEMMA Times ==
  /\ Milliseconds \subseteq Nat /\ 0 \in Milliseconds
  /\ Timeouts \subseteq Milliseconds
  /\ \A a \in Milliseconds, u \in Nat : a > u => a - u \in Milliseconds
<1>1. MaxMs \in Nat
  BY DEF MaxMs
<1> QED
  BY <1>1, TimerAssumption DEF Milliseconds

LEMMA TimesTyped ==
  ASSUME TypeOK, NEW r \in Recs
  PROVE  /\ timer[r].next \in Pointer
         /\ timer[r].event_flag \in TimerIds \cup {NULL}
         /\ timer[r].timeout \in Milliseconds /\ timer[r].reloadTimeout \in Milliseconds
         /\ Remaining(r) \in Milliseconds /\ TimeoutAfter(r) \in Milliseconds
<1>1. /\ timer[r].next \in Pointer
      /\ timer[r].event_flag \in TimerIds \cup {NULL}
      /\ timer[r].timeout \in Milliseconds /\ timer[r].reloadTimeout \in Milliseconds
  BY DEF TypeOK
<1>2. updateTime \in Nat
  BY TimerAssumption DEF TypeOK
<1>3. Remaining(r) \in Milliseconds
  <2>1. CASE timer[r].timeout <= updateTime
    BY <2>1, Times DEF Remaining
  <2>2. CASE ~(timer[r].timeout <= updateTime)
    <3>1. timer[r].timeout > updateTime
      <4>1. timer[r].timeout \in Nat
        BY <1>1, Times, Zenon
      <4> QED
        BY <1>2, <2>2, <4>1
    <3>2. timer[r].timeout - updateTime \in Milliseconds
      BY <1>1, <1>2, <3>1, Times, Zenon
    <3> QED
      BY <2>2, <3>2 DEF Remaining
  <2> QED
    BY <2>1, <2>2
<1> QED
  BY <1>1, <1>3 DEF TimeoutAfter

Record == [next : Pointer, timeout : Milliseconds,
           event_flag : TimerIds \cup {NULL}, reloadTimeout : Milliseconds]

LEMMA VisitTyped == TypeOK /\ Visit => TypeOK'
<1> SUFFICES ASSUME TypeOK, Visit PROVE TypeOK'
  OBVIOUS
<1> DEFINE r == srchTimer
           fields == [timer[r] EXCEPT !.timeout = TimeoutAfter(r)]
<1>1. /\ r \in Recs /\ pc = "walk"
      /\ srchTimer' = timer[r].next
      /\ heap' = heap /\ updateTime' = updateTime /\ lag' = lag
      /\ IF Reloads(r) THEN Renew(timer[r].event_flag)
                       ELSE UNCHANGED <<pending, promise>>
      /\ IF Removed(r) THEN Unlink(r, fields)
         ELSE /\ timer' = [timer EXCEPT ![r] = fields]
              /\ prevTimer' = r
              /\ UNCHANGED <<timerHead, freeTimer, pc>>
  BY DEF Visit, TypeOK, Pointer
<1>2. timer \in [Recs -> Record] /\ fields \in Record /\ timer[r].next \in Pointer
  <2>1. timer \in [Recs -> Record] /\ timer[r] \in Record
    BY <1>1 DEF TypeOK, Record
  <2>2. TimeoutAfter(r) \in Milliseconds
    BY <1>1, TimesTyped
  <2> QED
    BY <2>1, <2>2 DEF Record
<1>3. pending' \in SUBSET TimerIds /\ status' \in [TimerIds -> {"off", "running", "stopped"}]
      /\ left' \in [TimerIds -> Int]
  <2>1. CASE Reloads(r)
    <3>1. timer[r].event_flag \in TimerIds
      BY <1>1, <2>1, TimesTyped DEF Reloads
    <3>2. timer[r].reloadTimeout - lag \in Int
      BY <1>1, TimesTyped, Times, TimerAssumption DEF TypeOK
    <3> QED
      BY <1>1, <2>1, <3>1, <3>2 DEF Renew, TypeOK
  <2>2. CASE ~Reloads(r)
    BY <1>1, <2>2 DEF promise, TypeOK
  <2> QED
    BY <2>1, <2>2
<1>4. /\ timerHead' \in Pointer /\ timer' \in [Recs -> Record]
      /\ prevTimer' \in Pointer /\ freeTimer' \in Pointer
      /\ pc' \in {"idle", "head", "walk", "free"}
  <2> HIDE DEF fields
  <2>1. CASE Removed(r)
    <3>1. Unlink(r, fields)
      BY <1>1, <2>1
    <3>2. CASE prevTimer = NULL
      BY <1>1, <1>2, <3>1, <3>2 DEF Unlink, TypeOK, Pointer
    <3>3. CASE prevTimer # NULL
      <4>1. /\ prevTimer \in Recs /\ prevTimer' = prevTimer /\ freeTimer' = r
            /\ pc' = "free" /\ timerHead' = timerHead
            /\ timer' = [timer EXCEPT ![prevTimer].next = timer[r].next, ![r] = fields]
        BY <3>1, <3>3 DEF Unlink, TypeOK, Pointer
      <4>2. timer' \in [Recs -> Record]
        BY <1>1, <1>2, <4>1 DEF Record
      <4> QED
        BY <1>1, <4>1, <4>2 DEF TypeOK, Pointer
    <3> QED
      BY <3>2, <3>3
  <2>2. CASE ~Removed(r)
    BY <1>1, <1>2, <2>2 DEF TypeOK, Pointer
  <2> QED
    BY <2>1, <2>2
<1> QED
  BY <1>1, <1>2, <1>3, <1>4 DEF TypeOK, Record

LEMMA LinkedRecs == ASSUME NEW n, NEW s, IsList(n, s) PROVE Linked \subseteq Recs
<1>1. Linked = {s[i] : i \in 1 .. n}
  BY ListRead
<1> QED
  BY <1>1 DEF IsList

LEMMA StartTyped ==
  ASSUME TypeOK, NEW n, NEW s, IsList(n, s), NEW id \in TimerIds, StartTimer(id)
  PROVE  TypeOK'
<1>1. PICK ms \in Timeouts, reload \in BOOLEAN :
        /\ osalAddTimer(id, ms, reload)
        /\ status' = [status EXCEPT ![id] = "running"]
        /\ left' = [left EXCEPT ![id] = ms]
  BY DEF StartTimer
<1>2. UNCHANGED <<pc, srchTimer, prevTimer, freeTimer, updateTime, pending, lag>>
  BY DEF StartTimer, walk
<1>3. ms \in Milliseconds /\ 0 \in Milliseconds /\ ms \in Int
  BY Times
<1>4. timer \in [Recs -> Record]
  BY DEF TypeOK, Record
<1>5. Linked \subseteq Recs
  BY LinkedRecs
<1>6. timerHead' \in Pointer /\ timer' \in [Recs -> Record] /\ heap' \in SUBSET Recs
  <2>1. CASE UpdateTimer(id, ms, reload)
    <3>1. PICK r \in osalFindTimer(id) :
            timer' = [timer EXCEPT ![r].timeout = ms,
                                   ![r].reloadTimeout = IF reload THEN ms ELSE @]
      BY <2>1 DEF UpdateTimer
    <3>2. r \in Recs
      BY <1>5 DEF osalFindTimer
    <3>3. timer' \in [Recs -> Record]
      BY <1>3, <1>4, <3>1, <3>2, ZenonT(60) DEF Record
    <3> QED
      BY <2>1, <3>3 DEF UpdateTimer, TypeOK
  <2>2. CASE AppendTimer(id, ms, reload)
    <3> DEFINE new == [next |-> NULL, timeout |-> ms, event_flag |-> id,
                       reloadTimeout |-> IF reload THEN ms ELSE 0]
    <3>1. PICK r \in heap :
            /\ heap' = heap \ {r}
            /\ \/ /\ timerHead = NULL
                  /\ timerHead' = r
                  /\ timer' = [timer EXCEPT ![r] = new]
               \/ \E last \in Linked :
                    /\ timer[last].next = NULL
                    /\ timer' = [timer EXCEPT ![last].next = r, ![r] = new]
                    /\ UNCHANGED timerHead
      BY <2>2 DEF AppendTimer
    <3>2. r \in Recs /\ new \in Record
      BY <1>3, <3>1 DEF TypeOK, Record, Pointer
    <3> HIDE DEF new
    <3>3. timer' \in [Recs -> Record] /\ timerHead' \in Pointer
      <4>1. CASE timerHead' = r /\ timer' = [timer EXCEPT ![r] = new]
        BY <1>4, <3>2, <4>1 DEF Pointer
      <4>2. ASSUME NEW last \in Linked, UNCHANGED timerHead,
                   timer' = [timer EXCEPT ![last].next = r, ![r] = new]
            PROVE  timer' \in [Recs -> Record] /\ timerHead' \in Pointer
        <5>1. last \in Recs
          BY <1>5
        <5>2. timer' \in [Recs -> Record]
          BY <1>4, <3>2, <4>2, <5>1 DEF Pointer, Record
        <5> QED
          BY <4>2, <5>2 DEF TypeOK
      <4> QED
        BY <3>1, <4>1, <4>2
    <3> QED
      BY <3>1, <3>3 DEF TypeOK
  <2> QED
    BY <1>1, <2>1, <2>2 DEF osalAddTimer
<1>7. status' \in [TimerIds -> {"off", "running", "stopped"}] /\ left' \in [TimerIds -> Int]
  BY <1>1, <1>3 DEF TypeOK
<1> QED
  BY <1>2, <1>6, <1>7 DEF TypeOK, Record

LEMMA StopTyped ==
  ASSUME TypeOK, NEW n, NEW s, IsList(n, s), NEW id \in TimerIds, StopTimer(id)
  PROVE  TypeOK'
<1>1. PICK r \in osalFindTimer(id) : timer' = [timer EXCEPT ![r].event_flag = NULL]
  BY DEF StopTimer, osalDeleteTimer
<1>2. /\ status' = [status EXCEPT ![id] = "stopped"]
      /\ left' = [left EXCEPT ![id] = 0]
      /\ UNCHANGED <<timerHead, heap, pc, srchTimer, prevTimer, freeTimer, updateTime, pending, lag>>
  BY DEF StopTimer, walk
<1>3. r \in Recs
  BY LinkedRecs DEF osalFindTimer
<1>4. timer' \in [Recs -> Record]
  BY <1>1, <1>3 DEF TypeOK, Record
<1>5. status' \in [TimerIds -> {"off", "running", "stopped"}] /\ left' \in [TimerIds -> Int]
  BY <1>2 DEF TypeOK
<1> QED
  BY <1>2, <1>4, <1>5 DEF TypeOK, Record

LEMMA ExpireTyped ==
  ASSUME TypeOK, Expire, freeTimer # NULL PROVE TypeOK'
<1> DEFINE id == timer[freeTimer].event_flag
           done == osalFindTimer(id) = {}
<1>1. /\ IF timer[freeTimer].timeout = 0 /\ id # NULL
         THEN /\ pending' = pending \cup {id}
              /\ status' = IF done THEN [status EXCEPT ![id] = "off"] ELSE status
              /\ left' = IF done THEN [left EXCEPT ![id] = 0] ELSE left
         ELSE UNCHANGED <<pending, promise>>
      /\ timer' = [timer EXCEPT ![freeTimer] = Blank]
      /\ heap' = heap \cup {freeTimer}
      /\ freeTimer' = NULL
      /\ pc' = "walk"
      /\ UNCHANGED <<timerHead, srchTimer, prevTimer, updateTime, lag>>
  BY DEF Expire
<1>2. freeTimer \in Recs /\ id \in TimerIds \cup {NULL}
  BY TimesTyped DEF TypeOK, Pointer
<1>3. Blank \in Record /\ timer \in [Recs -> Record]
  BY Times DEF Blank, Record, Pointer, TypeOK
<1>4. timer' \in [Recs -> Record]
  BY <1>1, <1>2, <1>3
<1>5. /\ pending' \in SUBSET TimerIds
      /\ status' \in [TimerIds -> {"off", "running", "stopped"}]
      /\ left' \in [TimerIds -> Int]
  <2> HIDE DEF id, done
  <2>1. CASE timer[freeTimer].timeout = 0 /\ id # NULL
    BY <1>1, <1>2, <2>1 DEF TypeOK
  <2>2. CASE ~(timer[freeTimer].timeout = 0 /\ id # NULL)
    BY <1>1, <2>2 DEF TypeOK, promise
  <2> QED
    BY <2>1, <2>2
<1> QED
  BY <1>1, <1>2, <1>4, <1>5 DEF TypeOK, Record, Pointer

-----------------------------------------------------------------------------
(* The invariant, action by action.                                        *)

(* What is known of the i-th record.                                       *)
LEMMA RecordRead ==
  ASSUME TypeOK, NEW n, NEW s, IsList(n, s), NEW i \in 1 .. n
  PROVE  /\ s[i] \in Recs /\ s[i] # NULL
         /\ timer[s[i]].event_flag \in TimerIds \cup {NULL}
         /\ timer[s[i]].timeout \in Nat /\ timer[s[i]].reloadTimeout \in Nat
<1>1. s[i] \in Recs /\ s[i] # NULL
  BY RecsFinite DEF IsList
<1> QED
  BY <1>1, TimesTyped, Times

LEMMA ClockTyped ==
  ASSUME TypeOK
  PROVE  /\ updateTime \in Nat /\ lag \in Nat
         /\ \A id \in TimerIds : left[id] \in Int /\ id # NULL
BY TimerAssumption DEF TypeOK

(* Nothing happens to the timers: no promise is shortened.                 *)
LEMMA Quiet ==
  ASSUME TypeOK, TypeOK', NEW n, NEW s, Whole(n, s),
         UNCHANGED <<list, walk, status>>,
         \A id \in TimerIds : left'[id] + lag' >= left[id] + lag
  PROVE  Whole(n, s)'
<1>1. /\ UNCHANGED <<timerHead, timer, heap, pc, srchTimer, prevTimer, freeTimer,
                     updateTime, status>>
      /\ IsList(n, s) /\ Placed(n, s) /\ Between(n, s)
      /\ OneTimer(n, s) /\ InTime(n, s) /\ Stopped(n, s)
  BY DEF list, walk, Whole
<1>2. IsList(n, s)' /\ Placed(n, s)' /\ Between(n, s)' /\ OneTimer(n, s)' /\ Stopped(n, s)'
  BY <1>1 DEF IsList, Placed, Between, OneTimer, Stopped
<1>3. InTime(n, s)'
  <2> SUFFICES ASSUME NEW i \in 1 .. n, timer[s[i]].event_flag # NULL
               PROVE  timer[s[i]].timeout - (IF Ahead(s, i) THEN updateTime ELSE 0)
                        <= left'[timer[s[i]].event_flag] + lag'
    BY <1>1 DEF InTime, Ahead
  <2> DEFINE id == timer[s[i]].event_flag
  <2>1. id \in TimerIds /\ timer[s[i]].timeout \in Nat
    BY <1>1, RecordRead
  <2>2. left[id] \in Int /\ left'[id] \in Int /\ lag \in Nat /\ lag' \in Nat
        /\ updateTime \in Nat
    BY <2>1, TimerAssumption DEF TypeOK
  <2>3. timer[s[i]].timeout - (IF Ahead(s, i) THEN updateTime ELSE 0) <= left[id] + lag
    BY <1>1 DEF InTime
  <2>4. left'[id] + lag' >= left[id] + lag
    BY <2>1
  <2> HIDE DEF id
  <2> QED
    BY <2>1, <2>2, <2>3, <2>4 DEF id
<1> QED
  BY <1>2, <1>3 DEF Whole

LEMMA StutterWhole ==
  ASSUME TypeOK, NEW n, NEW s, Whole(n, s), UNCHANGED <<list, walk, lag, promise>>,
         pending' \in SUBSET TimerIds
  PROVE  TypeOK' /\ Whole(n, s)'
<1>1. UNCHANGED <<timerHead, timer, heap, pc, srchTimer, prevTimer, freeTimer,
                  updateTime, lag, status, left>>
  BY DEF list, walk, promise
<1>2. TypeOK'
  BY <1>1 DEF TypeOK
<1>3. \A id \in TimerIds : left'[id] + lag' >= left[id] + lag
  BY <1>1, ClockTyped
<1> QED
  BY <1>1, <1>2, <1>3, Quiet

LEMMA TickWhole ==
  ASSUME TypeOK, NEW n, NEW s, Whole(n, s), Tick
  PROVE  TypeOK' /\ Whole(n, s)'
<1>1. /\ lag < MaxLag /\ lag' = lag + 1
      /\ left' = [id \in TimerIds |->
                    IF status[id] = "running" /\ left[id] > Overdue
                    THEN left[id] - 1 ELSE left[id]]
      /\ UNCHANGED <<list, walk, pending, status>>
  BY DEF Tick
<1>2. left' \in [TimerIds -> Int]
  BY <1>1, ClockTyped
<1>3. lag' \in 0 .. MaxLag
  BY <1>1, ClockTyped, TimerAssumption
<1>4. TypeOK'
  BY <1>1, <1>2, <1>3 DEF TypeOK, list, walk
<1>5. \A id \in TimerIds : left'[id] + lag' >= left[id] + lag
  BY <1>1, ClockTyped
<1> QED
  BY <1>1, <1>4, <1>5, Quiet

(* The clock is read: what passed now counts for the walk.                 *)
LEMMA TimeUpdateWhole ==
  ASSUME TypeOK, NEW n, NEW s, Whole(n, s), TimeUpdate
  PROVE  TypeOK' /\ Whole(n, s)'
<1>1. /\ pc = "idle" /\ updateTime' = lag /\ lag' = 0 /\ pc' = "head"
      /\ UNCHANGED <<timerHead, timer, heap, srchTimer, prevTimer, freeTimer, pending,
                     status, left>>
      /\ IsList(n, s) /\ Placed(n, s) /\ Between(n, s)
      /\ OneTimer(n, s) /\ InTime(n, s) /\ Stopped(n, s)
  BY DEF TimeUpdate, list, promise, Whole
<1>2. TypeOK'
  BY <1>1, TimerAssumption DEF TypeOK
<1>3. IsList(n, s)' /\ Placed(n, s)' /\ Between(n, s)' /\ OneTimer(n, s)' /\ Stopped(n, s)'
  BY <1>1 DEF IsList, Placed, Between, OneTimer, Stopped
<1>4. InTime(n, s)'
  <2> SUFFICES ASSUME NEW i \in 1 .. n, timer[s[i]].event_flag # NULL
               PROVE  timer[s[i]].timeout - lag <= left[timer[s[i]].event_flag] + 0
    BY <1>1 DEF InTime, Ahead
  <2> DEFINE id == timer[s[i]].event_flag
  <2>1. id \in TimerIds /\ timer[s[i]].timeout \in Nat /\ left[id] \in Int /\ lag \in Nat
    BY <1>1, RecordRead, ClockTyped
  <2>2. timer[s[i]].timeout - 0 <= left[id] + lag
    BY <1>1 DEF InTime, Ahead
  <2> HIDE DEF id
  <2> QED
    BY <2>1, <2>2 DEF id
<1> QED
  BY <1>2, <1>3, <1>4 DEF Whole

(* The walk starts at the head, so that every record is ahead of it.       *)
LEMMA WalkStartWhole ==
  ASSUME TypeOK, NEW n, NEW s, Whole(n, s), WalkStart
  PROVE  TypeOK' /\ Whole(n, s)'
<1>1. /\ pc = "head" /\ srchTimer' = timerHead /\ prevTimer' = NULL /\ pc' = "walk"
      /\ UNCHANGED <<timerHead, timer, heap, freeTimer, updateTime, pending, lag,
                     status, left>>
      /\ IsList(n, s) /\ Placed(n, s) /\ Between(n, s)
      /\ OneTimer(n, s) /\ InTime(n, s) /\ Stopped(n, s)
  BY DEF WalkStart, list, promise, Whole
<1>2. TypeOK'
  BY <1>1 DEF TypeOK, Pointer
<1>3. IsList(n, s)' /\ Placed(n, s)' /\ OneTimer(n, s)' /\ Stopped(n, s)'
  BY <1>1 DEF IsList, Placed, OneTimer, Stopped
<1>4. n \in Nat /\ (n # 0 => timerHead = s[1]) /\ (n = 0 => timerHead = NULL)
  BY <1>1 DEF IsList
<1>5. Between(n, s)'
  BY <1>1, <1>4 DEF Between
<1>6. InTime(n, s)'
  <2>1. \A i \in 1 .. n : Ahead(s, i) /\ Ahead(s, i)'
    BY <1>1, <1>4 DEF Ahead
  <2> QED
    BY <1>1, <2>1 DEF InTime
<1> QED
  BY <1>2, <1>3, <1>5, <1>6 DEF Whole

(* The walk ends past the last record.                                     *)
LEMMA WalkEndWhole ==
  ASSUME TypeOK, NEW n, NEW s, Whole(n, s), WalkEnd
  PROVE  TypeOK' /\ Whole(n, s)'
<1>1. /\ pc = "walk" /\ srchTimer = NULL /\ srchTimer' = NULL
      /\ pc' = "idle" /\ prevTimer' = NULL /\ updateTime' = 0
      /\ UNCHANGED <<timerHead, timer, heap, freeTimer, pending, lag, status, left>>
      /\ IsList(n, s) /\ Placed(n, s) /\ Between(n, s)
      /\ OneTimer(n, s) /\ InTime(n, s) /\ Stopped(n, s)
  BY DEF WalkEnd, list, promise, Whole
<1>2. TypeOK'
  BY <1>1, TimerAssumption DEF TypeOK, Pointer
<1>3. IsList(n, s)' /\ Placed(n, s)' /\ OneTimer(n, s)' /\ Stopped(n, s)' /\ Between(n, s)'
  BY <1>1 DEF IsList, Placed, OneTimer, Stopped, Between
<1>4. InTime(n, s)'
  <2>1. \A i \in 1 .. n : s[i] # NULL
    BY <1>1, RecordRead
  <2>2. \A i \in 1 .. n : ~Ahead(s, i) /\ ~Ahead(s, i)'
    BY <1>1, <2>1 DEF Ahead, IsList
  <2> QED
    BY <1>1, <2>2 DEF InTime
<1> QED
  BY <1>2, <1>3, <1>4 DEF Whole

(* A stopped timer leaves a record without an event: between two walks no  *)
(* record waits to be freed, so that none is left with its event.          *)
LEMMA StopWhole ==
  ASSUME TypeOK, NEW n, NEW s, Whole(n, s), NEW id \in TimerIds, StopTimer(id)
  PROVE  TypeOK' /\ Whole(n, s)'
<1>1. /\ pc = "idle"
      /\ status' = [status EXCEPT ![id] = "stopped"]
      /\ left' = [left EXCEPT ![id] = 0]
      /\ UNCHANGED <<timerHead, heap, pc, srchTimer, prevTimer, freeTimer, updateTime,
                     pending, lag>>
      /\ IsList(n, s) /\ Placed(n, s) /\ Between(n, s)
      /\ OneTimer(n, s) /\ InTime(n, s) /\ Stopped(n, s)
  BY DEF StopTimer, walk, Whole
<1>2. TypeOK'
  BY <1>1, StopTyped
<1>3. PICK r \in osalFindTimer(id) : timer' = [timer EXCEPT ![r].event_flag = NULL]
  BY DEF StopTimer, osalDeleteTimer
<1>4. PICK k \in 1 .. n : r = s[k] /\ timer[s[k]].event_flag = id
  BY <1>1, <1>3, Found
<1>5. /\ timer'[r].event_flag = NULL /\ timer'[r].next = timer[r].next
      /\ \A q \in Recs : q # r => timer'[q] = timer[q]
  BY <1>1, <1>3, <1>4, RecordRead DEF TypeOK
<1>6. \A i \in 1 .. n : /\ s[i] \in Recs
                        /\ i # k => timer'[s[i]] = timer[s[i]]
                        /\ timer'[s[i]].next = timer[s[i]].next
  BY <1>1, <1>4, <1>5 DEF IsList
<1>7. IsList(n, s)'
  BY <1>1, <1>6, ListKept
<1>8. Placed(n, s)' /\ Between(n, s)'
  BY <1>1 DEF Placed, Between
<1>9. OneTimer(n, s)'
  BY <1>1, <1>4, <1>5, <1>6 DEF OneTimer
<1>10. \A i \in 1 .. n : i # k => timer[s[i]].event_flag # id
  BY <1>1, <1>4, ClockTyped DEF OneTimer
<1>11. InTime(n, s)'
  <2> SUFFICES ASSUME NEW i \in 1 .. n, timer'[s[i]].event_flag # NULL
               PROVE  timer'[s[i]].timeout - (IF Ahead(s, i) THEN updateTime ELSE 0)
                        <= left'[timer'[s[i]].event_flag] + lag
    BY <1>1 DEF InTime, Ahead
  <2>1. i # k
    BY <1>4, <1>5
  <2>2. timer'[s[i]] = timer[s[i]] /\ timer[s[i]].event_flag # id
    BY <1>6, <1>10, <2>1
  <2>3. left'[timer[s[i]].event_flag] = left[timer[s[i]].event_flag]
    BY <1>1, <2>2, RecordRead DEF TypeOK
  <2> QED
    BY <1>1, <2>2, <2>3 DEF InTime
<1>12. Stopped(n, s)'
  <2> SUFFICES ASSUME NEW jd \in TimerIds, status'[jd] = "stopped"
               PROVE  \A i \in 1 .. n : timer'[s[i]].event_flag # jd
    BY <1>1 DEF Stopped
  <2>1. \A i \in 1 .. n : jd # id => timer[s[i]].event_flag # jd
    BY <1>1 DEF Stopped, TypeOK
  <2> QED
    BY <1>4, <1>5, <1>6, <1>10, <2>1, ClockTyped
<1> QED
  BY <1>2, <1>7, <1>8, <1>9, <1>11, <1>12 DEF Whole

(* A timer in the list is started again: its record is changed in place.   *)
LEMMA UpdateWhole ==
  ASSUME TypeOK, NEW n, NEW s, Whole(n, s), NEW id \in TimerIds,
         NEW ms \in Timeouts, NEW reload \in BOOLEAN,
         UpdateTimer(id, ms, reload), UNCHANGED <<walk, pending, lag>>,
         status' = [status EXCEPT ![id] = "running"],
         left' = [left EXCEPT ![id] = ms]
  PROVE  Whole(n, s)'
<1>1. /\ UNCHANGED <<timerHead, heap, pc, srchTimer, prevTimer, freeTimer, updateTime,
                     pending, lag>>
      /\ IsList(n, s) /\ Placed(n, s) /\ Between(n, s)
      /\ OneTimer(n, s) /\ InTime(n, s) /\ Stopped(n, s)
  BY DEF UpdateTimer, walk, Whole
<1>2. PICK r \in osalFindTimer(id) :
        timer' = [timer EXCEPT ![r].timeout = ms,
                               ![r].reloadTimeout = IF reload THEN ms ELSE @]
  BY DEF UpdateTimer
<1>3. PICK k \in 1 .. n : r = s[k] /\ timer[s[k]].event_flag = id
  BY <1>1, <1>2, Found
<1>4. r \in Recs /\ timer \in [Recs -> Record]
  BY <1>1, <1>3, RecordRead DEF TypeOK, Record
<1>5. /\ timer'[r].event_flag = id /\ timer'[r].next = timer[r].next
      /\ timer'[r].timeout = ms
      /\ \A q \in Recs : q # r => timer'[q] = timer[q]
  BY <1>2, <1>3, <1>4 DEF Record
<1>6. \A i \in 1 .. n : /\ s[i] \in Recs
                        /\ i # k => timer'[s[i]] = timer[s[i]]
                        /\ timer'[s[i]].next = timer[s[i]].next
                        /\ timer'[s[i]].event_flag = timer[s[i]].event_flag
  BY <1>1, <1>3, <1>5 DEF IsList
<1>7. IsList(n, s)'
  BY <1>1, <1>6, ListKept
<1>8. Placed(n, s)' /\ Between(n, s)'
  BY <1>1 DEF Placed, Between
<1>9. OneTimer(n, s)'
  BY <1>1, <1>6 DEF OneTimer
<1>10. \A i \in 1 .. n : i # k => timer[s[i]].event_flag # id
  BY <1>1, <1>3, ClockTyped DEF OneTimer
<1>11. InTime(n, s)'
  <2> SUFFICES ASSUME NEW i \in 1 .. n, timer'[s[i]].event_flag # NULL
               PROVE  timer'[s[i]].timeout - (IF Ahead(s, i) THEN updateTime ELSE 0)
                        <= left'[timer'[s[i]].event_flag] + lag
    BY <1>1 DEF InTime, Ahead
  <2>1. CASE i = k
    <3>1. timer'[s[i]].timeout = ms /\ left'[timer'[s[i]].event_flag] = ms /\ ms \in Nat
      BY <1>3, <1>5, <2>1, Times DEF TypeOK
    <3> QED
      BY <3>1, ClockTyped
  <2>2. CASE i # k
    <3>1. timer'[s[i]] = timer[s[i]] /\ timer[s[i]].event_flag # id
      BY <1>6, <1>10, <2>2
    <3>2. left'[timer[s[i]].event_flag] = left[timer[s[i]].event_flag]
      BY <1>1, <3>1, RecordRead DEF TypeOK
    <3> QED
      BY <1>1, <3>1, <3>2 DEF InTime
  <2> QED
    BY <2>1, <2>2
<1>12. Stopped(n, s)'
  <2>1. \A jd \in TimerIds : status'[jd] = "stopped" => status[jd] = "stopped"
    BY DEF TypeOK
  <2>2. pc = "free" => freeTimer \in Recs /\ freeTimer # r
    BY <1>1, <1>3 DEF Placed, TypeOK, Pointer
  <2>3. pc' = pc /\ freeTimer' = freeTimer
    BY <1>1
  <2> QED
    BY <1>1, <1>5, <1>6, <2>1, <2>2, <2>3 DEF Stopped
<1> QED
  BY <1>7, <1>8, <1>9, <1>11, <1>12 DEF Whole

(* What a start does that finds no record of its timer.                    *)
LEMMA AppendRead ==
  ASSUME TypeOK, NEW n, NEW s, IsList(n, s), Placed(n, s), NEW id \in TimerIds,
         NEW ms \in Timeouts, NEW reload \in BOOLEAN, AppendTimer(id, ms, reload)
  PROVE  \E r \in heap :
           /\ r \in Recs /\ heap' = heap \ {r}
           /\ \A i \in 1 .. n : s[i] # r
           /\ timer'[r].event_flag = id /\ timer'[r].timeout = ms
           /\ \A i \in 1 .. n : /\ timer'[s[i]].event_flag = timer[s[i]].event_flag
                                /\ timer'[s[i]].timeout = timer[s[i]].timeout
           /\ \A q \in Recs : q # r => timer'[q].event_flag = timer[q].event_flag
           /\ IsList(n + 1, Added(n, s, r))'
<1> DEFINE new == [next |-> NULL, timeout |-> ms, event_flag |-> id,
                   reloadTimeout |-> IF reload THEN ms ELSE 0]
<1>1. PICK r \in heap :
        /\ heap' = heap \ {r}
        /\ \/ /\ timerHead = NULL
              /\ timerHead' = r
              /\ timer' = [timer EXCEPT ![r] = new]
           \/ \E last \in Linked :
                /\ timer[last].next = NULL
                /\ timer' = [timer EXCEPT ![last].next = r, ![r] = new]
                /\ UNCHANGED timerHead
  BY DEF AppendTimer
<1>2. r \in Recs /\ timer \in [Recs -> Record] /\ \A i \in 1 .. n : s[i] # r
  BY <1>1 DEF TypeOK, Record, Placed
<1>3. new.next = NULL /\ new.event_flag = id /\ new.timeout = ms
  OBVIOUS
<1> HIDE DEF new
<1>4. /\ \A i \in 1 .. n : s[i] \in Recs /\ s[i] # NULL
      /\ n \in Nat
  BY RecsFinite DEF IsList
<1>5. CASE timerHead = NULL /\ timerHead' = r /\ timer' = [timer EXCEPT ![r] = new]
  <2>1. n = 0
    BY <1>4, <1>5 DEF IsList
  <2>2. timer'[r] = new /\ \A q \in Recs : q # r => timer'[q] = timer[q]
    BY <1>2, <1>5
  <2>3. IsList(n + 1, Added(n, s, r))'
    BY <1>2, <1>3, <1>5, <2>1, <2>2, ListAdded
  <2> QED
    BY <1>1, <1>2, <1>3, <1>4, <2>1, <2>2, <2>3
<1>6. ASSUME NEW last \in Linked, timer[last].next = NULL, UNCHANGED timerHead,
             timer' = [timer EXCEPT ![last].next = r, ![r] = new]
      PROVE  /\ timer'[r] = new
             /\ \A q \in Recs : q # r =>
                  /\ timer'[q].event_flag = timer[q].event_flag
                  /\ timer'[q].timeout = timer[q].timeout
             /\ IsList(n + 1, Added(n, s, r))'
  <2>1. PICK k \in 1 .. n : last = s[k]
    BY <1>6, ListRead
  <2>2. k = n /\ n # 0
    <3>1. k # n => timer[s[k]].next = s[k + 1] /\ k + 1 \in 1 .. n
      BY <1>4 DEF IsList
    <3> QED
      BY <1>4, <1>6, <2>1, <3>1
  <2>3. /\ timer'[r] = new
        /\ timer'[last].next = r
        /\ \A q \in Recs : q # r =>
             /\ timer'[q].event_flag = timer[q].event_flag
             /\ timer'[q].timeout = timer[q].timeout
             /\ q # last => timer'[q].next = timer[q].next
    BY <1>2, <1>4, <1>6, <2>1 DEF Record
  <2>4. \A i \in 1 .. n : i # n => s[i] # last
    BY <2>1, <2>2 DEF IsList
  <2>5. \A i \in 1 .. n : i # n => timer'[s[i]].next = timer[s[i]].next
    BY <1>2, <1>4, <2>3, <2>4
  <2>6. IsList(n + 1, Added(n, s, r))'
    BY <1>2, <1>3, <1>6, <2>1, <2>2, <2>3, <2>5, ListAdded
  <2> QED
    BY <2>3, <2>6
<1>7. CASE \E last \in Linked :
             /\ timer[last].next = NULL
             /\ timer' = [timer EXCEPT ![last].next = r, ![r] = new]
             /\ UNCHANGED timerHead
  BY <1>1, <1>2, <1>3, <1>4, <1>6, <1>7
<1> QED
  BY <1>1, <1>5, <1>7

(* A timer that is not in the list gets a record behind the last one: a    *)
(* walk that is under way will come to it, or has just passed the end.     *)
LEMMA AppendWhole ==
  ASSUME TypeOK, NEW n, NEW s, Whole(n, s), NEW id \in TimerIds,
         NEW ms \in Timeouts, NEW reload \in BOOLEAN,
         osalFindTimer(id) = {}, AppendTimer(id, ms, reload),
         UNCHANGED <<walk, pending, lag>>,
         status' = [status EXCEPT ![id] = "running"],
         left' = [left EXCEPT ![id] = ms]
  PROVE  \E m, t : Whole(m, t)'
<1>1. /\ UNCHANGED <<pc, srchTimer, prevTimer, freeTimer, updateTime, pending, lag>>
      /\ IsList(n, s) /\ Placed(n, s) /\ Between(n, s)
      /\ OneTimer(n, s) /\ InTime(n, s) /\ Stopped(n, s)
  BY DEF walk, Whole
<1>2. PICK r \in heap :
           /\ r \in Recs /\ heap' = heap \ {r}
           /\ \A i \in 1 .. n : s[i] # r
           /\ timer'[r].event_flag = id /\ timer'[r].timeout = ms
           /\ \A i \in 1 .. n : /\ timer'[s[i]].event_flag = timer[s[i]].event_flag
                                /\ timer'[s[i]].timeout = timer[s[i]].timeout
           /\ \A q \in Recs : q # r => timer'[q].event_flag = timer[q].event_flag
           /\ IsList(n + 1, Added(n, s, r))'
  BY <1>1, AppendRead
<1> DEFINE t == Added(n, s, r)
<1>3. /\ n \in Nat
      /\ \A i \in 1 .. n : i \in 1 .. n + 1 /\ t[i] = s[i]
      /\ n + 1 \in 1 .. n + 1 /\ t[n + 1] = r
      /\ \A i \in 1 .. n + 1 : i \in 1 .. n \/ i = n + 1
  BY <1>1 DEF IsList, Added
<1> HIDE DEF t
<1>4. \A i \in 1 .. n : s[i] \in Recs /\ s[i] # NULL /\ timer[s[i]].event_flag # id
  <2>1. \A i \in 1 .. n : timer[s[i]].event_flag # id
    BY <1>1, Found
  <2> QED
    BY <1>1, <2>1, RecordRead
<1>5. Placed(n + 1, t)'
  BY <1>1, <1>2, <1>3 DEF Placed
<1>6. Between(n + 1, t)'
  <2> SUFFICES ASSUME pc \in {"walk", "free"}, srchTimer # NULL
               PROVE  \E p \in 1 .. n + 1 : /\ srchTimer = t[p]
                                            /\ prevTimer = IF p = 1 THEN NULL ELSE t[p - 1]
    BY <1>1 DEF Between
  <2>1. PICK p \in 1 .. n : srchTimer = s[p] /\ prevTimer = IF p = 1 THEN NULL ELSE s[p - 1]
    BY <1>1 DEF Between
  <2>2. p \in 1 .. n + 1 /\ (p # 1 => p - 1 \in 1 .. n)
    BY <1>3
  <2> QED
    BY <1>3, <2>1, <2>2
<1>7. OneTimer(n + 1, t)'
  BY <1>1, <1>2, <1>3, <1>4 DEF OneTimer
<1>8. InTime(n + 1, t)'
  <2> SUFFICES ASSUME NEW i \in 1 .. n + 1, timer'[t[i]].event_flag # NULL
               PROVE  timer'[t[i]].timeout - (IF Ahead(t, i) THEN updateTime ELSE 0)
                        <= left'[timer'[t[i]].event_flag] + lag
    BY <1>1 DEF InTime, Ahead
  <2>1. CASE i = n + 1
    <3>1. timer'[t[i]].timeout = ms /\ left'[timer'[t[i]].event_flag] = ms /\ ms \in Nat
      BY <1>2, <1>3, <2>1, Times DEF TypeOK
    <3> QED
      BY <3>1, ClockTyped
  <2>2. CASE i \in 1 .. n
    <3>1. /\ timer'[t[i]].timeout = timer[s[i]].timeout
          /\ timer'[t[i]].event_flag = timer[s[i]].event_flag
      BY <1>2, <1>3, <2>2
    <3>2. left'[timer[s[i]].event_flag] = left[timer[s[i]].event_flag]
      BY <1>1, <1>4, <2>2, <3>1, RecordRead DEF TypeOK
    <3>3. Ahead(t, i) <=> Ahead(s, i)
      <4>1. \A p \in 1 .. i : p \in 1 .. n /\ t[p] = s[p]
        BY <1>3, <2>2
      <4> QED
        BY <4>1 DEF Ahead
    <3>4. timer[s[i]].timeout - (IF Ahead(s, i) THEN updateTime ELSE 0)
            <= left[timer[s[i]].event_flag] + lag
      BY <1>1, <2>2, <3>1 DEF InTime
    <3> QED
      BY <3>1, <3>2, <3>3, <3>4
  <2> QED
    BY <1>3, <2>1, <2>2
<1>9. Stopped(n + 1, t)'
  <2> SUFFICES ASSUME NEW jd \in TimerIds, status'[jd] = "stopped"
               PROVE  /\ \A i \in 1 .. n + 1 : timer'[t[i]].event_flag # jd
                      /\ pc = "free" => timer'[freeTimer].event_flag # jd
    BY <1>1 DEF Stopped
  <2>1. jd # id /\ status[jd] = "stopped"
    BY DEF TypeOK
  <2>2. pc = "free" => freeTimer \in Recs /\ freeTimer # r
    BY <1>1 DEF Placed, TypeOK, Pointer
  <2> QED
    BY <1>1, <1>2, <1>3, <2>1, <2>2 DEF Stopped
<1>10. Whole(n + 1, t)'
  BY <1>2, <1>5, <1>6, <1>7, <1>8, <1>9 DEF Whole, t
<1> QED
  BY <1>10

LEMMA StartWhole ==
  ASSUME TypeOK, NEW n, NEW s, Whole(n, s), NEW id \in TimerIds, StartTimer(id)
  PROVE  TypeOK' /\ \E m, t : Whole(m, t)'
<1>1. TypeOK'
  BY StartTyped DEF Whole
<1>2. PICK ms \in Timeouts, reload \in BOOLEAN :
        /\ osalAddTimer(id, ms, reload)
        /\ status' = [status EXCEPT ![id] = "running"]
        /\ left' = [left EXCEPT ![id] = ms]
        /\ UNCHANGED <<walk, pending, lag>>
  BY DEF StartTimer
<1>3. CASE UpdateTimer(id, ms, reload)
  <2>1. Whole(n, s)'
    BY <1>2, <1>3, UpdateWhole, Zenon
  <2> QED
    BY <1>1, <2>1
<1>4. CASE osalFindTimer(id) = {} /\ AppendTimer(id, ms, reload)
  BY <1>1, <1>2, <1>4, AppendWhole, Zenon
<1> QED
  BY <1>1, <1>2, <1>3, <1>4 DEF osalAddTimer

(* What the visit of a record does, whether the record stays or not: the   *)
(* promises to other timers are as they were, and a record that stays      *)
(* counts no more than is left to wait for it.                             *)
LEMMA VisitRead ==
  ASSUME TypeOK, NEW n, NEW s, Whole(n, s), Visit
  PROVE  \E p \in 1 .. n :
           /\ srchTimer = s[p] /\ prevTimer = IF p = 1 THEN NULL ELSE s[p - 1]
           /\ srchTimer' = IF p = n THEN NULL ELSE s[p + 1]
           /\ pc = "walk" /\ freeTimer = NULL
           /\ UNCHANGED <<heap, updateTime, lag, status>>
           /\ \A i \in 1 .. n :
                i # p /\ timer[s[i]].event_flag # NULL =>
                  left'[timer[s[i]].event_flag] = left[timer[s[i]].event_flag]
           /\ ~Removed(s[p]) =>
                TimeoutAfter(s[p]) <= left'[timer[s[p]].event_flag] + lag
<1>1. /\ pc = "walk" /\ srchTimer # NULL
      /\ srchTimer' = timer[srchTimer].next
      /\ UNCHANGED <<heap, updateTime, lag>>
      /\ IF Reloads(srchTimer) THEN Renew(timer[srchTimer].event_flag)
                               ELSE UNCHANGED <<pending, promise>>
      /\ IsList(n, s) /\ Placed(n, s) /\ Between(n, s)
      /\ OneTimer(n, s) /\ InTime(n, s) /\ Stopped(n, s)
  BY DEF Visit, Whole
<1>2. PICK p \in 1 .. n :
        srchTimer = s[p] /\ prevTimer = IF p = 1 THEN NULL ELSE s[p - 1]
  BY <1>1 DEF Between
<1>3. srchTimer' = IF p = n THEN NULL ELSE s[p + 1]
  BY <1>1, <1>2 DEF IsList
<1>4. freeTimer = NULL
  BY <1>1 DEF Placed
<1>5. status' = status
  BY <1>1 DEF Renew, promise
<1> DEFINE id == timer[s[p]].event_flag
<1>6. ASSUME NEW i \in 1 .. n, i # p, timer[s[i]].event_flag # NULL
      PROVE  left'[timer[s[i]].event_flag] = left[timer[s[i]].event_flag]
  <2>1. timer[s[i]].event_flag # id /\ timer[s[i]].event_flag \in TimerIds
    BY <1>1, <1>6, RecordRead DEF OneTimer
  <2>2. CASE Reloads(s[p])
    <3>1. left' = [left EXCEPT ![id] = timer[s[p]].reloadTimeout - lag]
      BY <1>1, <1>2, <2>2 DEF Renew
    <3> HIDE DEF id
    <3> QED
      BY <2>1, <3>1 DEF TypeOK
  <2>3. CASE ~Reloads(s[p])
    BY <1>1, <1>2, <2>3 DEF promise
  <2> QED
    BY <2>2, <2>3
<1>7. ASSUME ~Removed(s[p])
      PROVE  TimeoutAfter(s[p]) <= left'[id] + lag
  <2>1. /\ id # NULL /\ id \in TimerIds
        /\ timer[s[p]].timeout \in Nat /\ timer[s[p]].reloadTimeout \in Nat
        /\ TimeoutAfter(s[p]) # 0
    BY <1>1, <1>7, RecordRead DEF Removed
  <2>2. CASE Reloads(s[p])
    <3>1. left' = [left EXCEPT ![id] = timer[s[p]].reloadTimeout - lag]
      BY <1>1, <1>2, <2>2 DEF Renew
    <3>2. left'[id] = timer[s[p]].reloadTimeout - lag
      <4> HIDE DEF id
      <4> QED
        BY <2>1, <3>1 DEF TypeOK
    <3>3. TimeoutAfter(s[p]) = timer[s[p]].reloadTimeout
      BY <2>2 DEF TimeoutAfter
    <3> QED
      BY <2>1, <3>2, <3>3, ClockTyped
  <2>3. CASE ~Reloads(s[p])
    <3>1. left' = left
      BY <1>1, <1>2, <2>3 DEF promise
    <3>2. TimeoutAfter(s[p]) = timer[s[p]].timeout - updateTime
      BY <2>1, <2>3 DEF TimeoutAfter, Remaining
    <3>3. Ahead(s, p)
      BY <1>1, <1>2 DEF Ahead
    <3> QED
      BY <1>1, <2>1, <3>1, <3>2, <3>3 DEF InTime
  <2> QED
    BY <2>2, <2>3
<1> QED
  BY <1>1, <1>2, <1>3, <1>4, <1>5, <1>6, <1>7

LEMMA PassedNotAhead ==
  ASSUME TypeOK, NEW n, NEW s, IsList(n, s), NEW p \in 1 .. n, pc \in {"walk", "free"},
         srchTimer = s[p], NEW i \in 1 .. n
  PROVE  Ahead(s, i) <=> i >= p
BY DEF Ahead, IsList

(* The record stays in the list, and the walk has passed it.               *)
LEMMA KeepWhole ==
  ASSUME TypeOK, NEW n, NEW s, Whole(n, s), Visit, ~Removed(srchTimer)
  PROVE  Whole(n, s)'
<1>1. PICK p \in 1 .. n :
           /\ srchTimer = s[p] /\ prevTimer = IF p = 1 THEN NULL ELSE s[p - 1]
           /\ srchTimer' = IF p = n THEN NULL ELSE s[p + 1]
           /\ pc = "walk" /\ freeTimer = NULL
           /\ UNCHANGED <<heap, updateTime, lag, status>>
           /\ \A i \in 1 .. n :
                i # p /\ timer[s[i]].event_flag # NULL =>
                  left'[timer[s[i]].event_flag] = left[timer[s[i]].event_flag]
           /\ ~Removed(s[p]) =>
                TimeoutAfter(s[p]) <= left'[timer[s[p]].event_flag] + lag
  BY VisitRead
<1>2. /\ timer' = [timer EXCEPT ![s[p]] = [timer[s[p]] EXCEPT !.timeout = TimeoutAfter(s[p])]]
      /\ prevTimer' = s[p]
      /\ UNCHANGED <<timerHead, freeTimer, pc>>
      /\ IsList(n, s) /\ Placed(n, s)
      /\ OneTimer(n, s) /\ InTime(n, s) /\ Stopped(n, s)
  BY <1>1 DEF Visit, Whole
<1>3. n \in Nat /\ \A i \in 1 .. n : s[i] \in Recs /\ s[i] # NULL
  BY <1>2, RecsFinite DEF IsList
<1>4. \A i \in 1 .. n : /\ timer'[s[i]].next = timer[s[i]].next
                        /\ timer'[s[i]].event_flag = timer[s[i]].event_flag
                        /\ timer'[s[i]].timeout = IF i = p THEN TimeoutAfter(s[p])
                                                  ELSE timer[s[i]].timeout
  <2>1. timer \in [Recs -> Record]
    BY DEF TypeOK, Record
  <2>2. /\ timer'[s[p]].next = timer[s[p]].next
        /\ timer'[s[p]].event_flag = timer[s[p]].event_flag
        /\ timer'[s[p]].timeout = TimeoutAfter(s[p])
        /\ \A q \in Recs : q # s[p] => timer'[q] = timer[q]
    BY <1>2, <1>3, <2>1 DEF Record
  <2> QED
    BY <1>2, <1>3, <2>2 DEF IsList
<1>5. IsList(n, s)'
  BY <1>2, <1>4, ListKept
<1>6. Placed(n, s)'
  BY <1>1, <1>2 DEF Placed
<1>7. Between(n, s)'
  <2> SUFFICES ASSUME p # n
               PROVE  \E k \in 1 .. n : /\ srchTimer' = s[k]
                                        /\ prevTimer' = IF k = 1 THEN NULL ELSE s[k - 1]
    BY <1>1 DEF Between
  <2>1. p + 1 \in 1 .. n /\ p + 1 # 1 /\ (p + 1) - 1 = p
    BY <1>3
  <2> QED
    BY <1>1, <1>2, <2>1
<1>8. OneTimer(n, s)' /\ Stopped(n, s)'
  BY <1>1, <1>2, <1>4 DEF OneTimer, Stopped
<1>9. \A i \in 1 .. n : /\ Ahead(s, i) <=> i >= p
                        /\ Ahead(s, i)' <=> i > p
  <2>1. \A i \in 1 .. n : Ahead(s, i) <=> i >= p
    BY <1>1, <1>2, PassedNotAhead
  <2>2. ASSUME NEW i \in 1 .. n PROVE Ahead(s, i)' <=> i > p
    <3>1. Ahead(s, i)' <=> \E k \in 1 .. i : s[k] = srchTimer'
      BY <1>1, <1>2 DEF Ahead
    <3>2. CASE p = n
      BY <1>1, <1>3, <3>1, <3>2
    <3>3. CASE p # n
      <4>1. srchTimer' = s[p + 1] /\ p + 1 \in 1 .. n
        BY <1>1, <1>3, <3>3
      <4> QED
        BY <1>2, <1>3, <3>1, <4>1 DEF IsList
    <3> QED
      BY <3>2, <3>3
  <2> QED
    BY <2>1, <2>2
<1>10. InTime(n, s)'
  <2> SUFFICES ASSUME NEW i \in 1 .. n, timer[s[i]].event_flag # NULL
               PROVE  timer'[s[i]].timeout - (IF Ahead(s, i)' THEN updateTime ELSE 0)
                        <= left'[timer[s[i]].event_flag] + lag
    BY <1>1, <1>4 DEF InTime
  <2>1. CASE i = p
    <3>1. TimeoutAfter(s[p]) \in Nat
      BY <1>3, TimesTyped, Times
    <3> QED
      BY <1>1, <1>4, <1>9, <2>1, <3>1
  <2>2. CASE i # p
    <3>1. timer'[s[i]].timeout = timer[s[i]].timeout /\ (Ahead(s, i)' <=> Ahead(s, i))
      BY <1>3, <1>4, <1>9, <2>2
    <3>2. left'[timer[s[i]].event_flag] = left[timer[s[i]].event_flag]
      BY <1>1, <2>2
    <3>3. timer[s[i]].timeout - (IF Ahead(s, i) THEN updateTime ELSE 0)
            <= left[timer[s[i]].event_flag] + lag
      BY <1>2 DEF InTime
    <3> QED
      BY <3>1, <3>2, <3>3
  <2> QED
    BY <2>1, <2>2
<1> QED
  BY <1>5, <1>6, <1>7, <1>8, <1>10 DEF Whole

(* The record is taken out: the walk stands where it stood, between the    *)
(* neighbours of the record.                                               *)
LEMMA UnlinkWhole ==
  ASSUME TypeOK, NEW n, NEW s, Whole(n, s), Visit, Removed(srchTimer)
  PROVE  \E m, t : Whole(m, t)'
<1>1. PICK p \in 1 .. n :
           /\ srchTimer = s[p] /\ prevTimer = IF p = 1 THEN NULL ELSE s[p - 1]
           /\ srchTimer' = IF p = n THEN NULL ELSE s[p + 1]
           /\ pc = "walk" /\ freeTimer = NULL
           /\ UNCHANGED <<heap, updateTime, lag, status>>
           /\ \A i \in 1 .. n :
                i # p /\ timer[s[i]].event_flag # NULL =>
                  left'[timer[s[i]].event_flag] = left[timer[s[i]].event_flag]
           /\ ~Removed(s[p]) =>
                TimeoutAfter(s[p]) <= left'[timer[s[p]].event_flag] + lag
  BY VisitRead
<1> DEFINE r == s[p]
           fields == [timer[r] EXCEPT !.timeout = TimeoutAfter(r)]
           t == Without(n, s, p)
           K(i) == IF i < p THEN i ELSE i + 1
<1>2. /\ Unlink(r, fields)
      /\ IsList(n, s) /\ Placed(n, s)
      /\ OneTimer(n, s) /\ InTime(n, s) /\ Stopped(n, s)
  BY <1>1 DEF Visit, Whole
<1>3. /\ freeTimer' = r /\ pc' = "free" /\ prevTimer' = prevTimer
      /\ prevTimer = NULL =>
           timerHead' = timer[r].next /\ timer' = [timer EXCEPT ![r] = fields]
      /\ prevTimer # NULL =>
           /\ timer' = [timer EXCEPT ![prevTimer].next = timer[r].next, ![r] = fields]
           /\ timerHead' = timerHead
  BY <1>2 DEF Unlink
<1>4. n \in Nat /\ \A i \in 1 .. n : s[i] \in Recs /\ s[i] # NULL
  BY <1>2, RecsFinite DEF IsList
<1>5. timer \in [Recs -> Record] /\ fields \in Record
      /\ fields.event_flag = timer[r].event_flag /\ fields.next = timer[r].next
  <2>1. timer \in [Recs -> Record] /\ timer[r] \in Record
    BY <1>4 DEF TypeOK, Record
  <2>2. TimeoutAfter(r) \in Milliseconds
    BY <1>4, TimesTyped
  <2> QED
    BY <2>1, <2>2 DEF Record
<1>6. \A q \in Recs : /\ timer'[q].event_flag = timer[q].event_flag
                      /\ q # r => timer'[q].timeout = timer[q].timeout
                      /\ q # r /\ q # prevTimer => timer'[q].next = timer[q].next
  <2> HIDE DEF fields
  <2>1. CASE prevTimer = NULL
    BY <1>3, <1>4, <1>5, <2>1
  <2>2. CASE prevTimer # NULL
    <3>1. prevTimer \in Recs
      BY <2>2 DEF TypeOK, Pointer
    <3> QED
      BY <1>3, <1>4, <1>5, <2>2, <3>1 DEF Record
  <2> QED
    BY <2>1, <2>2
<1>7. IsList(n - 1, t)'
  <2>1. CASE p = 1
    <3>1. prevTimer = NULL /\ timerHead' = timer[s[p]].next
      BY <1>1, <1>3, <2>1
    <3>2. \A i \in 1 .. n : i # p => timer'[s[i]].next = timer[s[i]].next
      BY <1>2, <1>4, <1>6, <3>1 DEF IsList
    <3> QED
      BY <1>2, <2>1, <3>1, <3>2, ListWithout
  <2>2. CASE p # 1
    <3>1. p - 1 \in 1 .. n /\ prevTimer = s[p - 1] /\ prevTimer # NULL /\ s[p - 1] # r
      BY <1>1, <1>2, <1>4, <2>2 DEF IsList
    <3>2. timerHead' = timerHead /\ timer'[s[p - 1]].next = timer[s[p]].next
      <4> HIDE DEF fields
      <4> QED
        BY <1>3, <1>4, <1>5, <3>1 DEF Record
    <3>3. \A i \in 1 .. n : i # p /\ i # p - 1 => timer'[s[i]].next = timer[s[i]].next
      BY <1>2, <1>4, <1>6, <3>1 DEF IsList
    <3> QED
      BY <1>2, <2>2, <3>2, <3>3, ListWithout
  <2> QED
    BY <2>1, <2>2
<1> HIDE DEF fields
<1>8. \A i \in 1 .. n - 1 : K(i) \in 1 .. n /\ K(i) # p /\ t[i] = s[K(i)]
  BY <1>4 DEF Without
<1>9. /\ \A k \in 1 .. n : k # p => \E i \in 1 .. n - 1 : K(i) = k
      /\ \A i, j \in 1 .. n - 1 : K(i) = K(j) => i = j
  <2>1. ASSUME NEW k \in 1 .. n, k # p PROVE \E i \in 1 .. n - 1 : K(i) = k
    <3>1. CASE k < p
      BY <1>4, <3>1
    <3>2. CASE k > p
      <4>1. k - 1 \in 1 .. n - 1 /\ K(k - 1) = k
        BY <1>4, <3>2
      <4> QED
        BY <4>1
    <3> QED
      BY <1>4, <2>1, <3>1, <3>2
  <2>2. \A i, j \in 1 .. n - 1 : K(i) = K(j) => i = j
    BY <1>4
  <2> QED
    BY <2>1, <2>2
<1>10. \A i \in 1 .. n - 1 :
         /\ t[i] \in Recs /\ t[i] # r
         /\ timer'[t[i]].event_flag = timer[t[i]].event_flag
         /\ timer'[t[i]].timeout = timer[t[i]].timeout
  BY <1>2, <1>4, <1>6, <1>8 DEF IsList
<1>11. Placed(n - 1, t)'
  <2> HIDE DEF t, K
  <2>1. \A q \in Recs : q \in heap \/ q = r \/ \E i \in 1 .. n - 1 : t[i] = q
    <3> SUFFICES ASSUME NEW q \in Recs, q \notin heap, q # r
                 PROVE  \E i \in 1 .. n - 1 : t[i] = q
      OBVIOUS
    <3>1. PICK k \in 1 .. n : s[k] = q
      BY <1>1, <1>2, RecsFinite DEF Placed
    <3>2. PICK i \in 1 .. n - 1 : K(i) = k
      BY <1>9, <3>1
    <3> QED
      BY <1>8, <3>1, <3>2
  <2>2. \A i \in 1 .. n - 1 : t[i] \notin heap
    BY <1>2, <1>8 DEF Placed
  <2> QED
    BY <1>1, <1>2, <1>3, <1>4, <1>10, <2>1, <2>2 DEF Placed
<1>12. Between(n - 1, t)'
  <2> SUFFICES ASSUME p # n
               PROVE  \E k \in 1 .. n - 1 : /\ srchTimer' = t[k]
                                            /\ prevTimer' = IF k = 1 THEN NULL ELSE t[k - 1]
    BY <1>1 DEF Between
  <2>1. p \in 1 .. n - 1 /\ t[p] = s[p + 1]
    BY <1>4 DEF Without
  <2>2. p # 1 => t[p - 1] = s[p - 1]
    BY <1>4 DEF Without
  <2> QED
    BY <1>1, <1>3, <2>1, <2>2
<1>13. OneTimer(n - 1, t)'
  <2> HIDE DEF t, K
  <2> QED
    BY <1>2, <1>8, <1>9, <1>10 DEF OneTimer
<1>14. Stopped(n - 1, t)'
  <2> HIDE DEF t, K
  <2>1. ASSUME NEW id \in TimerIds, status'[id] = "stopped"
        PROVE  /\ \A i \in 1 .. n - 1 : timer'[t[i]].event_flag # id
               /\ timer'[freeTimer'].event_flag # id
    <3>1. \A i \in 1 .. n : timer[s[i]].event_flag # id
      BY <1>1, <1>2, <2>1 DEF Stopped
    <3>2. timer'[freeTimer'].event_flag = timer[s[p]].event_flag
      BY <1>3, <1>4, <1>6
    <3> QED
      BY <1>8, <1>10, <3>1, <3>2
  <2> QED
    BY <2>1 DEF Stopped
<1>15. \A i \in 1 .. n - 1 : Ahead(t, i)' <=> Ahead(s, K(i))
  <2> SUFFICES ASSUME NEW i \in 1 .. n - 1 PROVE Ahead(t, i)' <=> Ahead(s, K(i))
    OBVIOUS
  <2>1. Ahead(s, K(i)) <=> i >= p
    <3>1. K(i) >= p <=> i >= p
      BY <1>4
    <3> HIDE DEF K
    <3> QED
      BY <1>1, <1>2, <1>8, <3>1, PassedNotAhead
  <2>2. Ahead(t, i)' <=> \E k \in 1 .. i : t[k] = srchTimer'
    BY <1>3 DEF Ahead
  <2>3. CASE p = n
    <3>1. \A k \in 1 .. i : t[k] # NULL
      BY <1>4, <1>8
    <3> QED
      BY <1>1, <1>4, <2>1, <2>2, <2>3, <3>1
  <2>4. CASE p # n
    <3>1. srchTimer' = s[p + 1] /\ p \in 1 .. n - 1 /\ t[p] = s[p + 1]
      BY <1>1, <1>4, <2>4 DEF Without
    <3>2. \A k \in 1 .. i : t[k] = t[p] => k = p
      BY <1>4, <1>7, <3>1 DEF IsList
    <3> HIDE DEF t
    <3> QED
      BY <1>4, <2>1, <2>2, <3>1, <3>2
  <2> QED
    BY <2>3, <2>4
<1>16. InTime(n - 1, t)'
  <2> HIDE DEF t, K
  <2> SUFFICES ASSUME NEW i \in 1 .. n - 1, timer[t[i]].event_flag # NULL
               PROVE  timer[t[i]].timeout - (IF Ahead(t, i)' THEN updateTime ELSE 0)
                        <= left'[timer[t[i]].event_flag] + lag
    BY <1>1, <1>10 DEF InTime
  <2>1. /\ K(i) \in 1 .. n /\ K(i) # p /\ t[i] = s[K(i)]
        /\ Ahead(t, i)' <=> Ahead(s, K(i))
    BY <1>8, <1>15
  <2>2. left'[timer[s[K(i)]].event_flag] = left[timer[s[K(i)]].event_flag]
    BY <1>1, <2>1
  <2>3. timer[s[K(i)]].timeout - (IF Ahead(s, K(i)) THEN updateTime ELSE 0)
            <= left[timer[s[K(i)]].event_flag] + lag
    BY <1>2, <2>1 DEF InTime
  <2> QED
    BY <2>1, <2>2, <2>3
<1>17. Whole(n - 1, t)'
  BY <1>7, <1>11, <1>12, <1>13, <1>14, <1>16 DEF Whole
<1> QED
  BY <1>17

LEMMA VisitWhole ==
  ASSUME TypeOK, NEW n, NEW s, Whole(n, s), Visit
  PROVE  TypeOK' /\ \E m, t : Whole(m, t)'
BY VisitTyped, KeepWhole, UnlinkWhole

(* The record goes back to the heap.  The promise to its user ends here,   *)
(* unless the timer was started again since the record was taken out.      *)
LEMMA ExpireWhole ==
  ASSUME TypeOK, NEW n, NEW s, Whole(n, s), Expire
  PROVE  TypeOK' /\ Whole(n, s)'
<1> DEFINE id == timer[freeTimer].event_flag
           done == osalFindTimer(id) = {}
<1>1. /\ IF timer[freeTimer].timeout = 0 /\ id # NULL
         THEN /\ pending' = pending \cup {id}
              /\ status' = IF done THEN [status EXCEPT ![id] = "off"] ELSE status
              /\ left' = IF done THEN [left EXCEPT ![id] = 0] ELSE left
         ELSE UNCHANGED <<pending, promise>>
      /\ timer' = [timer EXCEPT ![freeTimer] = Blank]
      /\ heap' = heap \cup {freeTimer}
      /\ freeTimer' = NULL
      /\ pc = "free" /\ pc' = "walk"
      /\ UNCHANGED <<timerHead, srchTimer, prevTimer, updateTime, lag>>
  BY DEF Expire
<1>2. /\ IsList(n, s) /\ Placed(n, s) /\ Between(n, s)
      /\ OneTimer(n, s) /\ InTime(n, s) /\ Stopped(n, s)
  BY DEF Whole
<1>3. freeTimer # NULL /\ freeTimer \in Recs
  BY <1>1, <1>2 DEF Placed, TypeOK, Pointer
<1>4. TypeOK'
  BY <1>3, ExpireTyped
<1>5. n \in Nat /\ \A i \in 1 .. n : /\ s[i] \in Recs /\ s[i] # NULL
                                     /\ s[i] # freeTimer /\ timer'[s[i]] = timer[s[i]]
  <2>1. n \in Nat /\ \A i \in 1 .. n : s[i] \in Recs /\ s[i] # NULL /\ s[i] # freeTimer
    BY <1>2, RecsFinite DEF IsList, Placed
  <2> QED
    BY <1>1, <1>3, <2>1 DEF TypeOK
<1>6. IsList(n, s)'
  BY <1>1, <1>2, <1>5, ListKept
<1>7. Placed(n, s)'
  <2>1. \A r \in Recs : r \in heap' \/ \E i \in 1 .. n : s[i] = r
    BY <1>1, <1>2 DEF Placed
  <2>2. NULL \notin heap'
    BY <1>1, <1>3, RecsFinite DEF TypeOK
  <2>3. \A i \in 1 .. n : s[i] \notin heap' /\ s[i] # NULL
    BY <1>1, <1>2, <1>5 DEF Placed
  <2> QED
    BY <1>1, <2>1, <2>2, <2>3 DEF Placed
<1>8. Between(n, s)'
  BY <1>1, <1>2 DEF Between
<1>9. OneTimer(n, s)'
  BY <1>2, <1>5 DEF OneTimer
<1>10. /\ \A jd \in TimerIds : status'[jd] = "stopped" => status[jd] = "stopped"
       /\ \A i \in 1 .. n : timer[s[i]].event_flag # NULL =>
            left'[timer[s[i]].event_flag] = left[timer[s[i]].event_flag]
  <2>1. CASE timer[freeTimer].timeout = 0 /\ id # NULL /\ done
    <3>1. id \in TimerIds
      BY <1>3, <2>1, TimesTyped
    <3>2. \A i \in 1 .. n : timer[s[i]].event_flag # id
      BY <1>2, <2>1, <3>1, Found
    <3>3. status' = [status EXCEPT ![id] = "off"] /\ left' = [left EXCEPT ![id] = 0]
      BY <1>1, <2>1
    <3> HIDE DEF id, done
    <3> QED
      BY <1>2, <3>1, <3>2, <3>3, RecordRead DEF TypeOK
  <2>2. CASE ~(timer[freeTimer].timeout = 0 /\ id # NULL /\ done)
    <3>1. status' = status /\ left' = left
      BY <1>1, <2>2 DEF promise
    <3> QED
      BY <3>1
  <2> QED
    BY <2>1, <2>2
<1>11. Stopped(n, s)'
  BY <1>1, <1>2, <1>5, <1>10 DEF Stopped
<1>12. InTime(n, s)'
  <2>1. \A i \in 1 .. n : Ahead(s, i)' <=> Ahead(s, i)
    BY <1>1 DEF Ahead
  <2> QED
    BY <1>1, <1>2, <1>5, <1>10, <2>1 DEF InTime
<1> QED
  BY <1>4, <1>6, <1>7, <1>8, <1>9, <1>11, <1>12 DEF Whole

-----------------------------------------------------------------------------
(* The invariant holds always.                                             *)

LEMMA InvInit == Init => Inv
<1> SUFFICES ASSUME Init PROVE Inv
  OBVIOUS
<1>1. TypeOK
  BY Times, TimerAssumption DEF Init, TypeOK, Pointer, Blank
<1> DEFINE s == [i \in 1 .. 0 |-> NULL]
<1>2. IsList(0, s)
  BY DEF Init, IsList
<1>3. Whole(0, s)
  <2>1. Placed(0, s) /\ Between(0, s) /\ OneTimer(0, s) /\ InTime(0, s)
    BY RecsFinite DEF Init, Placed, Between, OneTimer, InTime
  <2>2. Stopped(0, s)
    BY DEF Init, Stopped
  <2> QED
    BY <1>2, <2>1, <2>2 DEF Whole
<1> QED
  BY <1>1, <1>3 DEF Inv

LEMMA InvStep == Inv /\ [Next]_vars => Inv'
<1> SUFFICES ASSUME Inv, [Next]_vars PROVE TypeOK' /\ \E m, t : Whole(m, t)'
  BY DEF Inv
<1>1. PICK n, s : TypeOK /\ Whole(n, s)
  BY DEF Inv
<1>2. ASSUME TimeUpdate PROVE TypeOK' /\ \E m, t : Whole(m, t)'
  BY <1>1, <1>2, TimeUpdateWhole
<1>3. ASSUME WalkStart PROVE TypeOK' /\ \E m, t : Whole(m, t)'
  BY <1>1, <1>3, WalkStartWhole
<1>4. ASSUME Visit PROVE TypeOK' /\ \E m, t : Whole(m, t)'
  BY <1>1, <1>4, VisitWhole
<1>5. ASSUME Expire PROVE TypeOK' /\ \E m, t : Whole(m, t)'
  BY <1>1, <1>5, ExpireWhole
<1>6. ASSUME WalkEnd PROVE TypeOK' /\ \E m, t : Whole(m, t)'
  BY <1>1, <1>6, WalkEndWhole
<1>7. ASSUME Tick PROVE TypeOK' /\ \E m, t : Whole(m, t)'
  BY <1>1, <1>7, TickWhole
<1>8. ASSUME Consume PROVE TypeOK' /\ \E m, t : Whole(m, t)'
  <2>1. pending' \in SUBSET TimerIds /\ UNCHANGED <<list, walk, lag, promise>>
    BY <1>1, <1>8 DEF Consume, TypeOK
  <2> QED
    BY <1>1, <2>1, StutterWhole
<1>9. ASSUME NEW id \in TimerIds, StartTimer(id) PROVE TypeOK' /\ \E m, t : Whole(m, t)'
  BY <1>1, <1>9, StartWhole
<1>10. ASSUME NEW id \in TimerIds, StopTimer(id) PROVE TypeOK' /\ \E m, t : Whole(m, t)'
  BY <1>1, <1>10, StopWhole
<1>11. ASSUME UNCHANGED vars PROVE TypeOK' /\ \E m, t : Whole(m, t)'
  <2>1. pending' \in SUBSET TimerIds /\ UNCHANGED <<list, walk, lag, promise>>
    BY <1>1, <1>11 DEF vars, TypeOK
  <2> QED
    BY <1>1, <2>1, StutterWhole
<1>12. ASSUME NEW id \in TimerIds, StartFails(id) PROVE TypeOK' /\ \E m, t : Whole(m, t)'
  BY <1>11, <1>12 DEF StartFails
<1> QED
  BY <1>2, <1>3, <1>4, <1>5, <1>6, <1>7, <1>8, <1>9, <1>10, <1>11, <1>12
     DEF Next, UpdateStep

THEOREM InvAlways == Spec => []Inv
BY InvInit, InvStep, PTL DEF Spec

(* Pointers, counters and promises have their types.                       *)
THEOREM TimerTypes == Spec => []TypeOK
<1>1. Inv => TypeOK
  BY DEF Inv
<1> QED
  BY <1>1, InvAlways, PTL

(* However many interrupts append records during a walk, the list ends, no *)
(* record is lost or has two places, the walk stands between neighbours,   *)
(* and no timer has two records.                                           *)
THEOREM ListAlwaysIntact == Spec => []ListIntact
<1>1. Inv => ListIntact
  BY InvRead
<1> QED
  BY <1>1, InvAlways, PTL

(* No record ever counts longer than its user has to wait.                 *)
THEOREM NeverLateAlways == Spec => []NeverLate
<1>1. Inv => NeverLate
  BY InvRead
<1> QED
  BY <1>1, InvAlways, PTL

(* The event of a timer that a task stopped between two walks, and that    *)
(* nobody started since, is not set: its record has lost the event,        *)
(* and none with the event waits to be freed.                              *)
THEOREM StopAlwaysPrevents == Spec => StopPrevents
<1>1. ASSUME Inv, Next, NEW id \in TimerIds, Fires(id) PROVE status[id] # "stopped"
  <2>1. PICK n, s : IsList(n, s) /\ Between(n, s) /\ Stopped(n, s) /\ TypeOK
    BY <1>1 DEF Inv, Whole
  <2>2. id \notin pending /\ id \in pending'
    BY <1>1 DEF Fires
  <2>3. CASE Visit
    <3>1. /\ pc = "walk" /\ srchTimer # NULL
          /\ IF Reloads(srchTimer) THEN Renew(timer[srchTimer].event_flag)
                                   ELSE UNCHANGED <<pending, promise>>
      BY <2>3 DEF Visit
    <3>2. id = timer[srchTimer].event_flag
      BY <2>2, <3>1 DEF Renew
    <3>3. PICK p \in 1 .. n : srchTimer = s[p]
      BY <2>1, <3>1 DEF Between
    <3> QED
      BY <2>1, <3>2, <3>3 DEF Stopped
  <2>4. CASE Expire
    <3>1. pc = "free" /\ id = timer[freeTimer].event_flag
      BY <2>2, <2>4 DEF Expire
    <3> QED
      BY <2>1, <3>1 DEF Stopped
  <2>5. CASE Consume
    BY <2>2, <2>5 DEF Consume
  <2>6. ASSUME pending' = pending PROVE FALSE
    BY <2>2, <2>6
  <2>7. CASE \/ TimeUpdate \/ WalkStart \/ WalkEnd \/ Tick
             \/ \E jd \in TimerIds : StartTimer(jd) \/ StartFails(jd) \/ StopTimer(jd)
    BY <2>6, <2>7 DEF TimeUpdate, WalkStart, WalkEnd, Tick, StartTimer, StartFails,
                      StopTimer, vars, walk
  <2> QED
    BY <1>1, <2>3, <2>4, <2>5, <2>7 DEF Next, UpdateStep
<1>2. Inv /\ [Next]_vars => [\A id \in TimerIds : Fires(id) => status[id] # "stopped"]_vars
  BY <1>1
<1> QED
  BY <1>2, InvAlways, PTL DEF Spec, StopPrevents
=============================================================================
