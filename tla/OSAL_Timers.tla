----------------------------- MODULE OSAL_Timers -----------------------------
(***************************************************************************)
(* The software timers (src/Components/osal/common/OSAL_Timers.c) and the  *)
(* clock update that drives them (osalTimeUpdate, OSAL_Clock.c).           *)
(*                                                                         *)
(* The timers are a linked list of records on the heap.  Tasks and         *)
(* interrupts start timers, tasks stop them, each in a critical section.   *)
(* Once per pass of the main loop osalTimerUpdate walks the list, one      *)
(* critical section per record, and interrupts may start timers between    *)
(* two records.  A timer is identified by its task and event; here the     *)
(* pair is one value of TimerIds.                                          *)
(***************************************************************************)
EXTENDS Naturals, Integers, FiniteSets

CONSTANTS TimerIds,     \* <<task, event>> pairs
          Recs,         \* timer records the heap can hold
          Timeouts,     \* timeouts in milliseconds that are asked for
          MaxLag,       \* bound on the time between two clock updates
          NULL          \* the null pointer; event_flag 0

\* the fields timeout and reloadTimeout are 16 bits wide
MaxMs        == 65535
Milliseconds == 0 .. MaxMs

ASSUME TimerAssumption ==
  /\ NULL \notin Recs \cup TimerIds
  /\ IsFiniteSet(Recs)
  /\ Timeouts \subseteq Milliseconds
  /\ MaxLag \in Nat \ {0}

VARIABLES
  timerHead,    \* first record of the list
  timer,        \* the fields of every record
  heap,         \* records that are not allocated
  pc,           \* where the main thread is
  srchTimer,    \* osalTimerUpdate: record to visit
  prevTimer,    \* the record before it
  freeTimer,    \* record taken out of the list, not yet freed
  updateTime,   \* milliseconds the walk accounts for
  pending,      \* events that are set
  lag,          \* time that passed since the clock was last read
  status,       \* of every timer, as its user sees it
  left          \* time until a running timer should expire

list    == <<timerHead, timer, heap>>
walk    == <<pc, srchTimer, prevTimer, freeTimer, updateTime>>
promise == <<status, left>>
vars    == <<list, walk, pending, lag, promise>>

\* the n-th record of the list, NULL past its end
Chain ==
  LET c[n \in 0 .. Cardinality(Recs)] ==
        IF n = 0 THEN timerHead
        ELSE IF c[n - 1] = NULL THEN NULL ELSE timer[c[n - 1]].next
  IN  c

Linked == {Chain[n] : n \in DOMAIN Chain} \ {NULL}

osalFindTimer(id) == {r \in Linked : timer[r].event_flag = id}

Blank == [next |-> NULL, timeout |-> 0, event_flag |-> NULL,
          reloadTimeout |-> 0]

Init ==
  /\ timerHead = NULL
  /\ timer = [r \in Recs |-> Blank]
  /\ heap = Recs
  /\ pc = "idle"
  /\ srchTimer = NULL /\ prevTimer = NULL /\ freeTimer = NULL
  /\ updateTime = 0
  /\ pending = {}
  /\ lag = 0
  /\ status = [id \in TimerIds |-> "off"]
  /\ left = [id \in TimerIds |-> 0]

-----------------------------------------------------------------------------
(* osal_start_timerEx and osal_start_reload_timer, by a task or interrupt  *)

\* a timer that is in the list is updated in place; osal_start_timerEx leaves
\* its reload time as it is
UpdateTimer(id, ms, reload) ==
  /\ \E r \in osalFindTimer(id) :
       timer' = [timer EXCEPT ![r].timeout = ms,
                              ![r].reloadTimeout = IF reload THEN ms ELSE @]
  /\ UNCHANGED <<timerHead, heap>>

\* a new record goes to the end of the list
AppendTimer(id, ms, reload) ==
  \E r \in heap :
    LET new == [next |-> NULL, timeout |-> ms, event_flag |-> id,
                reloadTimeout |-> IF reload THEN ms ELSE 0]
    IN  /\ heap' = heap \ {r}
        /\ \/ /\ timerHead = NULL
              /\ timerHead' = r
              /\ timer' = [timer EXCEPT ![r] = new]
           \/ \E last \in Linked :
                /\ timer[last].next = NULL
                /\ timer' = [timer EXCEPT ![last].next = r, ![r] = new]
                /\ UNCHANGED timerHead

osalAddTimer(id, ms, reload) ==
  \/ UpdateTimer(id, ms, reload)
  \/ osalFindTimer(id) = {} /\ AppendTimer(id, ms, reload)

StartTimer(id) ==
  /\ \E ms \in Timeouts, reload \in BOOLEAN :
       /\ osalAddTimer(id, ms, reload)
       /\ status' = [status EXCEPT ![id] = "running"]
       /\ left' = [left EXCEPT ![id] = ms]
  /\ UNCHANGED <<walk, pending, lag>>

\* no memory for a new record: the caller gets NO_TIMER_AVAIL
StartFails(id) ==
  /\ heap = {} /\ osalFindTimer(id) = {}
  /\ UNCHANGED vars

-----------------------------------------------------------------------------
(* osal_stop_timerEx.  Only tasks call it, and tasks run between two walks *)
(* (hal_key.c:243 and hal_led.c:248 are run by the HAL task, too).         *)

\* Mutant: the record is found but its event stays.
Stop_keepsEvent(id) ==
  /\ osalFindTimer(id) # {}
  /\ timer' = timer

\* the record stays in the list with no event; the next walk removes it
osalDeleteTimer(id) ==
  \E r \in osalFindTimer(id) :
    timer' = [timer EXCEPT ![r].event_flag = NULL]

StopTimer(id) ==
  /\ pc = "idle"
  /\ osalDeleteTimer(id)
  /\ status' = [status EXCEPT ![id] = "stopped"]
  /\ left' = [left EXCEPT ![id] = 0]
  /\ UNCHANGED <<timerHead, heap, walk, pending, lag>>

-----------------------------------------------------------------------------
(* osalTimeUpdate and osalTimerUpdate                                      *)

\* Mutant: the clock is read twice, and the time between is lost.
TimeUpdate_lost ==
  /\ pc = "idle" /\ lag > 0
  /\ updateTime' = 0
  /\ lag' = 0
  /\ pc' = "head"
  /\ UNCHANGED <<list, srchTimer, prevTimer, freeTimer, pending, promise>>

\* the clock is read; the list is walked if time has passed
TimeUpdate ==
  /\ pc = "idle" /\ lag > 0
  /\ updateTime' = lag
  /\ lag' = 0
  /\ pc' = "head"
  /\ UNCHANGED <<list, srchTimer, prevTimer, freeTimer, pending, promise>>

WalkStart ==
  /\ pc = "head"
  /\ srchTimer' = timerHead
  /\ prevTimer' = NULL
  /\ pc' = "walk"
  /\ UNCHANGED <<list, freeTimer, updateTime, pending, lag, promise>>

\* Mutant: every visit counts one millisecond.
Remaining_one(r) == IF timer[r].timeout <= 1 THEN 0 ELSE timer[r].timeout - 1

Remaining(r) ==
  IF timer[r].timeout <= updateTime THEN 0 ELSE timer[r].timeout - updateTime

\* a timer that is reloaded sets its event and stays
Reloads(r) ==
  /\ Remaining(r) = 0 /\ timer[r].reloadTimeout # 0
  /\ timer[r].event_flag # NULL

\* the promise to the user of a reload timer starts again when it expires
Renew(id) ==
  /\ pending' = pending \cup {id}
  /\ left' = [left EXCEPT ![id] = timer[srchTimer].reloadTimeout - lag]
  /\ UNCHANGED status

TimeoutAfter(r) ==
  IF Reloads(r) THEN timer[r].reloadTimeout ELSE Remaining(r)

Removed(r) == TimeoutAfter(r) = 0 \/ timer[r].event_flag = NULL

\* Mutant: the record that was taken out is remembered as the previous one.
Unlink_prev(r, fields) ==
  /\ IF prevTimer = NULL
     THEN timerHead' = timer[r].next /\ timer' = [timer EXCEPT ![r] = fields]
     ELSE /\ timer' = [timer EXCEPT ![prevTimer].next = timer[r].next,
                                    ![r] = fields]
          /\ UNCHANGED timerHead
  /\ freeTimer' = r
  /\ pc' = "free"
  /\ prevTimer' = r

\* the record expires or was stopped: it is taken out of the list
Unlink(r, fields) ==
  /\ IF prevTimer = NULL
     THEN timerHead' = timer[r].next /\ timer' = [timer EXCEPT ![r] = fields]
     ELSE /\ timer' = [timer EXCEPT ![prevTimer].next = timer[r].next,
                                    ![r] = fields]
          /\ UNCHANGED timerHead
  /\ freeTimer' = r
  /\ pc' = "free"
  /\ UNCHANGED prevTimer

\* one record, in one critical section
Visit ==
  /\ pc = "walk" /\ srchTimer # NULL
  /\ LET r == srchTimer
         fields == [timer[r] EXCEPT !.timeout = TimeoutAfter(r)]
     IN  /\ IF Reloads(r) THEN Renew(timer[r].event_flag)
                          ELSE UNCHANGED <<pending, promise>>
         /\ IF Removed(r) THEN Unlink(r, fields)
            ELSE /\ timer' = [timer EXCEPT ![r] = fields]
                 /\ prevTimer' = r
                 /\ UNCHANGED <<timerHead, freeTimer, pc>>
         /\ srchTimer' = timer[r].next
  /\ UNCHANGED <<heap, updateTime, lag>>

\* the event of an expired timer is set and its record is freed
Expire ==
  /\ pc = "free"
  /\ LET id == timer[freeTimer].event_flag
         done == osalFindTimer(id) = {}     \* and it was not started again
     IN  IF timer[freeTimer].timeout = 0 /\ id # NULL
         THEN /\ pending' = pending \cup {id}
              /\ status' = IF done THEN [status EXCEPT ![id] = "off"]
                                   ELSE status
              /\ left' = IF done THEN [left EXCEPT ![id] = 0] ELSE left
         ELSE UNCHANGED <<pending, promise>>
  /\ timer' = [timer EXCEPT ![freeTimer] = Blank]
  /\ heap' = heap \cup {freeTimer}
  /\ freeTimer' = NULL
  /\ pc' = "walk"
  /\ UNCHANGED <<timerHead, srchTimer, prevTimer, updateTime, lag>>

WalkEnd ==
  /\ pc = "walk" /\ srchTimer = NULL
  /\ pc' = "idle"
  /\ prevTimer' = NULL /\ updateTime' = 0
  /\ UNCHANGED <<list, srchTimer, freeTimer, pending, lag, promise>>

-----------------------------------------------------------------------------
(* The environment: time passes, and tasks consume their events            *)

\* a wait that is overdue by more than two updates is not counted further
Overdue == -2 * MaxLag - 1

Tick ==
  /\ lag < MaxLag
  /\ lag' = lag + 1
  /\ left' = [id \in TimerIds |->
                IF status[id] = "running" /\ left[id] > Overdue
                THEN left[id] - 1 ELSE left[id]]
  /\ UNCHANGED <<list, walk, pending, status>>

Consume ==
  /\ pc = "idle"
  /\ \E id \in pending : pending' = pending \ {id}
  /\ UNCHANGED <<list, walk, lag, promise>>

UpdateStep == TimeUpdate \/ WalkStart \/ Visit \/ Expire \/ WalkEnd

Next ==
  \/ UpdateStep \/ Tick \/ Consume
  \/ \E id \in TimerIds : StartTimer(id) \/ StartFails(id) \/ StopTimer(id)

Spec == Init /\ [][Next]_vars

\* time passes, and the main loop updates the timers in every pass
FairSpec == Spec /\ WF_vars(Tick) /\ WF_vars(UpdateStep)

-----------------------------------------------------------------------------

Pointer == Recs \cup {NULL}

TypeOK ==
  /\ timerHead \in Pointer
  /\ timer \in [Recs -> [next : Pointer, timeout : Milliseconds,
                         event_flag : TimerIds \cup {NULL},
                         reloadTimeout : Milliseconds]]
  /\ heap \in SUBSET Recs
  /\ pc \in {"idle", "head", "walk", "free"}
  /\ srchTimer \in Pointer /\ prevTimer \in Pointer
  /\ freeTimer \in Pointer
  /\ updateTime \in 0 .. MaxLag /\ lag \in 0 .. MaxLag
  /\ pending \in SUBSET TimerIds
  /\ status \in [TimerIds -> {"off", "running", "stopped"}]
  /\ left \in [TimerIds -> Int]

\* a timer that is started again while it runs does not run twice
OneRecord ==
  \A id \in TimerIds : Cardinality(osalFindTimer(id)) <= 1

\* The list stays whole while interrupts append to it during the walk: it
\* ends, every record is in the list, on the heap, or about to be freed, the
\* walk stands between two neighbours of the list, and no timer has two
\* records.
ListIntact ==
  /\ Chain[Cardinality(Recs)] = NULL
  /\ Linked \cap heap = {}
  /\ freeTimer \notin Linked \cup heap
  /\ (freeTimer # NULL <=> pc = "free")
  /\ Recs \subseteq Linked \cup heap \cup {freeTimer}
  /\ pc \in {"walk", "free"} /\ srchTimer # NULL =>
       IF prevTimer = NULL THEN srchTimer = timerHead
       ELSE prevTimer \in Linked /\ timer[prevTimer].next = srchTimer
  /\ OneRecord

\* records the walk has not visited yet
Unvisited ==
  IF pc = "head" THEN Linked
  ELSE IF pc = "idle" THEN {}
  ELSE {r \in Linked : \E i, j \in DOMAIN Chain :
          Chain[i] = srchTimer /\ srchTimer # NULL /\ Chain[j] = r /\ i <= j}

\* No timer is late: what a record still counts, less what the walk in
\* progress will take from it, is never more than the time its user has to
\* wait since the clock was last read.
NeverLate ==
  \A r \in Linked :
    timer[r].event_flag # NULL =>
      timer[r].timeout - (IF r \in Unvisited THEN updateTime ELSE 0)
        <= left[timer[r].event_flag] + lag

\* the event of a timer is set
Fires(id) == id \notin pending /\ id \in pending'

\* A task that stopped a timer does not get its event, unless it was set
\* before ("prevent the event associated with the timer from being set",
\* OSAL_Timers.c:306).  The record stays in the list until the next walk,
\* which takes it out without setting the event, whatever interrupts append
\* behind it meanwhile and whatever time has passed.
StopPrevents == [][\A id \in TimerIds : Fires(id) => status[id] # "stopped"]_vars

\* A timer that runs sets its event in the end, unless it is stopped or is
\* started again and again.
Expires ==
  \A id \in TimerIds :
    <>[][~StartTimer(id)]_vars =>
      (status[id] = "running" ~> status[id] # "running" \/ id \in pending)
=============================================================================
