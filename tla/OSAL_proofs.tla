---------------------------- MODULE OSAL_proofs -----------------------------
(* Proofs about OSAL: type correctness, buffer ownership, no lost wake-up. *)
EXTENDS OSAL, TLAPS, FiniteSetTheorems, WellFoundedInduction

USE DEF Tasks, Events, TASK_NO_TASK, osal_set_event, osal_clear_event

(* Taking one element out of a sequence yields a sequence of the others.   *)
LEMMA ExtractProps ==
  ASSUME NEW S, NEW q \in Seq(S), NEW i \in DOMAIN q
  PROVE  /\ Extract(q, i) \in Seq(S)
         /\ Len(Extract(q, i)) = Len(q) - 1
         /\ \A j \in DOMAIN Extract(q, i) :
              Extract(q, i)[j] = IF j < i THEN q[j] ELSE q[j + 1]
<1> DEFINE n == Len(q) - 1
<1>1. Len(q) \in Nat /\ i \in 1 .. Len(q) /\ n \in Nat
  OBVIOUS
<1>2. \A j \in 1 .. n : j \in 1 .. Len(q) /\ j + 1 \in 1 .. Len(q)
  BY <1>1
<1>3. Extract(q, i) \in [1 .. n -> S]
  BY <1>1, <1>2 DEF Extract
<1> QED
  BY <1>1, <1>3 DEF Extract

(* The invariant TypeOK is inductive.                                      *)
THEOREM TypeCorrect == Spec => []TypeOK
<1>1. Init => TypeOK
  BY ConstAssumption DEF Init, TypeOK
<1>2. TypeOK /\ [Next]_vars => TypeOK'
  <2> SUFFICES ASSUME TypeOK, [Next]_vars PROVE TypeOK'
    OBVIOUS
  <2> USE ConstAssumption DEF TypeOK
  <2>1. CASE ScanMiss
    BY <2>1 DEF ScanMiss
  <2>2. CASE ScanHit
    BY <2>2 DEF ScanHit
  <2>3. CASE PassOver
    BY <2>3 DEF PassOver
  <2>4. CASE Snapshot
    BY <2>4 DEF Snapshot
  <2>5. CASE AddBack
    BY <2>5 DEF AddBack
  <2>6. CASE ReceiveSome
    <3>1. idx \in Tasks
      BY <2>6 DEF ReceiveSome
    <3>2. PICK i \in MsgsFor(idx) :
            /\ tasksEvents' = IF MsgsFor(idx) # {i}
                              THEN osal_set_event(idx, SYS_EVENT_MSG)
                              ELSE osal_clear_event(idx, SYS_EVENT_MSG)
            /\ osal_qHead' = Extract(osal_qHead, i)
            /\ dest_id' = [dest_id EXCEPT ![osal_qHead[i]] = TASK_NO_TASK]
            /\ msg' = osal_qHead[i]
      BY <2>6, ZenonT(60) DEF ReceiveSome
    <3>3. i \in DOMAIN osal_qHead /\ osal_qHead[i] \in Buffers
      BY <3>2 DEF MsgsFor
    <3>4. osal_qHead' \in Seq(Buffers)
      BY <3>2, <3>3, ExtractProps
    <3>5. tasksEvents' \in [Tasks -> SUBSET Events]
      BY <3>1, <3>2
    <3> QED
      BY <2>6, <3>1, <3>2, <3>3, <3>4, <3>5 DEF ReceiveSome
  <2>7. CASE ReceiveNone
    BY <2>7 DEF ReceiveNone
  <2>8. CASE HandleEvent
    BY <2>8 DEF HandleEvent
  <2>9. CASE Done
    BY <2>9 DEF Done, Deallocate
  <2>10. CASE MsgSend
    <3>1. PICK m \in Sendable :
            SendNowhere(m) \/ SendRefused(m) \/ \E t \in Tasks : SendQueue(m, t)
      BY <2>10 DEF MsgSend
    <3>2. m \in Buffers
      BY <3>1 DEF Sendable, Queued
    <3>3. CASE SendNowhere(m)
      BY <2>10, <3>2, <3>3 DEF MsgSend, SendNowhere, Deallocate
    <3>4. CASE SendRefused(m)
      BY <2>10, <3>2, <3>4 DEF MsgSend, SendRefused, Deallocate
    <3>5. ASSUME NEW t \in Tasks, SendQueue(m, t) PROVE TypeOK'
      BY <2>10, <3>2, <3>5 DEF MsgSend, SendQueue
    <3> QED
      BY <3>1, <3>3, <3>4, <3>5
  <2>11. CASE Signal
    BY <2>11 DEF Signal
  <2>12. CASE SetEvent
    BY <2>12 DEF SetEvent
  <2>13. CASE IsrSend
    BY <2>13 DEF IsrSend
  <2>14. CASE IsrSetEvent
    BY <2>14 DEF IsrSetEvent
  <2>15. CASE UNCHANGED vars
    BY <2>15 DEF vars
  <2> QED
    BY <2>1, <2>2, <2>3, <2>4, <2>5, <2>6, <2>7, <2>8, <2>9, <2>10, <2>11,
       <2>12, <2>13, <2>14, <2>15 DEF Next, MainStep
<1> QED
  BY <1>1, <1>2, PTL DEF Spec

-----------------------------------------------------------------------------
(* What queueing a buffer, and taking one out of the queue, does to the    *)
(* set of queued buffers and to the messages that wait for each task.      *)

Distinct ==
  \A i, j \in DOMAIN osal_qHead : osal_qHead[i] = osal_qHead[j] => i = j

LEMMA Enqueue ==
  ASSUME TypeOK, Distinct, NEW m \in Buffers, m \notin Queued,
         NEW t \in Tasks,
         osal_qHead' = Append(osal_qHead, m),
         dest_id' = [dest_id EXCEPT ![m] = t]
  PROVE  /\ Distinct'
         /\ Queued' = Queued \cup {m}
         /\ \A u \in Tasks : u # t /\ MsgsFor(u)' # {} => MsgsFor(u) # {}
<1> DEFINE n == Len(osal_qHead)
<1>1. /\ n \in Nat
      /\ DOMAIN osal_qHead = 1 .. n
      /\ DOMAIN osal_qHead' = 1 .. n + 1
      /\ \A i \in 1 .. n : osal_qHead'[i] = osal_qHead[i]
      /\ osal_qHead'[n + 1] = m
  BY DEF TypeOK
<1>2. \A i \in 1 .. n : osal_qHead[i] \in Buffers \ {m}
  BY <1>1 DEF Queued, TypeOK
<1>3. \A i \in 1 .. n + 1 : i \in 1 .. n \/ i = n + 1
  BY <1>1
<1>4. Distinct'
  BY <1>1, <1>2, <1>3 DEF Distinct
<1>5. Queued' = Queued \cup {m}
  BY <1>1, <1>3 DEF Queued
<1>6. ASSUME NEW u \in Tasks, u # t, MsgsFor(u)' # {} PROVE MsgsFor(u) # {}
  <2>1. PICK i \in 1 .. n + 1 : dest_id'[osal_qHead'[i]] = u
    BY <1>1, <1>6 DEF MsgsFor
  <2>2. dest_id'[m] = t
    BY DEF TypeOK
  <2>3. i \in 1 .. n
    BY <1>1, <1>3, <1>6, <2>1, <2>2
  <2>4. dest_id[osal_qHead[i]] = u
    BY <1>1, <1>2, <2>1, <2>3 DEF TypeOK
  <2> QED
    BY <1>1, <2>3, <2>4 DEF MsgsFor
<1> QED
  BY <1>4, <1>5, <1>6

LEMMA TakeOut ==
  ASSUME TypeOK, Distinct, NEW i \in DOMAIN osal_qHead,
         osal_qHead' = Extract(osal_qHead, i),
         dest_id' = [dest_id EXCEPT ![osal_qHead[i]] = TASK_NO_TASK]
  PROVE  /\ Distinct'
         /\ Queued' = Queued \ {osal_qHead[i]}
         /\ \A u \in Tasks : MsgsFor(u)' # {} => MsgsFor(u) \ {i} # {}
<1> DEFINE n == Len(osal_qHead)
           old(j) == IF j < i THEN j ELSE j + 1
<1>1. /\ n \in Nat /\ i \in 1 .. n
      /\ DOMAIN osal_qHead = 1 .. n
      /\ \A j \in 1 .. n : osal_qHead[j] \in Buffers
  BY DEF TypeOK
<1>2. /\ DOMAIN osal_qHead' = 1 .. n - 1
      /\ \A j \in 1 .. n - 1 : osal_qHead'[j] = osal_qHead[old(j)]
  <2>1. osal_qHead' \in Seq(Buffers) /\ Len(osal_qHead') = n - 1
    BY ExtractProps DEF TypeOK
  <2>2. DOMAIN osal_qHead' = 1 .. n - 1
    BY <2>1
  <2>3. \A j \in DOMAIN Extract(osal_qHead, i) : Extract(osal_qHead, i)[j] =
          IF j < i THEN osal_qHead[j] ELSE osal_qHead[j + 1]
    BY ExtractProps DEF TypeOK
  <2> QED
    BY <2>2, <2>3
<1>3. \A j \in 1 .. n - 1 : old(j) \in 1 .. n /\ old(j) # i
  BY <1>1
<1>4. \A j, k \in 1 .. n - 1 : old(j) = old(k) => j = k
  BY <1>1
<1>5. \A j \in 1 .. n : j # i => \E k \in 1 .. n - 1 : old(k) = j
  <2> SUFFICES ASSUME NEW j \in 1 .. n, j # i
               PROVE  \E k \in 1 .. n - 1 : old(k) = j
    OBVIOUS
  <2>1. CASE j < i
    BY <1>1, <2>1
  <2>2. CASE j > i
    <3>1. j - 1 \in 1 .. n - 1 /\ old(j - 1) = j
      BY <1>1, <2>2
    <3> QED
      BY <3>1
  <2> QED
    BY <1>1, <2>1, <2>2
<1> HIDE DEF old
<1>6. Distinct'
  BY <1>1, <1>2, <1>3, <1>4 DEF Distinct
<1>7. \A j \in 1 .. n - 1 : osal_qHead'[j] # osal_qHead[i]
  BY <1>1, <1>2, <1>3 DEF Distinct
<1>8. Queued' = Queued \ {osal_qHead[i]}
  <2>1. ASSUME NEW x \in Queued' PROVE x \in Queued \ {osal_qHead[i]}
    BY <1>1, <1>2, <1>3, <1>7, <2>1 DEF Queued
  <2>2. ASSUME NEW x \in Queued, x # osal_qHead[i] PROVE x \in Queued'
    <3>1. PICK j \in 1 .. n : osal_qHead[j] = x
      BY <1>1, <2>2 DEF Queued
    <3>2. PICK k \in 1 .. n - 1 : old(k) = j
      BY <1>5, <2>2, <3>1
    <3> QED
      BY <1>2, <3>1, <3>2 DEF Queued
  <2> QED
    BY <2>1, <2>2
<1>9. ASSUME NEW u \in Tasks, MsgsFor(u)' # {} PROVE MsgsFor(u) \ {i} # {}
  <2>1. PICK j \in 1 .. n - 1 : dest_id'[osal_qHead'[j]] = u
    BY <1>2, <1>9 DEF MsgsFor
  <2>2. dest_id[osal_qHead[old(j)]] = u
    BY <1>1, <1>2, <1>3, <1>7, <2>1 DEF TypeOK
  <2> QED
    BY <1>1, <1>3, <2>2 DEF MsgsFor
<1> QED
  BY <1>6, <1>8, <1>9

-----------------------------------------------------------------------------
(* OneOwner holds of every reachable state: no buffer is queued twice,     *)
(* freed while queued, or lost.                                            *)
THEOREM OneOwnerInvariant == Spec => []OneOwner
<1>1. Init => OneOwner
  BY ConstAssumption DEF Init, OneOwner, Queued
<1>2. TypeOK /\ OneOwner /\ [Next]_vars => OneOwner'
  <2> SUFFICES ASSUME TypeOK, OneOwner, [Next]_vars PROVE OneOwner'
    OBVIOUS
  <2> USE ConstAssumption
  <2>a. Distinct
    BY DEF OneOwner, Distinct
  <2>b. ASSUME UNCHANGED <<osal_qHead, dest_id, heap, msg>>,
               msg # NULL => pc' \in {"process", "signal"}
        PROVE  OneOwner'
    BY <2>b DEF OneOwner, Queued
  <2>c. ASSUME NEW m \in Buffers, m \in heap \cup {msg}, m # NULL,
               NEW t \in Tasks,
               osal_qHead' = Append(osal_qHead, m),
               dest_id' = [dest_id EXCEPT ![m] = t],
               heap' = heap \ {m},
               msg' = IF m = msg THEN NULL ELSE msg,
               msg' # NULL => pc' \in {"process", "signal"}
        PROVE  OneOwner'
    <3>1. m \notin Queued
      BY <2>c DEF OneOwner
    <3>2. Distinct' /\ Queued' = Queued \cup {m}
      BY <2>a, <2>c, <3>1, Enqueue
    <3>3. \A b \in Buffers : dest_id'[b] # TASK_NO_TASK <=> b \in Queued'
      BY <2>c, <3>2 DEF OneOwner, TypeOK
    <3>4. NULL \notin heap \cup Queued
      BY DEF TypeOK, Queued
    <3> QED
      BY <2>c, <3>2, <3>3, <3>4 DEF OneOwner, Distinct
  <2>1. CASE ReceiveSome
    <3>1. PICK i \in DOMAIN osal_qHead :
            /\ osal_qHead' = Extract(osal_qHead, i)
            /\ dest_id' = [dest_id EXCEPT ![osal_qHead[i]] = TASK_NO_TASK]
            /\ msg' = osal_qHead[i]
      BY <2>1 DEF ReceiveSome, MsgsFor
    <3>2. Distinct' /\ Queued' = Queued \ {osal_qHead[i]}
      BY <2>a, <3>1, TakeOut
    <3>3. osal_qHead[i] \in Queued /\ heap' = heap
      BY <2>1 DEF ReceiveSome, Queued
    <3>4. \A b \in Buffers : dest_id'[b] # TASK_NO_TASK <=> b \in Queued'
      BY <3>1, <3>2 DEF OneOwner, TypeOK
    <3>5. msg = NULL /\ pc' = "process"
      BY <2>1 DEF ReceiveSome, OneOwner
    <3> QED
      BY <3>1, <3>2, <3>3, <3>4, <3>5 DEF OneOwner, Distinct
  <2>2. CASE Done
    BY <2>2 DEF Done, Deallocate, OneOwner, TypeOK, Queued
  <2>3. CASE MsgSend
    <3>1. PICK m \in Sendable :
            SendNowhere(m) \/ SendRefused(m) \/ \E t \in Tasks : SendQueue(m, t)
      BY <2>3 DEF MsgSend
    <3>2. m \in Buffers /\ m # NULL
      BY <3>1 DEF Sendable, Queued, TypeOK
    <3>3. CASE SendNowhere(m)
      <4>1. UNCHANGED <<osal_qHead, dest_id, pc>>
        BY <3>3 DEF SendNowhere
      <4>2. Queued' = Queued
        BY <4>1 DEF Queued
      <4>3. NULL \notin heap \cup Queued
        BY DEF TypeOK, Queued
      <4>4. CASE m = msg
        BY <3>2, <3>3, <4>1, <4>2, <4>3, <4>4
           DEF SendNowhere, Deallocate, OneOwner
      <4>5. CASE m # msg
        <5>1. heap' = heap /\ msg' = msg
          BY <3>1, <3>2, <3>3, <4>5
             DEF SendNowhere, Deallocate, OneOwner, Sendable
        <5> QED
          BY <2>b, <4>1, <5>1 DEF OneOwner
      <4> QED
        BY <4>4, <4>5
    <3>4. CASE SendRefused(m)
      BY <2>b, <3>2, <3>4 DEF SendRefused, Deallocate, OneOwner
    <3>5. ASSUME NEW t \in Tasks, SendQueue(m, t) PROVE OneOwner'
      <4>1. m \in heap \cup {msg}
        BY <3>1, <3>2, <3>5 DEF SendQueue, Sendable, OneOwner
      <4>2. /\ osal_qHead' = Append(osal_qHead, m)
            /\ dest_id' = [dest_id EXCEPT ![m] = t]
            /\ heap' = heap \ {m}
            /\ msg' = IF m = msg THEN NULL ELSE msg
            /\ pc' = "signal"
        BY <3>5 DEF SendQueue
      <4> QED
        BY <2>c, <3>2, <4>1, <4>2
    <3> QED
      BY <3>1, <3>3, <3>4, <3>5
  <2>4. CASE IsrSend
    <3>1. PICK m \in heap, t \in Tasks :
            /\ heap' = heap \ {m}
            /\ dest_id' = [dest_id EXCEPT ![m] = t]
            /\ osal_qHead' = Append(osal_qHead, m)
      BY <2>4 DEF IsrSend
    <3>2. m \in Buffers /\ m # NULL /\ m # msg /\ msg' = msg
      BY <2>4, <3>1 DEF IsrSend, OneOwner, TypeOK
    <3>3. msg' # NULL => pc' \in {"process", "signal"}
      BY <2>4, <3>2 DEF IsrSend, OneOwner
    <3> QED
      BY <2>c, <3>1, <3>2, <3>3
  <2>5. CASE ~(ReceiveSome \/ Done \/ MsgSend \/ IsrSend)
    <3>1. /\ UNCHANGED <<osal_qHead, dest_id, heap, msg>>
          /\ pc' \in {"process", "signal"} \/ pc' = pc
             \/ pc \notin {"process", "signal"}
      BY <2>5 DEF Next, MainStep, ScanMiss, ScanHit, PassOver, Snapshot,
         AddBack, ReceiveNone, HandleEvent, Signal, SetEvent, IsrSetEvent, vars
    <3> QED
      BY <2>b, <3>1 DEF OneOwner
  <2> QED
    BY <2>1, <2>2, <2>3, <2>4, <2>5
<1> QED
  BY <1>1, <1>2, TypeCorrect, PTL DEF Spec

-----------------------------------------------------------------------------
(* NoLostWakeup holds of every reachable state, for every number of tasks, *)
(* buffers and interrupts: a message never waits for a sleeping task.      *)
THEOREM NoLostWakeupInvariant == Spec => []NoLostWakeup
<1>1. Init => NoLostWakeup
  BY DEF Init, NoLostWakeup, MsgsFor
<1>2. /\ TypeOK /\ OneOwner /\ NoLostWakeup /\ [Next]_vars
      => NoLostWakeup'
  <2> SUFFICES ASSUME TypeOK, OneOwner, NoLostWakeup, [Next]_vars,
                      NEW u \in Tasks, MsgsFor(u)' # {}
               PROVE  Awake(u)'
    BY DEF NoLostWakeup
  <2> USE ConstAssumption
  <2>a. Distinct
    BY DEF OneOwner, Distinct
  <2>b. MsgsFor(u) # {} => Awake(u)
    BY DEF NoLostWakeup
  <2>c. UNCHANGED <<osal_qHead, dest_id>> => MsgsFor(u) # {}
    BY DEF MsgsFor
  <2>1. CASE ReceiveSome
    <3>1. PICK i \in MsgsFor(idx) :
            /\ tasksEvents' = IF MsgsFor(idx) # {i}
                              THEN osal_set_event(idx, SYS_EVENT_MSG)
                              ELSE osal_clear_event(idx, SYS_EVENT_MSG)
            /\ osal_qHead' = Extract(osal_qHead, i)
            /\ dest_id' = [dest_id EXCEPT ![osal_qHead[i]] = TASK_NO_TASK]
      BY <2>1, ZenonT(60) DEF ReceiveSome
    <3>2. MsgsFor(u) \ {i} # {}
      BY <2>a, <3>1, TakeOut, ZenonT(60) DEF MsgsFor
    <3>3. pc \in {"handler", "next"} /\ idx \in Tasks
      BY <2>1 DEF ReceiveSome, TypeOK
    <3>4. CASE u = idx
      BY <3>1, <3>2, <3>3, <3>4 DEF Awake, TypeOK
    <3>5. CASE u # idx
      BY <2>b, <3>1, <3>2, <3>3, <3>5 DEF Awake, TypeOK
    <3> QED
      BY <3>4, <3>5
  <2>2. CASE MsgSend
    <3>1. PICK m \in Sendable :
            SendNowhere(m) \/ SendRefused(m) \/ \E t \in Tasks : SendQueue(m, t)
      BY <2>2 DEF MsgSend
    <3>2. pc = "process" /\ tasksEvents' = tasksEvents
      BY <2>2 DEF MsgSend
    <3>3. CASE SendNowhere(m) \/ SendRefused(m)
      BY <2>b, <2>c, <3>2, <3>3 DEF SendNowhere, SendRefused, Awake
    <3>4. ASSUME NEW t \in Tasks, SendQueue(m, t) PROVE Awake(u)'
      <4>1. m \in Buffers /\ m \notin Queued
        BY <3>1, <3>4 DEF SendQueue, Sendable, OneOwner, TypeOK, Queued
      <4>2. u # t => MsgsFor(u) # {}
        BY <2>a, <3>4, <4>1, Enqueue DEF SendQueue
      <4> QED
        BY <2>b, <3>2, <3>4, <4>2 DEF SendQueue, Awake
    <3> QED
      BY <3>1, <3>3, <3>4
  <2>3. CASE IsrSend
    <3>1. PICK m \in heap, t \in Tasks :
            /\ dest_id' = [dest_id EXCEPT ![m] = t]
            /\ osal_qHead' = Append(osal_qHead, m)
            /\ tasksEvents' = osal_set_event(t, SYS_EVENT_MSG)
      BY <2>3 DEF IsrSend
    <3>2. m \in Buffers /\ m \notin Queued
      BY DEF OneOwner, TypeOK
    <3>3. u # t => MsgsFor(u) # {}
      BY <2>a, <3>1, <3>2, Enqueue
    <3>4. UNCHANGED <<pc, idx, events, sendTo>>
      BY <2>3 DEF IsrSend
    <3> QED
      BY <2>b, <3>1, <3>3, <3>4 DEF Awake, TypeOK
  <2>4. CASE ReceiveNone
    <3>1. u # idx /\ pc # "signal"
      BY <2>4, <2>c DEF ReceiveNone
    <3> QED
      BY <2>4, <2>b, <2>c, <3>1 DEF ReceiveNone, Awake, TypeOK
  <2>5. CASE Snapshot
    BY <2>5, <2>b, <2>c DEF Snapshot, Awake, TypeOK
  <2>6. CASE AddBack
    BY <2>6, <2>b, <2>c DEF AddBack, Awake, TypeOK
  <2>7. CASE HandleEvent
    BY <2>7, <2>b, <2>c DEF HandleEvent, Awake, TypeOK
  <2>8. CASE Signal
    BY <2>8, <2>b, <2>c DEF Signal, Awake, TypeOK
  <2>9. CASE SetEvent \/ IsrSetEvent
    <3>1. /\ UNCHANGED <<osal_qHead, dest_id, pc, idx, events, sendTo>>
          /\ \E t \in Tasks, e \in Evts : tasksEvents' = osal_set_event(t, e)
      BY <2>9 DEF SetEvent, IsrSetEvent
    <3>2. tasksEvents[u] \subseteq tasksEvents'[u]
      BY <3>1 DEF TypeOK
    <3> QED
      BY <2>b, <2>c, <3>1, <3>2 DEF Awake
  <2>10. CASE ScanMiss \/ ScanHit \/ PassOver \/ Done \/ UNCHANGED vars
    BY <2>10, <2>b, <2>c
       DEF ScanMiss, ScanHit, PassOver, Done, vars, Awake
  <2> QED
    BY <2>1, <2>2, <2>3, <2>4, <2>5, <2>6, <2>7, <2>8, <2>9, <2>10
       DEF Next, MainStep
<1> QED
  BY <1>1, <1>2, TypeCorrect, OneOwnerInvariant, PTL DEF Spec

-----------------------------------------------------------------------------
(* A handler is active between the snapshot and the put-back, and only     *)
(* then does the main thread keep a copy of events.                        *)
ActiveInv ==
  IF pc \in {"scan", "snapshot"}
  THEN activeTaskID = TASK_NO_TASK /\ events = {}
  ELSE activeTaskID = idx

LEMMA ActiveInvariant == Spec => []ActiveInv
<1>1. Init => ActiveInv
  BY DEF Init, ActiveInv
<1>2. ActiveInv /\ [Next]_vars => ActiveInv'
  BY DEF ActiveInv, Next, MainStep, ScanMiss, ScanHit, PassOver, Snapshot,
     AddBack, ReceiveSome, ReceiveNone, HandleEvent, Done, Signal, MsgSend,
     SendNowhere, SendRefused, SendQueue, SetEvent, IsrSend, IsrSetEvent, vars
<1> QED
  BY <1>1, <1>2, PTL DEF Spec

(* EventsConserved: an event leaves the pending events of a task only when *)
(* the handler of that task processes it.                                  *)
THEOREM EventsAreConserved == Spec => EventsConserved
<1> DEFINE Conserves ==
      \A t \in Tasks, e \in Evts :
        e \in PendingFor(t) /\ e \notin PendingFor(t)'
          => activeTaskID = t /\ pc = "handler"
<1>1. TypeOK /\ ActiveInv /\ [Next]_vars => Conserves
  <2> SUFFICES ASSUME TypeOK, ActiveInv, [Next]_vars, NEW t \in Tasks,
                      NEW e \in Evts, e \in PendingFor(t),
                      ~(activeTaskID = t /\ pc = "handler")
               PROVE  e \in PendingFor(t)'
    OBVIOUS
  <2> USE ConstAssumption
  <2>0. e # SYS_EVENT_MSG
    OBVIOUS
  <2>1. CASE Snapshot
    BY <2>1 DEF Snapshot, PendingFor, TypeOK, ActiveInv
  <2>2. CASE AddBack
    BY <2>2 DEF AddBack, PendingFor, TypeOK, ActiveInv
  <2>3. CASE ReceiveSome \/ ReceiveNone \/ Signal
    <3>1. /\ \A u \in Tasks : tasksEvents[u] \ {SYS_EVENT_MSG}
                                \subseteq tasksEvents'[u]
          /\ events \ {SYS_EVENT_MSG} \subseteq events'
          /\ activeTaskID' = activeTaskID
      BY <2>3, SMTT(40) DEF ReceiveSome, ReceiveNone, Signal, TypeOK
    <3> QED
      BY <2>0, <3>1 DEF PendingFor
  <2>4. CASE SetEvent \/ IsrSetEvent \/ IsrSend
    <3>1. /\ \A u \in Tasks : tasksEvents[u] \subseteq tasksEvents'[u]
          /\ UNCHANGED <<events, activeTaskID>>
      BY <2>4, SMTT(40) DEF SetEvent, IsrSetEvent, IsrSend, TypeOK
    <3> QED
      BY <3>1 DEF PendingFor
  <2>5. CASE HandleEvent
    BY <2>5 DEF HandleEvent, PendingFor, ActiveInv
  <2>6. CASE Done
    <3>1. /\ UNCHANGED <<tasksEvents, activeTaskID>>
          /\ events \ {SYS_EVENT_MSG} \subseteq events'
      BY <2>6 DEF Done
    <3> QED
      BY <2>0, <3>1 DEF PendingFor
  <2>7. CASE ScanMiss \/ ScanHit \/ PassOver \/ MsgSend \/ UNCHANGED vars
    BY <2>7 DEF ScanMiss, ScanHit, PassOver, MsgSend, vars, PendingFor
  <2> QED
    BY <2>1, <2>2, <2>3, <2>4, <2>5, <2>6, <2>7 DEF Next, MainStep
<1>2. TypeOK /\ ActiveInv /\ [Next]_vars => [Conserves]_vars
  BY <1>1
<1> QED
  BY <1>2, TypeCorrect, ActiveInvariant, PTL DEF Spec, EventsConserved

-----------------------------------------------------------------------------
(* The queue as one mailbox per task.  The box of a task is computed by    *)
(* recursion over the queue, so the lemmas below go by induction over the  *)
(* length of the part that was read.                                       *)

(* Every set of natural numbers that is not empty has a least element.     *)
LEMMA LeastNat ==
  ASSUME NEW T, T \subseteq Nat, T # {}
  PROVE  \E x \in T : \A y \in T : x <= y
<1> DEFINE Sets == {0 .. t : t \in T}
<1>1. Sets \subseteq FiniteSubsetsOf(Nat) /\ Sets # {}
  <2>1. \A t \in T : 0 .. t \in FiniteSubsetsOf(Nat)
    BY FS_Interval DEF FiniteSubsetsOf
  <2> QED
    BY <2>1
<1>2. PICK U \in Sets : \A V \in Sets : ~(<<V, U>> \in StrictSubsetOrdering(Nat))
  <2> HIDE DEF Sets
  <2> QED
    BY <1>1, WFMin, FS_StrictSubsetOrderingWellFounded
<1>3. PICK x \in T : U = 0 .. x
  OBVIOUS
<1>4. ASSUME NEW y \in T, y < x PROVE FALSE
  <2>1. <<0 .. y, 0 .. x>> \in StrictSubsetOrdering(Nat)
    BY <1>4 DEF StrictSubsetOrdering
  <2> QED
    BY <1>2, <1>3, <2>1
<1> QED
  BY <1>4

(* Induction from low to high: a set that holds low, and every number      *)
(* whose predecessor it holds, holds the whole interval.                   *)
LEMMA UpFrom ==
  ASSUME NEW low \in Nat, NEW high \in Nat, NEW G, low \in G,
         \A n \in low + 1 .. high : n - 1 \in G => n \in G
  PROVE  \A n \in low .. high : n \in G
<1> DEFINE T == {n \in low .. high : n \notin G}
<1> SUFFICES ASSUME T # {} PROVE FALSE
  OBVIOUS
<1>1. PICK x \in T : \A y \in T : x <= y
  <2>1. T \subseteq Nat
    OBVIOUS
  <2> HIDE DEF T
  <2> QED
    BY <2>1, LeastNat
<1>2. x \in low + 1 .. high /\ x - 1 \in low .. high /\ x - 1 < x
  BY <1>1
<1>3. x - 1 \in G
  BY <1>1, <1>2
<1> QED
  BY <1>1, <1>2, <1>3

(* box holds, at n, the messages for task t among the first n of q.        *)
IsBox(box, q, dest, t) ==
  /\ box[0] = <<>>
  /\ \A n \in 1 .. Len(q) :
       box[n] = IF dest[q[n]] = t THEN Append(box[n - 1], q[n])
                ELSE box[n - 1]

BoxStep(g, n, q, dest, t) ==
  IF n = 0 THEN <<>>
  ELSE IF dest[q[n]] = t THEN Append(g[n - 1], q[n]) ELSE g[n - 1]

LEMMA BoxExists ==
  ASSUME NEW q, Len(q) \in Nat, NEW dest, NEW t
  PROVE  \E g : g = [n \in 0 .. Len(q) |-> BoxStep(g, n, q, dest, t)]
<1> DEFINE G == {k \in 0 .. Len(q) :
                   \E g : g = [n \in 0 .. k |-> BoxStep(g, n, q, dest, t)]}
<1>1. 0 \in G
  <2> DEFINE g == [n \in 0 .. 0 |-> <<>>]
  <2>1. g = [n \in 0 .. 0 |-> BoxStep(g, n, q, dest, t)]
    BY DEF BoxStep
  <2> QED
    BY <2>1
<1>2. ASSUME NEW k \in 0 + 1 .. Len(q), k - 1 \in G PROVE k \in G
  <2>1. PICK g : g = [n \in 0 .. k - 1 |-> BoxStep(g, n, q, dest, t)]
    BY <1>2
  <2> DEFINE h == [n \in 0 .. k |-> IF n = k THEN BoxStep(g, k, q, dest, t)
                                    ELSE g[n]]
  <2>2. ASSUME NEW n \in 0 .. k
        PROVE  h[n] = BoxStep(h, n, q, dest, t)
    <3>1. n # 0 => n - 1 \in 0 .. k - 1 /\ h[n - 1] = g[n - 1]
      BY <1>2, <2>2
    <3>2. h[n] = BoxStep(g, n, q, dest, t)
      <4>1. CASE n = k
        BY <4>1
      <4>2. CASE n # k
        <5>1. n \in 0 .. k - 1
          BY <1>2, <4>2
        <5>2. h[n] = g[n]
          BY <4>2
        <5> HIDE DEF h
        <5> QED
          BY <2>1, <5>1, <5>2
      <4> QED
        BY <4>1, <4>2
    <3> HIDE DEF h
    <3> QED
      BY <3>1, <3>2 DEF BoxStep
  <2>3. h = [n \in 0 .. k |-> BoxStep(h, n, q, dest, t)]
    BY <2>2
  <2>4. k \in 0 .. Len(q)
    BY <1>2
  <2> QED
    BY <2>3, <2>4
<1>3. Len(q) \in 0 .. Len(q)
  OBVIOUS
<1> HIDE DEF G
<1>4. \A n \in 0 .. Len(q) : n \in G
  BY <1>1, <1>2, UpFrom
<1>5. Len(q) \in G
  BY <1>3, <1>4
<1> QED
  BY <1>5 DEF G

LEMMA BoxIsBox ==
  ASSUME NEW q, Len(q) \in Nat, NEW dest, NEW t
  PROVE  IsBox(Box(q, dest, t), q, dest, t)
<1> DEFINE b == Box(q, dest, t)
<1>1. b = [n \in 0 .. Len(q) |-> BoxStep(b, n, q, dest, t)]
  <2>1. b = CHOOSE g : g = [n \in 0 .. Len(q) |-> BoxStep(g, n, q, dest, t)]
    BY DEF Box, BoxStep
  <2> QED
    BY <2>1, BoxExists, SMTT(40)
<1> HIDE DEF b
<1>2. b[0] = <<>>
  BY <1>1 DEF BoxStep
<1>3. ASSUME NEW n \in 1 .. Len(q)
      PROVE  b[n] = IF dest[q[n]] = t THEN Append(b[n - 1], q[n]) ELSE b[n - 1]
  <2>1. n \in 0 .. Len(q) /\ n # 0
    OBVIOUS
  <2>2. b[n] = BoxStep(b, n, q, dest, t)
    BY <1>1, <2>1
  <2> QED
    BY <2>1, <2>2 DEF BoxStep
<1>4. IsBox(b, q, dest, t)
  BY <1>2, <1>3 DEF IsBox
<1> QED
  BY <1>4 DEF b

(* A box holds nothing but queued messages.                                *)
LEMMA BoxHolds ==
  ASSUME NEW S, NEW q \in Seq(S), NEW dest, NEW t, NEW box,
         IsBox(box, q, dest, t)
  PROVE  \A n \in 0 .. Len(q) : box[n] \in Seq({q[k] : k \in DOMAIN q})
<1> DEFINE M == {q[k] : k \in DOMAIN q}
           G == {n \in 0 .. Len(q) : box[n] \in Seq(M)}
<1>0. Len(q) \in Nat /\ DOMAIN q = 1 .. Len(q)
  OBVIOUS
<1>1. 0 \in G
  <2>1. box[0] = <<>> /\ 0 \in 0 .. Len(q)
    BY <1>0 DEF IsBox
  <2>2. <<>> \in Seq(M)
    OBVIOUS
  <2> QED
    BY <2>1, <2>2
<1>2. ASSUME NEW n \in 0 + 1 .. Len(q), n - 1 \in G PROVE n \in G
  <2>1. n \in 1 .. Len(q) /\ q[n] \in M /\ n \in 0 .. Len(q)
    BY <1>0, <1>2
  <2>2. box[n - 1] \in Seq(M)
    BY <1>2
  <2>3. box[n] = IF dest[q[n]] = t THEN Append(box[n - 1], q[n])
                 ELSE box[n - 1]
    BY <2>1 DEF IsBox
  <2> HIDE DEF M
  <2>4. box[n] \in Seq(M)
    BY <2>1, <2>2, <2>3
  <2> QED
    BY <2>1, <2>4
<1> HIDE DEF G
<1>3. \A n \in 0 .. Len(q) : n \in G
  BY <1>0, <1>1, <1>2, UpFrom
<1> QED
  BY <1>3 DEF G

(* Queues that agree on their first high messages fill the same boxes.     *)
Agree(q, dest, r, dst, t, high) ==
  \A n \in 1 .. high :
    q[n] = r[n] /\ (dest[q[n]] = t <=> dst[q[n]] = t)

LEMMA BoxSame ==
  ASSUME NEW q, NEW dest, NEW box, NEW r, NEW dst, NEW bx, NEW t,
         IsBox(box, q, dest, t), IsBox(bx, r, dst, t),
         Len(q) \in Nat, Len(r) \in Nat,
         NEW high \in Nat, high <= Len(q), high <= Len(r),
         Agree(q, dest, r, dst, t, high)
  PROVE  \A n \in 0 .. high : bx[n] = box[n]
<1> DEFINE G == {n \in 0 .. high : bx[n] = box[n]}
<1>1. 0 \in G
  BY DEF IsBox
<1>2. ASSUME NEW n \in 0 + 1 .. high, n - 1 \in G PROVE n \in G
  <2>1. n \in 1 .. Len(q) /\ n \in 1 .. Len(r) /\ n \in 1 .. high
    BY <1>2
  <2>2. bx[n - 1] = box[n - 1]
    BY <1>2
  <2>3. bx[n] = box[n]
    BY <2>1, <2>2 DEF IsBox, Agree
  <2> QED
    BY <2>1, <2>3
<1> HIDE DEF G
<1>3. \A n \in 0 .. high : n \in G
  BY <1>1, <1>2, UpFrom
<1> QED
  BY <1>3 DEF G

(* A queue with no message for the task before n fills nothing before n.   *)
LEMMA BoxEmpty ==
  ASSUME NEW q, NEW dest, NEW box, NEW t, IsBox(box, q, dest, t),
         Len(q) \in Nat, NEW high \in Nat, high <= Len(q),
         \A n \in 1 .. high : dest[q[n]] # t
  PROVE  \A n \in 0 .. high : box[n] = <<>>
<1> DEFINE G == {n \in 0 .. high : box[n] = <<>>}
<1>1. 0 \in G
  BY DEF IsBox
<1>2. ASSUME NEW n \in 0 + 1 .. high, n - 1 \in G PROVE n \in G
  <2>1. n \in 1 .. Len(q) /\ n \in 1 .. high /\ box[n - 1] = <<>>
    BY <1>2
  <2>2. box[n] = <<>>
    BY <2>1 DEF IsBox
  <2> QED
    BY <2>1, <2>2
<1> HIDE DEF G
<1>3. \A n \in 0 .. high : n \in G
  BY <1>1, <1>2, UpFrom
<1> QED
  BY <1>3 DEF G

(* The queue r is q without its message at position i, and the headers of  *)
(* the others are as they were.                                            *)
Without(q, dest, i, r, dst) ==
  /\ Len(q) \in Nat /\ i \in 1 .. Len(q) /\ Len(r) = Len(q) - 1
  /\ \A n \in 1 .. i - 1 : r[n] = q[n] /\ dst[q[n]] = dest[q[n]]
  /\ \A n \in i + 1 .. Len(q) :
       r[n - 1] = q[n] /\ dst[q[n]] = dest[q[n]]

(* Taking a message out of the queue leaves the boxes of the tasks it was  *)
(* not for as they were.                                                   *)
LEMMA BoxOther ==
  ASSUME NEW q, NEW dest, NEW box, NEW r, NEW dst, NEW bx, NEW t, NEW i,
         IsBox(box, q, dest, t), IsBox(bx, r, dst, t),
         Without(q, dest, i, r, dst), dest[q[i]] # t
  PROVE  bx[Len(r)] = box[Len(q)]
<1> DEFINE G == {n \in i .. Len(q) : bx[n - 1] = box[n]}
<1>0. /\ Len(q) \in Nat /\ i \in 1 .. Len(q) /\ Len(r) = Len(q) - 1
      /\ i \in Nat /\ i - 1 \in Nat /\ Len(r) \in Nat
      /\ i - 1 <= Len(q) /\ i - 1 <= Len(r)
  BY DEF Without
<1>1. i \in G
  <2>1. Agree(q, dest, r, dst, t, i - 1)
    BY DEF Without, Agree
  <2>2. \A n \in 0 .. i - 1 : bx[n] = box[n]
    BY <1>0, <2>1, BoxSame
  <2>3. i - 1 \in 0 .. i - 1
    BY <1>0
  <2>4. bx[i - 1] = box[i - 1]
    BY <2>2, <2>3
  <2>5. box[i] = box[i - 1]
    BY <1>0 DEF IsBox
  <2> QED
    BY <1>0, <2>4, <2>5
<1>2. ASSUME NEW n \in i + 1 .. Len(q), n - 1 \in G PROVE n \in G
  <2>1. /\ n \in 1 .. Len(q) /\ n - 1 \in 1 .. Len(r) /\ n \in i .. Len(q)
        /\ bx[(n - 1) - 1] = box[n - 1]
    BY <1>0, <1>2
  <2>2. r[n - 1] = q[n] /\ dst[q[n]] = dest[q[n]]
    BY <1>2 DEF Without
  <2>3. bx[n - 1] = box[n]
    BY <2>1, <2>2 DEF IsBox
  <2> QED
    BY <2>1, <2>3
<1>3. Len(q) \in i .. Len(q)
  BY <1>0
<1> HIDE DEF G
<1>4. \A n \in i .. Len(q) : n \in G
  BY <1>0, <1>1, <1>2, UpFrom
<1>5. Len(q) \in G
  BY <1>3, <1>4
<1> QED
  BY <1>0, <1>5 DEF G

(* Taking the first message of a task out of the queue takes the head of   *)
(* its box.                                                                *)
LEMMA BoxFirst ==
  ASSUME NEW S, NEW q, NEW dest, NEW box, NEW r \in Seq(S), NEW dst, NEW bx,
         NEW t, NEW i,
         IsBox(box, q, dest, t), IsBox(bx, r, dst, t),
         Without(q, dest, i, r, dst), dest[q[i]] = t, q[i] \in S,
         \A n \in 1 .. i - 1 : dest[q[n]] # t
  PROVE  /\ box[Len(q)] # <<>>
         /\ bx[Len(r)] = Tail(box[Len(q)])
<1> DEFINE G == {n \in i .. Len(q) : box[n] = <<q[i]>> \o bx[n - 1]}
<1>0. /\ Len(q) \in Nat /\ i \in 1 .. Len(q) /\ Len(r) = Len(q) - 1
      /\ i \in Nat /\ i - 1 \in Nat /\ Len(r) \in Nat
      /\ i - 1 <= Len(q) /\ i - 1 <= Len(r) /\ i - 1 \in 0 .. i - 1
  BY DEF Without
<1>b. \A n \in 0 .. Len(r) : bx[n] \in Seq(S)
  <2>1. \A n \in 0 .. Len(r) : bx[n] \in Seq({r[k] : k \in DOMAIN r})
    BY BoxHolds
  <2>2. {r[k] : k \in DOMAIN r} \subseteq S
    OBVIOUS
  <2>3. Seq({r[k] : k \in DOMAIN r}) \subseteq Seq(S)
    BY <2>2
  <2> QED
    BY <2>1, <2>3
<1>1. i \in G
  <2>1. box[i - 1] = <<>>
    BY <1>0, BoxEmpty
  <2>2. \A n \in 1 .. i - 1 : dst[r[n]] # t
    BY DEF Without
  <2>3. bx[i - 1] = <<>>
    BY <1>0, <2>2, BoxEmpty
  <2>4. box[i] = Append(<<>>, q[i])
    BY <1>0, <2>1 DEF IsBox
  <2>5. box[i] = <<q[i]>> \o bx[i - 1]
    BY <2>3, <2>4
  <2> QED
    BY <1>0, <2>5
<1>2. ASSUME NEW n \in i + 1 .. Len(q), n - 1 \in G PROVE n \in G
  <2>1. /\ n \in 1 .. Len(q) /\ n - 1 \in 1 .. Len(r) /\ n \in i .. Len(q)
        /\ box[n - 1] = <<q[i]>> \o bx[(n - 1) - 1]
        /\ (n - 1) - 1 \in 0 .. Len(r)
    BY <1>0, <1>2
  <2>2. r[n - 1] = q[n] /\ dst[q[n]] = dest[q[n]] /\ r[n - 1] \in S
    BY <1>2, <2>1 DEF Without
  <2>3. bx[n - 1] = IF dest[q[n]] = t THEN Append(bx[(n - 1) - 1], q[n])
                    ELSE bx[(n - 1) - 1]
    BY <2>1, <2>2, ZenonT(60) DEF IsBox
  <2>4. box[n] = IF dest[q[n]] = t THEN Append(box[n - 1], q[n])
                 ELSE box[n - 1]
    BY <2>1 DEF IsBox
  <2>5. bx[(n - 1) - 1] \in Seq(S) /\ q[n] \in S /\ <<q[i]>> \in Seq(S)
    BY <1>b, <2>1, <2>2
  <2>6. Append(<<q[i]>> \o bx[(n - 1) - 1], q[n])
        = <<q[i]>> \o Append(bx[(n - 1) - 1], q[n])
    BY <2>5, SMTT(40)
  <2>7. box[n] = <<q[i]>> \o bx[n - 1]
    BY <2>1, <2>3, <2>4, <2>6
  <2> QED
    BY <2>1, <2>7
<1>3. Len(q) \in i .. Len(q)
  BY <1>0
<1> HIDE DEF G
<1>4. \A n \in i .. Len(q) : n \in G
  BY <1>0, <1>1, <1>2, UpFrom
<1>5. box[Len(q)] = <<q[i]>> \o bx[Len(r)]
  <2>1. Len(q) \in G
    BY <1>3, <1>4
  <2> QED
    BY <1>0, <2>1 DEF G
<1>6. bx[Len(r)] \in Seq(S)
  BY <1>0, <1>b
<1>7. <<q[i]>> \o bx[Len(r)] # <<>> /\ Tail(<<q[i]>> \o bx[Len(r)]) = bx[Len(r)]
  BY <1>6
<1> QED
  BY <1>5, <1>7

-----------------------------------------------------------------------------
(* OSAL and its mailboxes.                                                 *)

(* Appending a message to the queue posts it in the box of its task.       *)
LEMMA PostStep ==
  ASSUME TypeOK, OneOwner, NEW m \in Buffers, m \notin Queued,
         NEW t \in Tasks,
         osal_qHead' = Append(osal_qHead, m),
         dest_id' = [dest_id EXCEPT ![m] = t]
  PROVE  Mailboxes!Post(t, m)
<1> DEFINE q == osal_qHead
           n == Len(q)
           Old(u) == Box(osal_qHead, dest_id, u)
           New(u) == Box(osal_qHead', dest_id', u)
<1>1. /\ n \in Nat /\ q \in Seq(Buffers) /\ DOMAIN q = 1 .. n
      /\ Len(q') = n + 1 /\ q'[n + 1] = m
      /\ \A k \in 1 .. n : q'[k] = q[k]
  BY DEF TypeOK
<1>2. \A k \in 1 .. n : q[k] \in Buffers /\ q[k] \in Queued /\ q[k] # m
  BY <1>1 DEF Queued
<1>3. dest_id'[m] = t /\ \A b \in Buffers : b # m => dest_id'[b] = dest_id[b]
  BY DEF TypeOK
<1>4. ASSUME NEW u \in Tasks
      PROVE  /\ IsBox(Old(u), q, dest_id, u)
             /\ IsBox(New(u), q', dest_id', u)
             /\ New(u)[n + 1] = IF u = t THEN Append(Old(u)[n], m)
                                ELSE Old(u)[n]
  <2>1. IsBox(Old(u), q, dest_id, u)
    BY <1>1, BoxIsBox
  <2>2. IsBox(New(u), q', dest_id', u)
    <3>1. Len(osal_qHead') \in Nat
      BY <1>1
    <3> QED
      BY <3>1, BoxIsBox
  <2> HIDE DEF q, n, Old, New
  <2>3. Agree(q, dest_id, q', dest_id', u, n)
    BY <1>1, <1>2, <1>3 DEF Agree
  <2>4. n <= Len(q) /\ n <= Len(q') /\ Len(q) \in Nat /\ Len(q') \in Nat
    BY <1>1 DEF n
  <2>5. \A k \in 0 .. n : New(u)[k] = Old(u)[k]
    <3>1. n \in Nat /\ Len(q) \in Nat /\ n <= Len(q)
      BY <1>1, <2>4
    <3>2. \A box, bx, r, dst :
            /\ IsBox(box, q, dest_id, u) /\ IsBox(bx, r, dst, u)
            /\ Len(r) \in Nat /\ n <= Len(r)
            /\ Agree(q, dest_id, r, dst, u, n)
            => \A k \in 0 .. n : bx[k] = box[k]
      BY <3>1, BoxSame
    <3> QED
      BY <2>1, <2>2, <2>3, <2>4, <3>2, Zenon
  <2>6. n \in 0 .. n /\ n + 1 \in 1 .. Len(q') /\ (n + 1) - 1 = n
    BY <1>1
  <2>7. New(u)[n + 1] = IF dest_id'[q'[n + 1]] = u
                        THEN Append(New(u)[(n + 1) - 1], q'[n + 1])
                        ELSE New(u)[(n + 1) - 1]
    BY <2>2, <2>6 DEF IsBox
  <2> QED
    BY <1>1, <1>3, <2>1, <2>2, <2>5, <2>6, <2>7
<1>5. ~Mailboxes!InSomeBox(m)
  <2> SUFFICES ASSUME NEW u \in Tasks, NEW j \in DOMAIN Old(u)[n],
                      Old(u)[n][j] = m
               PROVE  FALSE
    BY DEF Mailboxes!InSomeBox
  <2>1. n \in 0 .. n
    BY <1>1
  <2>2. Old(u)[n] \in Seq({q[k] : k \in DOMAIN q})
    <3>1. IsBox(Old(u), q, dest_id, u) /\ q \in Seq(Buffers) /\ Len(q) = n
      BY <1>1, <1>4
    <3> HIDE DEF Old, q, n
    <3>2. \A k \in 0 .. Len(q) : Old(u)[k] \in Seq({q[j1] : j1 \in DOMAIN q})
      BY <3>1, BoxHolds
    <3> QED
      BY <2>1, <3>1, <3>2
  <2>3. Old(u)[n][j] \in {q[k] : k \in DOMAIN q}
    <3> HIDE DEF Old
    <3> QED
      BY <2>2
  <2> QED
    BY <2>3 DEF Queued
<1>6. [u \in Tasks |-> New(u)[Len(q')]]
      = [[u \in Tasks |-> Old(u)[n]] EXCEPT ![t] = Append(@, m)]
  <2> HIDE DEF q, n, Old, New
  <2> QED
    BY <1>1, <1>4
<1> QED
  BY <1>5, <1>6 DEF Mailboxes!Post

(* Extracting the first message of a task takes the head of its box.       *)
LEMMA TakeStep ==
  ASSUME TypeOK, OneOwner, NEW t \in Tasks, NEW i \in MsgsFor(t),
         \A j \in MsgsFor(t) : i <= j,
         osal_qHead' = Extract(osal_qHead, i),
         dest_id' = [dest_id EXCEPT ![osal_qHead[i]] = TASK_NO_TASK]
  PROVE  Mailboxes!Take(t)
<1> DEFINE q == osal_qHead
           n == Len(q)
           Old(u) == Box(osal_qHead, dest_id, u)
           New(u) == Box(osal_qHead', dest_id', u)
<1>1. /\ n \in Nat /\ q \in Seq(Buffers) /\ DOMAIN q = 1 .. n
      /\ i \in 1 .. n /\ dest_id[q[i]] = t /\ q[i] \in Buffers
  BY DEF TypeOK, MsgsFor
<1>2. q' \in Seq(Buffers) /\ Len(q') = n - 1 /\ Len(q') \in Nat
  <2>1. q' \in Seq(Buffers) /\ Len(q') = n - 1
    BY <1>1, ExtractProps
  <2> QED
    BY <1>1, <2>1, SMTT(40)
<1>3. Without(q, dest_id, i, q', dest_id')
  <2>1. \A j \in 1 .. n - 1 : q'[j] = IF j < i THEN q[j] ELSE q[j + 1]
    <3>1. DOMAIN q' = 1 .. n - 1
      BY <1>2
    <3> QED
      BY <1>1, <3>1, ExtractProps, ZenonT(60)
  <2>2. \A j \in 1 .. n : j # i => q[j] # q[i] /\ q[j] \in Buffers
    BY <1>1 DEF OneOwner
  <2>3. \A b \in Buffers : b # q[i] => dest_id'[b] = dest_id[b]
    BY DEF TypeOK
  <2> HIDE DEF q
  <2>4. ASSUME NEW j \in 1 .. i - 1
        PROVE  q'[j] = q[j] /\ dest_id'[q[j]] = dest_id[q[j]]
    <3>1. j \in 1 .. n - 1 /\ j \in 1 .. n /\ j < i
      BY <1>1
    <3> QED
      BY <2>1, <2>2, <2>3, <3>1
  <2>5. ASSUME NEW j \in i + 1 .. n
        PROVE  q'[j - 1] = q[j] /\ dest_id'[q[j]] = dest_id[q[j]]
    <3>1. /\ j - 1 \in 1 .. n - 1 /\ j \in 1 .. n /\ j # i
          /\ ~(j - 1 < i) /\ (j - 1) + 1 = j
      BY <1>1
    <3> QED
      BY <2>1, <2>2, <2>3, <3>1
  <2> QED
    BY <1>1, <1>2, <2>4, <2>5 DEF Without
<1>4. ASSUME NEW u \in Tasks
      PROVE  IsBox(Old(u), q, dest_id, u) /\ IsBox(New(u), q', dest_id', u)
  <2>1. IsBox(Old(u), q, dest_id, u)
    BY <1>1, BoxIsBox
  <2>2. Len(osal_qHead') \in Nat
    BY <1>2
  <2> QED
    BY <2>1, <2>2, BoxIsBox
<1>5. ASSUME NEW u \in Tasks, u # t PROVE New(u)[Len(q')] = Old(u)[n]
  <2>1. dest_id[q[i]] # u
    BY <1>1, <1>5
  <2> HIDE DEF q, n, Old, New
  <2>2. New(u)[Len(q')] = Old(u)[Len(q)]
    <3>1. \A box, bx, r, dst :
            /\ IsBox(box, q, dest_id, u) /\ IsBox(bx, r, dst, u)
            /\ Without(q, dest_id, i, r, dst)
            => bx[Len(r)] = box[Len(q)]
      BY <2>1, BoxOther
    <3> QED
      BY <1>3, <1>4, <3>1, Zenon
  <2> QED
    BY <2>2 DEF n
<1>6. Old(t)[n] # <<>> /\ New(t)[Len(q')] = Tail(Old(t)[n])
  <2>1. \A j \in 1 .. i - 1 : dest_id[q[j]] # t
    <3> SUFFICES ASSUME NEW j \in 1 .. i - 1, dest_id[q[j]] = t PROVE FALSE
      OBVIOUS
    <3>1. j \in MsgsFor(t) /\ ~(i <= j)
      BY <1>1 DEF MsgsFor
    <3> QED
      BY <3>1
  <2> HIDE DEF q, n, Old, New
  <2>2. /\ Old(t)[Len(q)] # <<>>
        /\ New(t)[Len(q')] = Tail(Old(t)[Len(q)])
    <3>1. \A box, bx, dst : \A r \in Seq(Buffers) :
            /\ IsBox(box, q, dest_id, t) /\ IsBox(bx, r, dst, t)
            /\ Without(q, dest_id, i, r, dst)
            => /\ box[Len(q)] # <<>>
               /\ bx[Len(r)] = Tail(box[Len(q)])
      BY <1>1, <2>1, BoxFirst, SMTT(40)
    <3> QED
      BY <1>2, <1>3, <1>4, <3>1, Zenon
  <2> QED
    BY <2>2 DEF n
<1>7. [u \in Tasks |-> New(u)[Len(q')]]
      = [[u \in Tasks |-> Old(u)[n]] EXCEPT ![t] = Tail(@)]
  <2> HIDE DEF q, n, Old, New
  <2> QED
    BY <1>5, <1>6
<1> QED
  BY <1>6, <1>7 DEF Mailboxes!Take

(* The queue implements one first-in first-out mailbox per task: a message *)
(* is posted in the box of its task, a task takes the head of its box, and *)
(* nothing else, interrupts included, disturbs a box.                      *)
THEOREM QueueIsMailboxes == Spec => Mailboxes!Fifo
<1> DEFINE boxes == [t \in Tasks |-> Box(osal_qHead, dest_id, t)[Len(osal_qHead)]]
<1>1. Init => Mailboxes!Init
  <2> SUFFICES ASSUME Init PROVE Mailboxes!Init
    OBVIOUS
  <2>1. osal_qHead = <<>> /\ Len(osal_qHead) \in Nat /\ Len(osal_qHead) = 0
    BY DEF Init
  <2>2. ASSUME NEW t \in Tasks
        PROVE  Box(osal_qHead, dest_id, t)[Len(osal_qHead)] = <<>>
    <3>1. IsBox(Box(osal_qHead, dest_id, t), osal_qHead, dest_id, t)
      BY <2>1, BoxIsBox
    <3> QED
      BY <2>1, <3>1 DEF IsBox
  <2> QED
    BY <2>2 DEF Mailboxes!Init
<1>2. TypeOK /\ OneOwner /\ [Next]_vars => [Mailboxes!Next]_boxes
  <2> SUFFICES ASSUME TypeOK, OneOwner, [Next]_vars
               PROVE  Mailboxes!Next \/ UNCHANGED boxes
    OBVIOUS
  <2> USE ConstAssumption
  <2>a. ASSUME NEW m \in Buffers, NEW t \in Tasks, Mailboxes!Post(t, m)
        PROVE  Mailboxes!Next
    BY <2>a DEF Mailboxes!Next
  <2>1. CASE ReceiveSome
    <3>1. PICK i \in MsgsFor(idx) :
            /\ \A j \in MsgsFor(idx) : i <= j
            /\ osal_qHead' = Extract(osal_qHead, i)
            /\ dest_id' = [dest_id EXCEPT ![osal_qHead[i]] = TASK_NO_TASK]
      BY <2>1 DEF ReceiveSome
    <3>2. idx \in Tasks
      BY <2>1 DEF ReceiveSome, TypeOK
    <3>3. Mailboxes!Take(idx)
      BY <3>1, <3>2, TakeStep
    <3> QED
      BY <3>2, <3>3 DEF Mailboxes!Next
  <2>2. CASE MsgSend
    <3>1. PICK m \in Sendable :
            SendNowhere(m) \/ SendRefused(m) \/ \E t \in Tasks : SendQueue(m, t)
      BY <2>2 DEF MsgSend
    <3>2. CASE SendNowhere(m) \/ SendRefused(m)
      BY <3>2 DEF SendNowhere, SendRefused
    <3>3. ASSUME NEW t \in Tasks, SendQueue(m, t) PROVE Mailboxes!Next
      <4>1. m \in Buffers /\ m \notin Queued
        BY <3>1, <3>3 DEF SendQueue, Sendable, OneOwner, TypeOK, Queued
      <4>2. Mailboxes!Post(t, m)
        BY <3>3, <4>1, PostStep DEF SendQueue
      <4> QED
        BY <2>a, <4>1, <4>2
    <3> QED
      BY <3>1, <3>2, <3>3
  <2>3. CASE IsrSend
    <3>1. PICK m \in heap, t \in Tasks :
            /\ dest_id' = [dest_id EXCEPT ![m] = t]
            /\ osal_qHead' = Append(osal_qHead, m)
      BY <2>3 DEF IsrSend
    <3>2. m \in Buffers /\ m \notin Queued
      BY DEF OneOwner, TypeOK
    <3>3. Mailboxes!Post(t, m)
      BY <3>1, <3>2, PostStep
    <3> QED
      BY <2>a, <3>2, <3>3
  <2>4. CASE ~(ReceiveSome \/ MsgSend \/ IsrSend)
    <3>1. UNCHANGED <<osal_qHead, dest_id>>
      BY <2>4 DEF Next, MainStep, ScanMiss, ScanHit, PassOver, Snapshot,
         AddBack, ReceiveNone, HandleEvent, Done, Signal, SetEvent,
         IsrSetEvent, vars
    <3> QED
      BY <3>1
  <2> QED
    BY <2>1, <2>2, <2>3, <2>4
<1> QED
  BY <1>1, <1>2, TypeCorrect, OneOwnerInvariant, PTL
     DEF Spec, Mailboxes!Fifo
=============================================================================
