---------------------------- MODULE ZDApp_proofs ----------------------------
(***************************************************************************)
(* The ZigBee device object, for any surroundings, any number of retries,  *)
(* of messages that wait and of times the heap is full: the application is *)
(* informed, the device does not believe in a parent it lost, and a leave  *)
(* for good is one.                                                        *)
(***************************************************************************)
EXTENDS ZDApp, SequenceTheorems, TLAPS

MsgKinds == {"NWK_DISC_CNF", "NWK_JOIN_IND", "NWK_JOIN_REQ"}

(* What the arguments need of the types.                                   *)
Shapes ==
  /\ devState \in States /\ devStartMode \in {"JOIN", "REJOIN", "RESUME"}
  /\ nwkStatus \in BOOLEAN /\ attached \in BOOLEAN /\ lost \in BOOLEAN
  /\ msgs \in Seq(MsgKinds)
  /\ events \subseteq Events /\ timers \subseteq Events
  /\ nv \in [net : BOOLEAN, startNew : BOOLEAN, leave : Leave]
  /\ nwk \in Procedures \cup {"RESUME", "DISC", "idle"}

Waiting(m) == \E i \in 1 .. Len(msgs) : msgs[i] = m

(* The network layer has answered nothing that still waits; it has         *)
(* answered at most once.                                                  *)
NoAnswer == \A i \in 1 .. Len(msgs) : msgs[i] = "NWK_JOIN_REQ"
OneAnswer ==
  \A i, j \in 1 .. Len(msgs) :
    msgs[i] # "NWK_JOIN_REQ" /\ msgs[j] # "NWK_JOIN_REQ" => i = j
-----------------------------------------------------------------------------
(* The queue of the task.                                                  *)

(* What is sent comes behind what waits.                                   *)
LEMMA MsgSent ==
  ASSUME msgs \in Seq(MsgKinds), NEW m \in MsgKinds, NEW ok \in BOOLEAN,
         ZDApp_SendMsg(m, ok)
  PROVE  /\ msgs' \in Seq(MsgKinds)
         /\ \A x : Waiting(x) => Waiting(x)'
         /\ \A x : Waiting(x)' => Waiting(x) \/ x = m
         /\ ok => Waiting(m)'
         /\ NoAnswer => OneAnswer'
         /\ m = "NWK_JOIN_REQ" /\ NoAnswer => NoAnswer'
         /\ m = "NWK_JOIN_REQ" /\ OneAnswer => OneAnswer'
<1>1. Len(msgs) \in Nat
  BY LenProperties
<1>2. CASE ok
  <2>1. msgs' = Append(msgs, m)
    BY <1>2 DEF ZDApp_SendMsg
  <2>2. /\ msgs' \in Seq(MsgKinds) /\ Len(msgs') = Len(msgs) + 1
        /\ \A i \in 1 .. Len(msgs) : msgs'[i] = msgs[i]
        /\ msgs'[Len(msgs) + 1] = m
    BY <2>1, AppendProperties
  <2>3. \A i \in 1 .. Len(msgs') : i \in 1 .. Len(msgs) \/ i = Len(msgs) + 1
    BY <1>1, <2>2
  <2>4. \A i \in 1 .. Len(msgs) : i \in 1 .. Len(msgs')
    BY <1>1, <2>2
  <2>5. Len(msgs) + 1 \in 1 .. Len(msgs')
    BY <1>1, <2>2
  <2>6. \A x : Waiting(x) => Waiting(x)'
    BY <2>2, <2>4, Zenon DEF Waiting
  <2>7. \A x : Waiting(x)' => Waiting(x) \/ x = m
    BY <2>2, <2>3, Zenon DEF Waiting
  <2>8. Waiting(m)'
    BY <2>2, <2>5 DEF Waiting
  <2>9. NoAnswer => OneAnswer'
    BY <2>2, <2>3 DEF NoAnswer, OneAnswer
  <2>10. m = "NWK_JOIN_REQ" /\ NoAnswer => NoAnswer'
    BY <2>2, <2>3 DEF NoAnswer
  <2>11. m = "NWK_JOIN_REQ" /\ OneAnswer => OneAnswer'
    BY <2>2, <2>3 DEF OneAnswer
  <2> QED
    BY <2>2, <2>6, <2>7, <2>8, <2>9, <2>10, <2>11, Zenon
<1>3. CASE ~ok
  <2>1. msgs' = msgs
    BY <1>3 DEF ZDApp_SendMsg
  <2>2. \A x : Waiting(x)' <=> Waiting(x)
    BY <2>1 DEF Waiting
  <2>3. NoAnswer' = NoAnswer /\ OneAnswer' = OneAnswer
    BY <2>1 DEF NoAnswer, OneAnswer
  <2>4. NoAnswer => OneAnswer
    BY DEF NoAnswer, OneAnswer
  <2> QED
    BY <1>3, <2>1, <2>2, <2>3, <2>4, Zenon
<1> QED
  BY <1>2, <1>3, Zenon

(* What is handled is the first.                                           *)
LEMMA MsgTaken ==
  ASSUME msgs \in Seq(MsgKinds), msgs # <<>>, msgs' = Tail(msgs)
  PROVE  /\ msgs' \in Seq(MsgKinds)
         /\ Waiting(Head(msgs))
         /\ \A x : Waiting(x)' => Waiting(x)
         /\ \A x : Waiting(x) /\ Head(msgs) # x => Waiting(x)'
         /\ NoAnswer => NoAnswer'
         /\ OneAnswer => OneAnswer'
         /\ OneAnswer /\ Head(msgs) # "NWK_JOIN_REQ" => NoAnswer'
<1>1. /\ Len(msgs) \in Nat /\ Len(msgs) > 0
  BY LenProperties, EmptySeq
<1>2. /\ Head(msgs) = msgs[1]
      /\ msgs' \in Seq(MsgKinds) /\ Len(msgs') = Len(msgs) - 1
      /\ \A i \in 1 .. Len(msgs') : msgs'[i] = msgs[i + 1]
  BY HeadTailProperties
<1>3. \A i \in 1 .. Len(msgs') :
        i + 1 \in 1 .. Len(msgs) /\ i + 1 # 1 /\ i \in Int
  BY <1>1, <1>2
<1>4. 1 \in 1 .. Len(msgs)
  BY <1>1
<1>5. Waiting(Head(msgs))
  BY <1>2, <1>4 DEF Waiting
<1>6. \A x : Waiting(x)' => Waiting(x)
  BY <1>2, <1>3, Zenon DEF Waiting
<1>7. ASSUME NEW x, Waiting(x), Head(msgs) # x
      PROVE  Waiting(x)'
  <2>1. PICK i \in 1 .. Len(msgs) : msgs[i] = x
    BY <1>7 DEF Waiting
  <2>2. i # 1
    BY <1>2, <1>7, <2>1
  <2>3. i - 1 \in 1 .. Len(msgs') /\ (i - 1) + 1 = i
    BY <1>1, <1>2, <2>2
  <2>4. msgs'[i - 1] = x
    BY <1>2, <2>1, <2>3
  <2> QED
    BY <2>3, <2>4 DEF Waiting
<1>8. NoAnswer => NoAnswer'
  BY <1>2, <1>3 DEF NoAnswer
<1>9. OneAnswer => OneAnswer'
  <2> SUFFICES ASSUME OneAnswer, NEW i \in 1 .. Len(msgs'), NEW j \in 1 .. Len(msgs'),
                      msgs'[i] # "NWK_JOIN_REQ", msgs'[j] # "NWK_JOIN_REQ"
               PROVE  i = j
    BY DEF OneAnswer
  <2>1. i + 1 = j + 1
    BY <1>2, <1>3 DEF OneAnswer
  <2> QED
    BY <2>1
<1>10. OneAnswer /\ Head(msgs) # "NWK_JOIN_REQ" => NoAnswer'
  <2> SUFFICES ASSUME OneAnswer, Head(msgs) # "NWK_JOIN_REQ",
                      NEW i \in 1 .. Len(msgs')
               PROVE  msgs'[i] = "NWK_JOIN_REQ"
    BY DEF NoAnswer
  <2>1. msgs[i + 1] = "NWK_JOIN_REQ"
    BY <1>2, <1>3, <1>4 DEF OneAnswer
  <2> QED
    BY <1>2, <2>1
<1> QED
  BY <1>2, <1>5, <1>6, <1>7, <1>8, <1>9, <1>10, Zenon

(* A message of the ZDO is handled by one of three routines.               *)
LEMMA MsgCases ==
  ASSUME msgs \in Seq(MsgKinds), ZDApp_ProcessOSALMsg
  PROVE  /\ msgs' = Tail(msgs) /\ msgs # <<>>
         /\ UNCHANGED <<appVars, nv, boot, attached, air, left>>
         /\ \/ Head(msgs) = "NWK_DISC_CNF" /\ NetworkDiscovered
            \/ Head(msgs) = "NWK_JOIN_IND" /\ NetworkJoined
            \/ Head(msgs) = "NWK_JOIN_REQ" /\ ParentLost
<1>1. Head(msgs) \in MsgKinds
  BY DEF ZDApp_ProcessOSALMsg
<1> QED
  BY <1>1 DEF ZDApp_ProcessOSALMsg, MsgKinds

LEMMA OutcomesBoolean == Outcomes \subseteq BOOLEAN
BY DEF Outcomes

(* An attempt that is postponed starts at most the timer of the next one.  *)
LEMMA Postponed ==
  ASSUME lost \in BOOLEAN, RetryLater
  PROVE  /\ timers' \subseteq timers \cup {"NETWORK_INIT"}
         /\ lost' \in BOOLEAN /\ (lost => lost')
<1> PICK ok \in Outcomes : timers' = timers \cup Timer("NETWORK_INIT", ok) /\ Vital(ok)
  BY DEF RetryLater
<1>1. ok \in BOOLEAN
  BY OutcomesBoolean
<1> QED
  BY <1>1 DEF Timer, Vital

(* A request occupies the network layer only when it was idle.             *)
LEMMA Requested ==
  ASSUME lost \in BOOLEAN, NEW request, RequestOrRetry(request)
  PROVE  /\ nwk' = nwk \/ (nwk = "idle" /\ nwk' = request)
         /\ timers' \subseteq timers \cup {"NETWORK_INIT"}
         /\ lost' \in BOOLEAN /\ (lost => lost')
<1>1. PICK ok \in IF nwk = "idle" THEN Outcomes ELSE {FALSE} :
        \E timer \in IF Refused(ok) THEN BOOLEAN ELSE {TRUE} :
          /\ nwk' = IF ok THEN request ELSE nwk
          /\ timers' = timers \cup Timer("NETWORK_INIT", ~ok /\ timer)
          /\ lost' = (lost \/ ~timer)
  BY DEF RequestOrRetry
<1>2. ok \in BOOLEAN /\ (ok => nwk = "idle")
  BY <1>1, OutcomesBoolean
<1>3. timers' \subseteq timers \cup {"NETWORK_INIT"}
  BY <1>1 DEF Timer
<1>4. nwk' = nwk \/ (nwk = "idle" /\ nwk' = request)
  <2>1. nwk' = IF ok THEN request ELSE nwk
    BY <1>1
  <2> QED
    BY <1>2, <2>1
<1>5. lost' \in BOOLEAN /\ (lost => lost')
  BY <1>1
<1> QED
  BY <1>3, <1>4, <1>5

(* What becomes of the networks that were found.                           *)
LEMMA Discovered ==
  ASSUME Shapes, NetworkDiscovered
  PROVE  /\ UNCHANGED <<devStartMode, nwkStatus, events>>
         /\ \/ devState' = devState
            \/ devState = "NWK_DISC" /\ devState' \in {"JOINING", "REJOIN"}
         /\ nwk' = nwk \/ (nwk = "idle" /\ nwk' = devStartMode)
         /\ devState # "NWK_DISC" => UNCHANGED <<nwk, timers>>
         /\ timers' \subseteq timers \cup {"NETWORK_INIT"}
         /\ lost' \in BOOLEAN /\ (lost => lost')
<1>1. CASE devState # "NWK_DISC"
  <2>1. UNCHANGED <<joinVars, events, timers, nwk, heapVars>>
    BY <1>1 DEF NetworkDiscovered
  <2>2. /\ devState' = devState /\ devStartMode' = devStartMode
        /\ nwkStatus' = nwkStatus /\ events' = events /\ timers' = timers
        /\ nwk' = nwk /\ lost' = lost
    BY <2>1 DEF joinVars, heapVars
  <2> QED
    BY <1>1, <2>2 DEF Shapes
<1>2. CASE devState = "NWK_DISC" /\ Chosen
  <2>1. RequestOrRetry(devStartMode) /\ devState' \in {"JOINING", "REJOIN"}
    BY <1>2 DEF NetworkDiscovered
  <2>2. UNCHANGED <<devStartMode, nwkStatus, events>>
    BY <1>2 DEF NetworkDiscovered
  <2> QED
    BY <1>2, <2>1, <2>2, Requested DEF Shapes
<1>3. CASE devState = "NWK_DISC" /\ ~Chosen
  <2>1. RetryLater /\ devState' = devState /\ nwk' = nwk
    BY <1>3 DEF NetworkDiscovered
  <2>2. UNCHANGED <<devStartMode, nwkStatus, events>>
    BY <1>3 DEF NetworkDiscovered
  <2> QED
    BY <1>3, <2>1, <2>2, Postponed DEF Shapes
<1> QED
  BY <1>1, <1>2, <1>3

(* What becomes of a confirmation of a join.                               *)
LEMMA Confirmed ==
  ASSUME Shapes, NetworkJoined
  PROVE  /\ UNCHANGED <<nwk, nwkStatus>>
         /\ \/ UNCHANGED devState
            \/ /\ devState' = "END_DEVICE" /\ nwkStatus
               /\ devState \in {"JOINING", "ORPHAN", "REJOIN"}
         /\ \/ /\ events' = events \cup {"STATE_CHANGE"}
               /\ UNCHANGED <<devStartMode, timers>>
            \/ UNCHANGED <<devState, events>>
         /\ devState \notin {"JOINING", "ORPHAN", "REJOIN"} => UNCHANGED timers
         /\ devStartMode' \in {"JOIN", "REJOIN", "RESUME"}
         /\ devStartMode = "JOIN" => devStartMode' = "JOIN"
         /\ timers' \subseteq timers \cup {"NETWORK_INIT"}
         /\ lost' \in BOOLEAN /\ (lost => lost')
<1>1. CASE devState \in {"JOINING", "ORPHAN", "REJOIN"} /\ ~nwkStatus
  <2>1. JoinFailed /\ nwk' = nwk
    BY <1>1 DEF NetworkJoined
  <2>2. RetryLater /\ UNCHANGED <<devState, nwkStatus, events>>
    BY <2>1 DEF JoinFailed
  <2>3. /\ devStartMode' \in {"JOIN", "REJOIN", "RESUME"}
        /\ devStartMode = "JOIN" => devStartMode' = "JOIN"
    BY <2>1 DEF JoinFailed, ModeAfterFailure, Shapes
  <2> QED
    BY <1>1, <2>1, <2>2, <2>3, Postponed DEF Shapes
<1>2. CASE ~(devState \in {"JOINING", "ORPHAN", "REJOIN"} /\ ~nwkStatus)
  BY <1>2 DEF NetworkJoined, Shapes, heapVars
<1> QED
  BY <1>1, <1>2
-----------------------------------------------------------------------------
(* Shapes is preserved by every step.                                      *)
LEMMA ShapesInit == Init => Shapes
<1> SUFFICES ASSUME Init PROVE Shapes
  OBVIOUS
<1>1. msgs \in Seq(MsgKinds)
  BY EmptySeq DEF Init
<1> QED
  BY <1>1 DEF Init, Shapes, States, Events, Leave, Procedures

LEMMA ShapesStep == Shapes /\ [Next]_vars => Shapes'
<1> SUFFICES ASSUME Shapes, [Next]_vars PROVE Shapes'
  OBVIOUS
<1> USE DEF joinVars, taskVars, appVars, nwkVars, heapVars, vars
<1>1. ASSUME ZDApp_ProcessOSALMsg PROVE Shapes'
  <2>1. /\ msgs' \in Seq(MsgKinds)
        /\ UNCHANGED <<appVars, nv, boot, attached, air, left>>
        /\ NetworkDiscovered \/ NetworkJoined \/ ParentLost
    BY <1>1, MsgCases, MsgTaken DEF Shapes
  <2>2. CASE NetworkDiscovered
    <3>1. /\ devState' \in States /\ devStartMode' \in {"JOIN", "REJOIN", "RESUME"}
          /\ nwkStatus' \in BOOLEAN /\ lost' \in BOOLEAN
          /\ nwk' \in Procedures \cup {"RESUME", "DISC", "idle"}
      BY <2>2, Discovered DEF Shapes, States, Procedures
    <3>2. events' \subseteq Events /\ timers' \subseteq Events
      BY <2>2, Discovered DEF Shapes, Events
    <3> QED
      BY <2>1, <3>1, <3>2 DEF Shapes
  <2>3. CASE NetworkJoined
    BY <2>1, <2>3, Confirmed DEF Shapes, States, Events
  <2>4. CASE ParentLost
    BY <2>1, <2>4 DEF ParentLost, Shapes, Events
  <2> QED
    BY <2>1, <2>2, <2>3, <2>4
<1>2. ASSUME Restart PROVE Shapes'
  <2>1. msgs' \in Seq(MsgKinds)
    BY <1>2, EmptySeq DEF Restart
  <2> QED
    BY <1>2, <2>1 DEF Restart, ZDOInitDevice, Restores, Shapes, States, Events,
       Leave, Procedures
<1>3. ASSUME NetworkInit PROVE Shapes'
  BY <1>3, OutcomesBoolean DEF NetworkInit, RequestOrRetry, Timer, Shapes, States,
     Events, Procedures, Vital, Count
<1>4. ASSUME ZDO_NetworkDiscoveryConfirmCB PROVE Shapes'
  <2>1. msgs' \in Seq(MsgKinds)
    BY <1>4, MsgSent, OutcomesBoolean
       DEF ZDO_NetworkDiscoveryConfirmCB, Shapes, MsgKinds
  <2> QED
    BY <1>4, <2>1, OutcomesBoolean
       DEF ZDO_NetworkDiscoveryConfirmCB, Shapes, Vital, Procedures
<1>5. ASSUME ZDO_JoinConfirmCB PROVE Shapes'
  <2>1. msgs' \in Seq(MsgKinds)
    BY <1>5, MsgSent, OutcomesBoolean DEF ZDO_JoinConfirmCB, Shapes, MsgKinds
  <2> QED
    BY <1>5, <2>1, OutcomesBoolean
       DEF ZDO_JoinConfirmCB, Timer, Shapes, Vital, Procedures, States, Events
<1>6. ASSUME ZDO_SyncIndicationCB PROVE Shapes'
  <2>1. msgs' \in Seq(MsgKinds)
    BY <1>6, MsgSent, OutcomesBoolean DEF ZDO_SyncIndicationCB, Shapes, MsgKinds
  <2> QED
    BY <1>6, <2>1, OutcomesBoolean DEF ZDO_SyncIndicationCB, Shapes, Vital
<1>7. ASSUME ZDO_LeaveInd PROVE Shapes'
  BY <1>7, OutcomesBoolean DEF ZDO_LeaveInd, Timer, Vital, Shapes, Leave, Events
<1>8. ASSUME ZDO_UpdateNwkStatus PROVE Shapes'
  BY <1>8, OutcomesBoolean DEF ZDO_UpdateNwkStatus, Shapes
<1>9. ASSUME HoldOption \/ DeviceReset PROVE Shapes'
  BY <1>9 DEF HoldOption, DeviceReset, Shapes, Events
<1>10. ASSUME ZDApp_SaveNetworkStateEvt PROVE Shapes'
  BY <1>10 DEF ZDApp_SaveNetworkStateEvt, Shapes
<1>11. ASSUME \/ \E e \in Events : TimerExpires(e)
              \/ NetworkStateChanges \/ Environment \/ ApplicationReads
              \/ UNCHANGED vars
       PROVE  Shapes'
  BY <1>11 DEF TimerExpires, NetworkStateChanges, Environment, ApplicationReads,
     Shapes, Events
<1> QED
  BY <1>1, <1>2, <1>3, <1>4, <1>5, <1>6, <1>7, <1>8, <1>9, <1>10, <1>11
     DEF Next, Step, SystemResetSoft, PowerLoss

(* Every state has its types.                                              *)
THEOREM ShapesAlways == Spec => []Shapes
BY ShapesInit, ShapesStep, PTL DEF Spec

-----------------------------------------------------------------------------
(* What the application knows: whoever changes the answer sets the event,  *)
(* and the event goes when the message is on its way.                      *)
LEMMA InformedStep == Shapes /\ AppInformed /\ [Next]_vars => AppInformed'
<1> SUFFICES ASSUME Shapes, AppInformed, [Next]_vars PROVE AppInformed'
  OBVIOUS
<1> USE DEF joinVars, taskVars, appVars, nwkVars, heapVars, vars
<1>1. ASSUME ZDApp_ProcessOSALMsg PROVE AppInformed'
  <2>1. /\ UNCHANGED appVars
        /\ NetworkDiscovered \/ NetworkJoined \/ ParentLost
    BY <1>1, MsgCases DEF Shapes
  <2>2. CASE NetworkDiscovered
    <3>1. /\ events' = events
          /\ \/ devState' = devState
             \/ devState = "NWK_DISC" /\ devState' \in {"JOINING", "REJOIN"}
      BY <2>2, Discovered
    <3> QED
      BY <2>1, <3>1 DEF AppInformed, LastTold, Status
  <2>3. CASE NetworkJoined
    <3>1. "STATE_CHANGE" \in events' \/ (devState' = devState /\ events' = events)
      BY <2>3, Confirmed
    <3> QED
      BY <2>1, <3>1 DEF AppInformed, LastTold, Status
  <2>4. CASE ParentLost
    BY <2>1, <2>4 DEF ParentLost, AppInformed, LastTold, Status
  <2> QED
    BY <2>1, <2>2, <2>3, <2>4
<1>2. ASSUME Restart PROVE AppInformed'
  BY <1>2 DEF Restart, ZDOInitDevice, AppInformed, LastTold, Status
<1>3. ASSUME NetworkInit \/ HoldOption PROVE AppInformed'
  BY <1>3 DEF NetworkInit, HoldOption, AppInformed
<1>4. ASSUME ZDO_NetworkDiscoveryConfirmCB \/ ZDO_SyncIndicationCB \/ ZDO_LeaveInd
      PROVE  AppInformed'
  BY <1>4 DEF ZDO_NetworkDiscoveryConfirmCB, ZDO_SyncIndicationCB, ZDO_LeaveInd,
     AppInformed, LastTold, Status
<1>5. ASSUME ZDO_JoinConfirmCB PROVE AppInformed'
  BY <1>5 DEF ZDO_JoinConfirmCB, AppInformed, LastTold, Status
<1>6. ASSUME ZDO_UpdateNwkStatus PROVE AppInformed'
  <2>1. PICK ok \in IF told = "none" THEN Outcomes ELSE {TRUE} :
          /\ told' = IF ok THEN Status ELSE told
          /\ events' = IF ok THEN events \ {"STATE_CHANGE"} ELSE events
    BY <1>6 DEF ZDO_UpdateNwkStatus
  <2>2. "STATE_CHANGE" \in events /\ devState' = devState
    BY <1>6 DEF ZDO_UpdateNwkStatus, Takes
  <2>3. CASE ok
    BY <2>1, <2>2, <2>3 DEF AppInformed, LastTold, Status
  <2>4. CASE ~ok
    BY <2>1, <2>2, <2>4 DEF AppInformed
  <2> QED
    BY <2>3, <2>4
<1>7. ASSUME DeviceReset \/ ZDApp_SaveNetworkStateEvt PROVE AppInformed'
  BY <1>7 DEF DeviceReset, ZDApp_SaveNetworkStateEvt, Takes, AppInformed, LastTold, Status
<1>8. ASSUME \/ \E e \in Events : TimerExpires(e)
             \/ NetworkStateChanges \/ Environment \/ ApplicationReads
             \/ UNCHANGED vars
      PROVE  AppInformed'
  BY <1>8 DEF TimerExpires, NetworkStateChanges, Environment, ApplicationReads,
     AppInformed, LastTold, Status
<1> QED
  BY <1>1, <1>2, <1>3, <1>4, <1>5, <1>6, <1>7, <1>8
     DEF Next, Step, SystemResetSoft, PowerLoss

(* However messages are merged, dropped and repeated, the application      *)
(* knows the state of the device or is about to be told                    *)
(* (ZDO_UpdateNwkStatus).                                                  *)
THEOREM AlwaysInformed == Spec => []AppInformed
<1>1. Init => AppInformed
  BY DEF Init, AppInformed, LastTold, Status
<1> QED
  BY <1>1, InformedStep, ShapesAlways, PTL DEF Spec

-----------------------------------------------------------------------------
(* What the device believes.  The network layer works on one request at a  *)
(* time, so at most one of its answers waits and none while it works; so   *)
(* the parent of a device in the network, or of one whose confirmation     *)
(* still waits, is there or its loss is still to be handled.               *)
OneRequest ==
  /\ OneAnswer
  /\ nwk # "idle" => NoAnswer
  /\ devState = "END_DEVICE" => nwk = "idle"

Member == devState = "END_DEVICE" \/ (Waiting("NWK_JOIN_IND") /\ nwkStatus)
ParentOrSearch ==
  attached \/ "NETWORK_INIT" \in events \/ Waiting("NWK_JOIN_REQ")

Belief == OneRequest /\ (Member /\ ~lost => ParentOrSearch)

LEMMA AnswerWaits ==
  ASSUME NEW m, m # "NWK_JOIN_REQ", Waiting(m)
  PROVE  ~NoAnswer
BY DEF Waiting, NoAnswer

(* A step that leaves the queue and the answers alone keeps the belief, if *)
(* it takes nothing away.                                                  *)
LEMMA BeliefKept ==
  ASSUME Belief, UNCHANGED <<msgs, nwk>>, lost \in BOOLEAN, lost' \in BOOLEAN,
         lost => lost', nwkStatus' = nwkStatus,
         devState' = devState \/ devState' # "END_DEVICE",
         attached => attached',
         "NETWORK_INIT" \in events => "NETWORK_INIT" \in events'
  PROVE  Belief'
<1>1. /\ NoAnswer' = NoAnswer /\ OneAnswer' = OneAnswer
      /\ \A x : Waiting(x)' <=> Waiting(x)
  BY DEF NoAnswer, OneAnswer, Waiting
<1> QED
  BY <1>1 DEF Belief, OneRequest, Member, ParentOrSearch

LEMMA BeliefMessage == ASSUME Shapes, Belief, ZDApp_ProcessOSALMsg PROVE Belief'
<1>1. /\ msgs' = Tail(msgs) /\ msgs # <<>> /\ attached' = attached
      /\ \/ Head(msgs) = "NWK_DISC_CNF" /\ NetworkDiscovered
         \/ Head(msgs) = "NWK_JOIN_IND" /\ NetworkJoined
         \/ Head(msgs) = "NWK_JOIN_REQ" /\ ParentLost
  BY MsgCases DEF Shapes
<1>2. /\ Waiting(Head(msgs))
      /\ \A x : Waiting(x)' => Waiting(x)
      /\ \A x : Waiting(x) /\ Head(msgs) # x => Waiting(x)'
      /\ NoAnswer => NoAnswer'
      /\ OneAnswer'
      /\ Head(msgs) # "NWK_JOIN_REQ" => NoAnswer'
  BY <1>1, MsgTaken DEF Shapes, Belief, OneRequest
<1>3. CASE Head(msgs) = "NWK_DISC_CNF" /\ NetworkDiscovered
  <2>1. NoAnswer' /\ nwk = "idle"
    BY <1>2, <1>3, AnswerWaits DEF Belief, OneRequest
  <2>2. /\ nwkStatus' = nwkStatus /\ events' = events
        /\ \/ devState' = devState
           \/ devState = "NWK_DISC" /\ devState' \in {"JOINING", "REJOIN"}
        /\ devState # "NWK_DISC" => nwk' = nwk
        /\ lost' \in BOOLEAN /\ (lost => lost')
    BY <1>3, Discovered
  <2>3. OneRequest'
    BY <1>2, <2>1, <2>2 DEF OneRequest
  <2>4. Member' => Member
    BY <1>2, <2>2 DEF Member
  <2>5. ParentOrSearch => ParentOrSearch'
    BY <1>1, <1>2, <1>3, <2>2 DEF ParentOrSearch
  <2> QED
    BY <2>2, <2>3, <2>4, <2>5 DEF Belief, Shapes
<1>4. CASE Head(msgs) = "NWK_JOIN_IND" /\ NetworkJoined
  <2>1. NoAnswer' /\ nwk = "idle"
    BY <1>2, <1>4, AnswerWaits DEF Belief, OneRequest
  <2>2. /\ nwk' = nwk /\ nwkStatus' = nwkStatus
        /\ devState' = devState \/ nwkStatus
        /\ events \subseteq events'
        /\ lost' \in BOOLEAN /\ (lost => lost')
    BY <1>4, Confirmed
  <2>3. OneRequest'
    BY <1>2, <2>1, <2>2 DEF OneRequest
  <2>4. Member' => Member
    BY <1>2, <1>4, <2>2 DEF Member
  <2>5. ParentOrSearch => ParentOrSearch'
    BY <1>1, <1>2, <1>4, <2>2 DEF ParentOrSearch
  <2> QED
    BY <2>2, <2>3, <2>4, <2>5 DEF Belief, Shapes
<1>5. CASE ParentLost
  <2>1. /\ "NETWORK_INIT" \in events' /\ nwk' = nwk /\ devState' = devState
    BY <1>5 DEF ParentLost
  <2> QED
    BY <1>2, <2>1 DEF Belief, OneRequest, ParentOrSearch
<1> QED
  BY <1>1, <1>3, <1>4, <1>5

(* An answer of the network layer: it was at work, so nothing of it waits  *)
(* yet and the device is not in the network.                               *)
LEMMA BeliefAnswer ==
  ASSUME Shapes, Belief, nwk # "idle", nwk' = "idle",
         NEW m \in MsgKinds, NEW ok \in BOOLEAN, ZDApp_SendMsg(m, ok),
         devState' = devState \/ devState' # "END_DEVICE",
         m = "NWK_JOIN_IND" /\ nwkStatus' => attached'
  PROVE  Belief'
<1>1. NoAnswer /\ devState # "END_DEVICE"
  BY DEF Belief, OneRequest
<1>2. /\ OneAnswer'
      /\ \A x : Waiting(x)' => Waiting(x) \/ x = m
  BY <1>1, MsgSent DEF Shapes
<1>3. OneRequest'
  BY <1>1, <1>2 DEF OneRequest
<1>4. ~Waiting("NWK_JOIN_IND")
  BY <1>1, AnswerWaits
<1>5. Member' => attached'
  BY <1>1, <1>2, <1>4 DEF Member
<1> QED
  BY <1>3, <1>5 DEF Belief, ParentOrSearch

LEMMA BeliefDiscovery ==
  ASSUME Shapes, Belief, ZDO_NetworkDiscoveryConfirmCB PROVE Belief'
<1>1. PICK ok \in Outcomes : ZDApp_SendMsg("NWK_DISC_CNF", ok)
  BY DEF ZDO_NetworkDiscoveryConfirmCB
<1>2. ok \in BOOLEAN /\ "NWK_DISC_CNF" \in MsgKinds
  BY OutcomesBoolean DEF MsgKinds
<1>3. nwk # "idle" /\ nwk' = "idle" /\ devState' = devState
  BY DEF ZDO_NetworkDiscoveryConfirmCB, joinVars
<1> QED
  BY <1>1, <1>2, <1>3, BeliefAnswer

LEMMA BeliefJoin == ASSUME Shapes, Belief, ZDO_JoinConfirmCB PROVE Belief'
<1>1. PICK ok \in Outcomes : ZDApp_SendMsg("NWK_JOIN_IND", ok)
  BY DEF ZDO_JoinConfirmCB
<1>2. ok \in BOOLEAN /\ "NWK_JOIN_IND" \in MsgKinds
  BY OutcomesBoolean DEF MsgKinds
<1>3. /\ nwk # "idle" /\ nwk' = "idle" /\ attached' = nwkStatus'
      /\ devState' = devState \/ devState' # "END_DEVICE"
  BY DEF ZDO_JoinConfirmCB, Procedures
<1> QED
  BY <1>1, <1>2, <1>3, BeliefAnswer

(* The loss of a parent: what makes the device look for one again waits,   *)
(* unless it is dropped.                                                   *)
LEMMA BeliefSync == ASSUME Shapes, Belief, ZDO_SyncIndicationCB PROVE Belief'
<1>1. PICK ok \in Outcomes : ZDApp_SendMsg("NWK_JOIN_REQ", ok) /\ Vital(ok)
  BY DEF ZDO_SyncIndicationCB
<1>2. ok \in BOOLEAN /\ "NWK_JOIN_REQ" \in MsgKinds
  BY OutcomesBoolean DEF MsgKinds
<1>3. nwk' = nwk /\ devState' = devState
  BY DEF ZDO_SyncIndicationCB, joinVars
<1>4. /\ ok => Waiting("NWK_JOIN_REQ")'
      /\ NoAnswer => NoAnswer'
      /\ OneAnswer => OneAnswer'
  BY <1>1, <1>2, MsgSent DEF Shapes
<1>5. OneRequest'
  BY <1>3, <1>4 DEF Belief, OneRequest
<1>6. ~lost' => ok
  BY <1>1 DEF Vital
<1> QED
  BY <1>4, <1>5, <1>6 DEF Belief, ParentOrSearch

(* A request is made with an empty queue, and the device is then not in    *)
(* the network; likewise after a restart.                                  *)
LEMMA BeliefAnew ==
  ASSUME msgs' = <<>>, devState' # "END_DEVICE"
  PROVE  Belief'
<1>1. \A i \in 1 .. Len(msgs') : FALSE
  OBVIOUS
<1>2. NoAnswer' /\ OneAnswer' /\ \A x : ~Waiting(x)'
  BY <1>1 DEF NoAnswer, OneAnswer, Waiting
<1> QED
  BY <1>2 DEF Belief, OneRequest, Member

LEMMA BeliefInit == Init => Belief
<1> SUFFICES ASSUME Init PROVE Belief
  OBVIOUS
<1>1. msgs = <<>> /\ devState = "INIT" /\ nwk = "idle"
  BY DEF Init
<1>2. \A i \in 1 .. Len(msgs) : FALSE
  BY <1>1
<1>3. NoAnswer /\ OneAnswer /\ \A x : ~Waiting(x)
  BY <1>2 DEF NoAnswer, OneAnswer, Waiting
<1> QED
  BY <1>1, <1>3 DEF Belief, OneRequest, Member

LEMMA BeliefStep == Shapes /\ Belief /\ [Next]_vars => Belief'
<1> SUFFICES ASSUME Shapes, Belief, [Next]_vars PROVE Belief'
  OBVIOUS
<1> USE DEF joinVars, taskVars, appVars, nwkVars, heapVars, vars
<1>0. lost \in BOOLEAN /\ lost' \in BOOLEAN
  BY ShapesStep DEF Shapes
<1>1. ASSUME Restart PROVE Belief'
  <2>1. msgs' = <<>> /\ devState' # "END_DEVICE"
    BY <1>1 DEF Restart, ZDOInitDevice
  <2> QED
    BY <2>1, BeliefAnew
<1>2. ASSUME NetworkInit PROVE Belief'
  <2>1. msgs' = <<>> /\ devState' # "END_DEVICE"
    BY <1>2 DEF NetworkInit, Takes
  <2> QED
    BY <2>1, BeliefAnew
<1>3. ASSUME ZDO_LeaveInd PROVE Belief'
  <2>1. lost => lost'
    BY <1>3 DEF ZDO_LeaveInd, Vital
  <2>2. /\ UNCHANGED <<msgs, nwk>> /\ nwkStatus' = nwkStatus /\ devState' = devState
        /\ attached' = attached /\ events' = events
    BY <1>3 DEF ZDO_LeaveInd
  <2> QED
    BY <1>0, <2>1, <2>2, BeliefKept
<1>4. ASSUME HoldOption \/ DeviceReset PROVE Belief'
  BY <1>0, <1>4, BeliefKept DEF HoldOption, DeviceReset
<1>5. ASSUME ZDO_UpdateNwkStatus \/ ZDApp_SaveNetworkStateEvt PROVE Belief'
  <2>1. /\ UNCHANGED <<msgs, nwk>> /\ nwkStatus' = nwkStatus /\ devState' = devState
        /\ attached' = attached /\ lost' = lost
        /\ "NETWORK_INIT" \in events => "NETWORK_INIT" \in events'
    BY <1>5 DEF ZDO_UpdateNwkStatus, ZDApp_SaveNetworkStateEvt
  <2> QED
    BY <1>0, <2>1, BeliefKept
<1>6. ASSUME \/ \E e \in Events : TimerExpires(e)
             \/ NetworkStateChanges \/ Environment \/ ApplicationReads
             \/ UNCHANGED vars
      PROVE  Belief'
  <2>1. /\ UNCHANGED <<msgs, nwk>> /\ nwkStatus' = nwkStatus /\ devState' = devState
        /\ attached' = attached /\ lost' = lost /\ events \subseteq events'
    BY <1>6 DEF TimerExpires, NetworkStateChanges, Environment, ApplicationReads
  <2> QED
    BY <1>0, <2>1, BeliefKept
<1> QED
  BY <1>1, <1>2, <1>3, <1>4, <1>5, <1>6, BeliefMessage, BeliefDiscovery, BeliefJoin,
     BeliefSync DEF Next, Step, SystemResetSoft, PowerLoss

(* No order of confirmations and losses of a parent leaves the device in   *)
(* the belief that it is in the network without a parent and without       *)
(* looking for one (ZDApp_ProcessNetworkJoin, ZDO_SyncIndicationCB).       *)
THEOREM AlwaysBelievesRightly == Spec => []BelievesRightly
<1>1. Shapes /\ Belief => BelievesRightly
  BY LenProperties DEF Shapes, Belief, Member, ParentOrSearch, Waiting, BelievesRightly
<1> QED
  BY <1>1, BeliefInit, BeliefStep, ShapesAlways, PTL DEF Spec
-----------------------------------------------------------------------------
(* A leave for good.  Until the restart the leave stands in non-volatile   *)
(* memory; from the restart on either the device holds, with nothing that  *)
(* could make it start, or it joins anew; and the option that skips the    *)
(* restoration stays set, as only a membership would clear it.             *)
Holds == /\ devState = "HOLD" /\ msgs = <<>> /\ nwk = "idle"
         /\ "NETWORK_INIT" \notin events \cup timers

JoinsAnew == devStartMode = "JOIN" \/ Holds

Gone == /\ ~attached /\ "NWK_UPDATE_NV" \notin events \cup timers
        /\ ~Waiting("NWK_JOIN_REQ")
        /\ nv.startNew \/ boot = "hold"
        /\ nwk \in {"idle", "DISC", "JOIN"}
        /\ JoinsAnew

Departure == /\ left = "told" => nv.leave = "hold"
             /\ left = "gone" => Gone

LEMMA DepartureMessage ==
  ASSUME Shapes, Departure, ZDApp_ProcessOSALMsg PROVE Departure'
<1>1. /\ msgs' = Tail(msgs) /\ msgs # <<>>
      /\ UNCHANGED <<attached, nv, boot, left>>
      /\ \/ Head(msgs) = "NWK_DISC_CNF" /\ NetworkDiscovered
         \/ Head(msgs) = "NWK_JOIN_IND" /\ NetworkJoined
         \/ Head(msgs) = "NWK_JOIN_REQ" /\ ParentLost
  BY MsgCases DEF Shapes
<1>2. CASE left # "gone"
  BY <1>1, <1>2 DEF Departure
<1>3. CASE left = "gone"
  <2>1. Gone /\ devStartMode = "JOIN"
    BY <1>1, <1>3 DEF Departure, Gone, JoinsAnew, Holds
  <2>2. Waiting(Head(msgs)) /\ ~Waiting("NWK_JOIN_REQ")'
    BY <1>1, <2>1, MsgTaken DEF Shapes, Gone
  <2>3. Head(msgs) # "NWK_JOIN_REQ"
    BY <2>1, <2>2 DEF Gone
  <2>4. /\ devStartMode' = "JOIN" /\ nwk' \in {nwk, "JOIN"}
        /\ timers' \subseteq timers \cup {"NETWORK_INIT"}
        /\ events' \subseteq events \cup {"STATE_CHANGE"}
    <3>1. CASE NetworkDiscovered
      BY <2>1, <3>1, Discovered
    <3>2. CASE NetworkJoined
      BY <2>1, <3>2, Confirmed
    <3> QED
      BY <1>1, <2>3, <3>1, <3>2
  <2>5. Gone'
    BY <1>1, <2>1, <2>2, <2>4 DEF Gone, JoinsAnew
  <2> QED
    BY <1>1, <1>3, <2>5 DEF Departure
<1> QED
  BY <1>2, <1>3

(* The restart finds the leave, and holds; after that it finds the option, *)
(* and skips the restoration, unless the leave was forgotten.              *)
LEMMA DepartureRestart ==
  ASSUME Shapes, Departure, Restart PROVE Departure'
<1>1. PICK key \in BOOLEAN : ZDOInitDevice(key)
  BY DEF Restart
<1>2. /\ msgs' = <<>> /\ nwk' = "idle" /\ attached' = FALSE
      /\ left' = IF left = "told" THEN "gone"
                 ELSE IF Forgets THEN "forgotten" ELSE left
  BY DEF Restart
<1>3. ~Waiting("NWK_JOIN_REQ")'
  <2>1. \A i \in 1 .. Len(msgs') : FALSE
    BY <1>2
  <2> QED
    BY <2>1 DEF Waiting
<1>4. "NWK_UPDATE_NV" \notin events' \cup timers'
  BY <1>1 DEF ZDOInitDevice
<1>5. CASE left = "told"
  <2>1. nv.leave = "hold"
    BY <1>5 DEF Departure
  <2>2. boot' = "hold" /\ Holds'
    BY <1>1, <1>2, <2>1 DEF ZDOInitDevice, Holds
  <2> QED
    BY <1>2, <1>3, <1>4, <1>5, <2>2 DEF Departure, Gone, JoinsAnew
<1>6. CASE left = "gone" /\ ~Forgets
  <2>1. nv.startNew
    BY <1>6 DEF Departure, Gone, Forgets
  <2>2. devStartMode' = "JOIN" /\ nv'.startNew
    BY <1>1, <2>1 DEF ZDOInitDevice, Restores, Shapes
  <2> QED
    BY <1>2, <1>3, <1>4, <1>6, <2>2 DEF Departure, Gone, JoinsAnew
<1>7. CASE left \notin {"told", "gone"} \/ Forgets
  BY <1>2, <1>7 DEF Departure, Forgets
<1> QED
  BY <1>5, <1>6, <1>7

(* A join that succeeds ends the absence; one that fails changes nothing   *)
(* for it.                                                                 *)
LEMMA DepartureJoin ==
  ASSUME Shapes, Departure, ZDO_JoinConfirmCB PROVE Departure'
<1>1. PICK ok \in Outcomes : ZDApp_SendMsg("NWK_JOIN_IND", ok)
  BY DEF ZDO_JoinConfirmCB
<1>2. ok \in BOOLEAN /\ "NWK_JOIN_IND" \in MsgKinds
  BY OutcomesBoolean DEF MsgKinds
<1>3. \A x : Waiting(x)' => Waiting(x) \/ x = "NWK_JOIN_IND"
  BY <1>1, <1>2, MsgSent DEF Shapes
<1>4. /\ nwk \in Procedures /\ nwk' = "idle" /\ nv' = nv /\ boot' = boot
      /\ events' = events /\ devStartMode' = devStartMode
      /\ attached' = nwkStatus' /\ nwkStatus' \in BOOLEAN
      /\ timers' = timers \cup Timer("NWK_UPDATE_NV", nwkStatus')
      /\ left' = IF nwk = "JOIN" /\ nwkStatus' THEN "no" ELSE left
  BY DEF ZDO_JoinConfirmCB
<1>5. CASE left' # "gone"
  <2>1. left' = "told" => left = "told"
    BY <1>4
  <2> QED
    BY <1>4, <1>5, <2>1 DEF Departure
<1>6. CASE left' = "gone"
  <2>1. Gone /\ left = "gone"
    BY <1>4, <1>6 DEF Departure
  <2>2. nwk = "JOIN"
    BY <1>4, <2>1 DEF Gone, Procedures
  <2>3. nwkStatus' = FALSE /\ timers' = timers
    BY <1>4, <1>6, <2>2 DEF Timer
  <2>4. devStartMode = "JOIN"
    BY <2>1, <2>2 DEF Gone, JoinsAnew, Holds
  <2> QED
    BY <1>3, <1>4, <1>6, <2>1, <2>3, <2>4 DEF Departure, Gone, JoinsAnew
<1> QED
  BY <1>5, <1>6

(* A step that gives nothing back.                                         *)
LEMMA DepartureKept ==
  ASSUME Departure, UNCHANGED <<devStartMode, msgs, nwk, attached, left>>,
         devState' = devState,
         events' \subseteq events \cup timers \cup {"STATE_CHANGE"},
         timers' \subseteq timers,
         nv'.leave = nv.leave, nv.startNew => nv'.startNew,
         boot' = "hold" \/ (boot = "hold" => nv'.startNew)
  PROVE  Departure'
<1>1. Waiting("NWK_JOIN_REQ")' <=> Waiting("NWK_JOIN_REQ")
  BY DEF Waiting
<1>2. /\ Holds => Holds'
      /\ "NWK_UPDATE_NV" \notin events \cup timers
            => "NWK_UPDATE_NV" \notin events' \cup timers'
  BY DEF Holds
<1>3. Gone => Gone'
  BY <1>1, <1>2 DEF Gone, JoinsAnew
<1> QED
  BY <1>3 DEF Departure

LEMMA DepartureStep == Shapes /\ Departure /\ [Next]_vars => Departure'
<1> SUFFICES ASSUME Shapes, Departure, [Next]_vars PROVE Departure'
  OBVIOUS
<1> USE DEF joinVars, taskVars, appVars, nwkVars, heapVars, vars
<1>1. ASSUME SystemResetSoft \/ PowerLoss PROVE Departure'
  BY <1>1, DepartureRestart DEF SystemResetSoft, PowerLoss
<1>2. ASSUME NetworkInit PROVE Departure'
  <2>1. /\ UNCHANGED <<devStartMode, attached, nv, boot, left>> /\ msgs' = msgs
        /\ "NETWORK_INIT" \in events
        /\ events' = (events \ {"NETWORK_INIT"}) \cup {"STATE_CHANGE"}
        /\ RequestOrRetry(IF devStartMode = "RESUME" THEN "ORPHAN" ELSE "DISC")
    BY <1>2 DEF NetworkInit, Takes
  <2>2. CASE left # "gone"
    BY <2>1, <2>2 DEF Departure
  <2>3. CASE left = "gone"
    <3>1. Gone /\ devStartMode = "JOIN"
      BY <2>1, <2>3 DEF Departure, Gone, JoinsAnew, Holds
    <3>2. RequestOrRetry("DISC")
      BY <2>1, <3>1
    <3>3. /\ nwk' = nwk \/ (nwk = "idle" /\ nwk' = "DISC")
          /\ timers' \subseteq timers \cup {"NETWORK_INIT"}
      BY <3>2, Requested DEF Shapes
    <3>4. ~Waiting("NWK_JOIN_REQ")'
      BY <2>1, <3>1 DEF Gone, Waiting
    <3> QED
      BY <2>1, <2>3, <3>1, <3>3, <3>4 DEF Departure, Gone, JoinsAnew
  <2> QED
    BY <2>2, <2>3
<1>3. ASSUME ZDO_NetworkDiscoveryConfirmCB PROVE Departure'
  <2>1. PICK ok \in Outcomes : ZDApp_SendMsg("NWK_DISC_CNF", ok)
    BY <1>3 DEF ZDO_NetworkDiscoveryConfirmCB
  <2>2. ok \in BOOLEAN /\ "NWK_DISC_CNF" \in MsgKinds
    BY OutcomesBoolean DEF MsgKinds
  <2>3. \A x : Waiting(x)' => Waiting(x) \/ x = "NWK_DISC_CNF"
    BY <2>1, <2>2, MsgSent DEF Shapes
  <2>4. /\ nwk = "DISC" /\ nwk' = "idle" /\ devStartMode' = devStartMode
        /\ UNCHANGED <<attached, events, timers, nv, boot, left>>
    BY <1>3 DEF ZDO_NetworkDiscoveryConfirmCB
  <2> QED
    BY <2>3, <2>4 DEF Departure, Gone, JoinsAnew, Holds
<1>4. ASSUME ZDO_SyncIndicationCB \/ ZDO_LeaveInd \/ NetworkStateChanges
      PROVE  Departure'
  <2>1. left # "gone"
    BY <1>4 DEF ZDO_SyncIndicationCB, ZDO_LeaveInd, NetworkStateChanges, Departure, Gone
  <2>2. CASE ZDO_LeaveInd
    BY <2>1, <2>2 DEF ZDO_LeaveInd, Departure, Shapes
  <2>3. CASE ZDO_SyncIndicationCB \/ NetworkStateChanges
    BY <2>1, <2>3 DEF ZDO_SyncIndicationCB, NetworkStateChanges, Departure
  <2> QED
    BY <1>4, <2>2, <2>3
<1>5. ASSUME HoldOption \/ DeviceReset PROVE Departure'
  <2>1. nv'.startNew /\ nv'.leave = nv.leave
    BY <1>5 DEF HoldOption, DeviceReset, Shapes
  <2>2. /\ UNCHANGED <<devStartMode, msgs, nwk, attached, left>>
        /\ devState' = devState /\ timers' = timers
        /\ events' \subseteq events \cup {"STATE_CHANGE"}
    BY <1>5 DEF HoldOption, DeviceReset
  <2> QED
    BY <2>1, <2>2, DepartureKept
<1>6. ASSUME ZDApp_SaveNetworkStateEvt PROVE Departure'
  <2>1. left # "gone"
    BY <1>6 DEF ZDApp_SaveNetworkStateEvt, Takes, Departure, Gone
  <2> QED
    BY <1>6, <2>1 DEF ZDApp_SaveNetworkStateEvt, Departure, Shapes
<1>7. ASSUME \/ \E e \in Events : TimerExpires(e)
             \/ ZDO_UpdateNwkStatus \/ Environment \/ ApplicationReads
             \/ UNCHANGED vars
      PROVE  Departure'
  <2>1. /\ UNCHANGED <<devStartMode, msgs, nwk, attached, left>>
        /\ devState' = devState /\ nv' = nv /\ boot' = boot
        /\ timers' \subseteq timers
        /\ events' \subseteq events \cup timers
    BY <1>7 DEF TimerExpires, ZDO_UpdateNwkStatus, Environment, ApplicationReads
  <2> QED
    BY <2>1, DepartureKept
<1> QED
  BY <1>1, <1>2, <1>3, <1>4, <1>5, <1>6, <1>7, DepartureMessage, DepartureJoin
     DEF Next, Step

(* A device that was told to leave for good does not come back to that     *)
(* network, wherever and however often the power is lost, inside           *)
(* ZDOInitDevice, too, with one exception: the power was lost before the   *)
(* reset wrote the option, and again between the two writes of the next    *)
(* power-up (ZDO_LeaveInd, ZDApp_LeaveCtrlStartup, ZDOInitDevice).         *)
THEOREM LeftAlwaysStaysOut == Spec => []LeftStaysOut
<1>1. Init => Departure
  BY DEF Init, Departure
<1>2. Departure => LeftStaysOut
  BY DEF Departure, Gone, JoinsAnew, Holds, LeftStaysOut
<1> QED
  BY <1>1, <1>2, DepartureStep, ShapesAlways, PTL DEF Spec
=============================================================================
