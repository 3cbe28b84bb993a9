------------------------------- MODULE ZDApp --------------------------------
(***************************************************************************)
(* The ZigBee device object of an end device without security (ZDApp.c     *)
(* with ZDO_StartDevice and ZDO_UpdateNwkStatus of ZDObject.c): it finds,  *)
(* joins, leaves and comes back to a network, keeps the network over a     *)
(* restart, and tells the application the state of the device.             *)
(*                                                                         *)
(* The network layer is a library: it takes one request at a time, answers *)
(* each one it accepted once, and reports the loss of a parent it had.     *)
(* A full heap makes it refuse a request, drops a message of the ZDO or    *)
(* prevents the start of a timer.                                          *)
(***************************************************************************)
EXTENDS Naturals, Sequences

CONSTANTS Airs,                \* what the networks in range may accept
          MAX_RESUME_RETRY,    \* 3
          NUM_DISC_ATTEMPTS,   \* 2
          CounterSize,         \* 256: the values of a counter of one byte
          MaxFaults,           \* bound on the times the heap is full
          MaxMsgs              \* bound on the messages that wait

Procedures == {"JOIN", "REJOIN", "ORPHAN"}

ASSUME ZDAppAssumption ==
  /\ Airs \subseteq SUBSET Procedures /\ Airs # {}
  /\ MAX_RESUME_RETRY \in Nat \ {0} /\ NUM_DISC_ATTEMPTS \in Nat \ {0}
  /\ CounterSize \in Nat /\ CounterSize > NUM_DISC_ATTEMPTS + 1
  /\ CounterSize > MAX_RESUME_RETRY
  /\ MaxFaults \in Nat /\ MaxMsgs \in Nat \ {0}

VARIABLES devState, devStartMode, nwkStatus, retryCnt, zdoDiscCounter,
          msgs,        \* messages of the ZDO in the OSAL queue
          draining,    \* the event loop is in its receive loop
          events, timers,
          told,        \* the ZDO_STATE_CHANGE message that waits, "none"
          appState,    \* what the application was told last
          nv,          \* non-volatile memory
          boot,        \* ZDOInitDevice has a write left: "hold"
          nwk,         \* the request the network layer works on, "idle"
          attached,    \* the network layer has a parent
          air,         \* what the networks in range accept now
          faults,      \* times the heap was full
          lost,        \* a message or a start of a timer was dropped
          left         \* history: told to leave for good, "no", "told",
                       \* "gone", or "forgotten" in a power-up cut short

joinVars == <<devState, devStartMode, nwkStatus, retryCnt, zdoDiscCounter>>
taskVars == <<msgs, draining, events, timers>>
appVars  == <<told, appState>>
nwkVars  == <<nwk, attached, air>>
heapVars == <<faults, lost>>
vars == <<joinVars, taskVars, appVars, nv, boot, nwkVars, heapVars, left>>

States == {"INIT", "HOLD", "NWK_DISC", "JOINING", "REJOIN", "ORPHAN",
           "END_DEVICE"}
Events == {"NETWORK_INIT", "STATE_CHANGE", "NWK_UPDATE_NV", "DEVICE_RESET"}
Leave  == {"none", "hold", "rejoin"}      \* ZDApp_LeaveCtrl

\* what the application makes of the state of the device
Status == IF devState = "END_DEVICE" THEN "in" ELSE "out"

-----------------------------------------------------------------------------
(* What may fail for want of memory.                                       *)
Outcomes == IF faults < MaxFaults THEN BOOLEAN ELSE {TRUE}
Count(ok) == faults' = IF ok THEN faults ELSE faults + 1
Vital(ok) == Count(ok) /\ lost' = (lost \/ ~ok)

ZDApp_SendMsg(m, ok) == msgs' = IF ok THEN Append(msgs, m) ELSE msgs
Timer(e, ok) == IF ok THEN {e} ELSE {}

(* A request that is accepted keeps the network layer busy; one that is    *)
(* refused is repeated, if there is memory for the timer.                  *)
Refused(ok) == ~ok /\ nwk = "idle"
RequestOrRetry(request) ==
  \E ok \in IF nwk = "idle" THEN Outcomes ELSE {FALSE} :
    \E timer \in IF Refused(ok) THEN BOOLEAN ELSE {TRUE} :
      /\ nwk' = IF ok THEN request ELSE nwk
      /\ timers' = timers \cup Timer("NETWORK_INIT", ~ok /\ timer)
      /\ Count(~Refused(ok)) /\ lost' = (lost \/ ~timer)

-----------------------------------------------------------------------------
(* Power-up (ZDApp_Init, ZDOInitDevice).                                   *)

\* the power key, held during power-up, skips the restoration
Restores(key) == ~key /\ ~nv.startNew /\ nv.net

(* The option is cleared only after a join, so without a restoration the   *)
(* network state is wiped unless there was none.                           *)
ZDOInitDevice(key) ==
  LET hold == nv.leave = "hold"
  IN  /\ devState' = IF hold THEN "HOLD" ELSE "INIT"
      /\ devStartMode' = IF Restores(key) THEN "RESUME" ELSE "JOIN"
      /\ nv' = [nv EXCEPT !.leave = "none", !.net = Restores(key)]
      /\ boot' = IF hold THEN "hold" ELSE "done"
      /\ events' = IF ~hold /\ Restores(key) THEN {"NETWORK_INIT"} ELSE {}
      /\ timers' = IF ~hold /\ ~Restores(key) THEN {"NETWORK_INIT"} ELSE {}

\* the second write, after that of ZDApp_LeaveCtrlReset
HoldOption ==
  /\ boot = "hold"
  /\ nv' = [nv EXCEPT !.startNew = TRUE]
  /\ boot' = "done"
  /\ events' = events \cup {"STATE_CHANGE"}
  /\ UNCHANGED <<joinVars, msgs, draining, timers, appVars, nwkVars, heapVars,
                 left>>

(* The leave is forgotten by a power-up that is cut off between its two    *)
(* writes, if the option was not written by DeviceReset before.            *)
Forgets == left = "gone" /\ boot = "hold" /\ ~nv.startNew

Restart ==
  /\ \E key \in BOOLEAN : ZDOInitDevice(key)
  /\ nwkStatus' = TRUE /\ retryCnt' = 0 /\ zdoDiscCounter' = 1
  /\ msgs' = <<>> /\ draining' = FALSE
  /\ told' = "none" /\ appState' = "out"
  /\ nwk' = "idle" /\ attached' = FALSE
  /\ lost' = FALSE
  /\ left' = IF left = "told" THEN "gone" ELSE IF Forgets THEN "forgotten" ELSE left
  /\ UNCHANGED <<air, faults>>

(* At any moment; in a reset that has begun it changes nothing.            *)
PowerLoss == boot # "reset" /\ Restart

Init ==
  /\ devState = "INIT" /\ devStartMode = "JOIN" /\ nwkStatus = TRUE
  /\ retryCnt = 0 /\ zdoDiscCounter = 1
  /\ msgs = <<>> /\ draining = FALSE
  /\ events = {} /\ timers = {"NETWORK_INIT"}
  /\ told = "none" /\ appState = "out"
  /\ nv = [net |-> FALSE, startNew |-> FALSE, leave |-> "none"]
  /\ boot = "done"
  /\ nwk = "idle" /\ attached = FALSE /\ air \in Airs
  /\ faults = 0 /\ lost = FALSE
  /\ left = "no"

-----------------------------------------------------------------------------
(* Callbacks of the network layer.  They run in its task, never inside the *)
(* event loop of the ZDO.                                                  *)
Idle == ~draining /\ boot = "done"

ZDO_NetworkDiscoveryConfirmCB ==
  /\ Idle /\ nwk = "DISC" /\ Len(msgs) < MaxMsgs
  /\ \E ok \in Outcomes : ZDApp_SendMsg("NWK_DISC_CNF", ok) /\ Vital(ok)
  /\ nwk' = "idle"
  /\ UNCHANGED <<joinVars, draining, events, timers, appVars, nv, boot,
                 attached, air, left>>

\* Mutant: the confirmation is not remembered.
ZDO_JoinConfirmCB_noStatus ==
  /\ Idle /\ nwk \in Procedures /\ Len(msgs) < MaxMsgs
  /\ \E ok \in Outcomes :
       ZDApp_SendMsg("NWK_JOIN_IND", ok) /\ Vital(ok)
  /\ timers' = timers \cup Timer("NWK_UPDATE_NV", nwk \in air)
  /\ attached' = (nwk \in air)
  /\ nwk' = "idle"
  /\ UNCHANGED <<joinVars, draining, events, appVars, nv, boot, air, left>>

(* The answer to a join, a rejoin or an orphan scan.  A message that is    *)
(* dropped leaves the ZDO in the state in which it waits for it.           *)
ZDO_JoinConfirmCB ==
  /\ Idle /\ nwk \in Procedures /\ Len(msgs) < MaxMsgs
  /\ nwkStatus' = (nwk \in air)
  /\ devState' = IF nwkStatus' /\ devState = "HOLD" THEN "JOINING" ELSE devState
  /\ \E ok \in Outcomes :
       ZDApp_SendMsg("NWK_JOIN_IND", ok) /\ Vital(ok)
  /\ timers' = timers \cup Timer("NWK_UPDATE_NV", nwkStatus')
  /\ attached' = nwkStatus'
  /\ nwk' = "idle"
  /\ left' = IF nwk = "JOIN" /\ nwkStatus' THEN "no" ELSE left
  /\ UNCHANGED <<devStartMode, retryCnt, zdoDiscCounter, draining, events,
                 appVars, nv, boot, air>>

(* The parent does not answer any more.                                    *)
ZDO_SyncIndicationCB ==
  /\ Idle /\ attached /\ Len(msgs) < MaxMsgs
  /\ \E ok \in Outcomes : ZDApp_SendMsg("NWK_JOIN_REQ", ok) /\ Vital(ok)
  /\ attached' = FALSE
  /\ UNCHANGED <<joinVars, draining, events, timers, appVars, nv, boot, nwk,
                 air, left>>

(* ZDO_AddrChangeIndicationCB, ZDApp_NwkStateUpdateCB: the network state   *)
(* is to be saved again; a timer that runs starts anew.                    *)
NetworkStateChanges ==
  /\ Idle /\ attached
  /\ timers' = timers \cup {"NWK_UPDATE_NV"}
  /\ events' \in {events, events \cup {"STATE_CHANGE"}}
  /\ UNCHANGED <<joinVars, msgs, draining, appVars, nv, boot, nwkVars,
                 heapVars, left>>

\* Mutant: the leave is not written.
ZDO_LeaveInd_volatile ==
  /\ Idle /\ attached
  /\ \E rejoin \in BOOLEAN :
       left' = IF rejoin THEN "no" ELSE "told"
  /\ \E ok \in Outcomes :
       timers' = timers \cup Timer("DEVICE_RESET", ok) /\ Vital(ok)
  /\ UNCHANGED <<joinVars, msgs, draining, events, appVars, nv, boot, nwkVars>>

(* ZDO_LeaveInd, ZDO_LeaveCnf: the leave is remembered over the restart.   *)
ZDO_LeaveInd ==
  /\ Idle /\ attached
  /\ \E rejoin \in BOOLEAN :
       /\ nv' = [nv EXCEPT !.leave = IF rejoin THEN "rejoin" ELSE "hold"]
       /\ left' = IF rejoin THEN "no" ELSE "told"
  /\ \E ok \in Outcomes :
       timers' = timers \cup Timer("DEVICE_RESET", ok) /\ Vital(ok)
  /\ UNCHANGED <<joinVars, msgs, draining, events, appVars, boot, nwkVars>>

Environment ==
  /\ air' \in Airs \ {air}
  /\ UNCHANGED <<joinVars, taskVars, appVars, nv, boot, nwk, attached,
                 heapVars, left>>

TimerExpires(e) ==
  /\ Idle /\ e \in timers
  /\ timers' = timers \ {e} /\ events' = events \cup {e}
  /\ UNCHANGED <<joinVars, msgs, draining, appVars, nv, boot, nwkVars,
                 heapVars, left>>

-----------------------------------------------------------------------------
(* ZDApp_event_loop: all messages first (ZDApp_ProcessOSALMsg).            *)

\* ZDApp_NetworkInit with a delay
RetryLater == \E ok \in Outcomes :
                timers' = timers \cup Timer("NETWORK_INIT", ok) /\ Vital(ok)

\* The first networks that are found are not used: more beacons are collected.
\* Which of them the configured or the last PAN allows (ZDApp.c:2033-2047) is
\* part of what air says of the networks in range.
Chosen == air \cap {"JOIN", "REJOIN"} # {} /\ zdoDiscCounter > NUM_DISC_ATTEMPTS

NetworkDiscovered ==
  IF devState # "NWK_DISC" THEN UNCHANGED <<joinVars, events, timers, nwk, heapVars>>
  ELSE
  /\ UNCHANGED <<devStartMode, nwkStatus, retryCnt, events>>
  /\ \/ /\ Chosen
        /\ devState' = IF devStartMode = "JOIN" THEN "JOINING" ELSE "REJOIN"
        /\ RequestOrRetry(devStartMode)
        /\ UNCHANGED zdoDiscCounter
     \/ /\ ~Chosen
        /\ zdoDiscCounter' = (zdoDiscCounter + 1) % CounterSize
        /\ RetryLater
        /\ UNCHANGED <<devState, nwk>>

\* from an orphan scan to a rejoin, and, the code says, to a normal join
ModeAfterFailure ==
  IF devStartMode = "RESUME" /\ retryCnt' <= MAX_RESUME_RETRY THEN "REJOIN"
  ELSE IF devStartMode = "RESUME" THEN "JOIN" ELSE devStartMode

CountRetry == retryCnt' = IF devStartMode = "RESUME" THEN retryCnt + 1 ELSE retryCnt

\* Mutant: a failure is not followed by another attempt.
JoinFailed_givesUp ==
  /\ CountRetry
  /\ devStartMode' = ModeAfterFailure
  /\ zdoDiscCounter' = zdoDiscCounter
  /\ UNCHANGED <<devState, nwkStatus, events, timers, heapVars>>

(* The branches for a device that has no PAN id (ZDApp.c:1420, 1493) and   *)
(* for one that may not join insecurely (1502) are not taken here: a       *)
(* device that resumes has the PAN of its last network.                    *)
JoinFailed ==
  /\ CountRetry
  /\ devStartMode' =
       CASE devState # "JOINING" -> ModeAfterFailure
         [] devState = "JOINING" /\ devStartMode = "RESUME"
              /\ retryCnt' >= MAX_RESUME_RETRY -> "REJOIN"
         [] OTHER -> devStartMode
  /\ zdoDiscCounter' = IF devState = "JOINING" THEN 1 ELSE zdoDiscCounter
  /\ RetryLater
  /\ UNCHANGED <<devState, nwkStatus, events>>

(* ZDApp_ProcessNetworkJoin.  A confirmation that is not waited for is     *)
(* taken for a change of the address.                                      *)
NetworkJoined ==
  /\ UNCHANGED nwk
  /\ IF devState \in {"JOINING", "ORPHAN", "REJOIN"} /\ ~nwkStatus THEN JoinFailed
     ELSE /\ devState' = IF devState \in {"JOINING", "ORPHAN", "REJOIN"}
                         THEN "END_DEVICE" ELSE devState
          /\ events' = events \cup {"STATE_CHANGE"}
          /\ UNCHANGED <<devStartMode, nwkStatus, retryCnt, zdoDiscCounter,
                         timers, heapVars>>

ParentLost ==
  /\ retryCnt' = 0
  /\ devStartMode' = "RESUME"
  /\ events' = events \cup {"NETWORK_INIT"}
  /\ UNCHANGED <<devState, nwkStatus, zdoDiscCounter, timers, nwk, heapVars>>

ZDApp_ProcessOSALMsg ==
  /\ msgs # <<>> /\ boot = "done"
  /\ msgs' = Tail(msgs)
  /\ draining' = (Tail(msgs) # <<>>)
  /\ CASE Head(msgs) = "NWK_DISC_CNF" -> NetworkDiscovered
       [] Head(msgs) = "NWK_JOIN_IND" -> NetworkJoined
       [] Head(msgs) = "NWK_JOIN_REQ" -> ParentLost
  /\ UNCHANGED <<appVars, nv, boot, attached, air, left>>

-----------------------------------------------------------------------------
(* Then one event per call, in this order.                                 *)
Takes(e, earlier) ==
  /\ Idle /\ msgs = <<>> /\ e \in events /\ events \cap earlier = {}

\* ZDO_StartDevice: a discovery to join or rejoin, an orphan scan to resume
NetworkInit ==
  /\ Takes("NETWORK_INIT", {})
  /\ devState' = IF devStartMode = "RESUME" THEN "ORPHAN" ELSE "NWK_DISC"
  /\ RequestOrRetry(IF devStartMode = "RESUME" THEN "ORPHAN" ELSE "DISC")
  /\ events' = (events \ {"NETWORK_INIT"}) \cup {"STATE_CHANGE"}
  /\ UNCHANGED <<devStartMode, nwkStatus, retryCnt, zdoDiscCounter, msgs,
                 draining, appVars, nv, boot, attached, air, left>>

\* Mutant: a message that cannot be allocated is not tried again.
ZDO_UpdateNwkStatus_once ==
  /\ Takes("STATE_CHANGE", {"NETWORK_INIT"})
  /\ \E ok \in IF told = "none" THEN Outcomes ELSE {TRUE} :
       /\ told' = IF ok THEN Status ELSE told
       /\ events' = events \ {"STATE_CHANGE"}
       /\ Count(ok)
  /\ UNCHANGED <<joinVars, msgs, draining, timers, appState, nv, boot, nwkVars,
                 lost, left>>

(* A message that still waits is modified; one that cannot be allocated    *)
(* is tried again.                                                         *)
ZDO_UpdateNwkStatus ==
  /\ Takes("STATE_CHANGE", {"NETWORK_INIT"})
  /\ \E ok \in IF told = "none" THEN Outcomes ELSE {TRUE} :
       /\ told' = IF ok THEN Status ELSE told
       /\ events' = IF ok THEN events \ {"STATE_CHANGE"} ELSE events
       /\ Count(ok)
  /\ UNCHANGED <<joinVars, msgs, draining, timers, appState, nv, boot, nwkVars,
                 lost, left>>

ZDApp_SaveNetworkStateEvt ==
  /\ Takes("NWK_UPDATE_NV", {"NETWORK_INIT", "STATE_CHANGE"})
  /\ nv' = [nv EXCEPT !.net = TRUE, !.startNew = FALSE]
  /\ events' = events \ {"NWK_UPDATE_NV"}
  /\ UNCHANGED <<joinVars, msgs, draining, timers, appVars, boot, nwkVars,
                 heapVars, left>>

(* ZDO_DEVICE_RESET: the option is written, and SystemResetSoft does not   *)
(* return.                                                                 *)
DeviceReset ==
  /\ Takes("DEVICE_RESET", Events \ {"DEVICE_RESET"})
  /\ nv' = [nv EXCEPT !.startNew = TRUE]
  /\ boot' = "reset"
  /\ UNCHANGED <<joinVars, taskVars, appVars, nwkVars, heapVars, left>>

SystemResetSoft == boot = "reset" /\ Restart

\* the application takes the message (EnddeviceApp)
ApplicationReads ==
  /\ Idle /\ told # "none"
  /\ appState' = told /\ told' = "none"
  /\ UNCHANGED <<joinVars, taskVars, nv, boot, nwkVars, heapVars, left>>

Step == \/ HoldOption \/ SystemResetSoft
        \/ ZDO_NetworkDiscoveryConfirmCB \/ ZDO_JoinConfirmCB
        \/ ZDApp_ProcessOSALMsg \/ NetworkInit \/ ZDO_UpdateNwkStatus
        \/ ZDApp_SaveNetworkStateEvt \/ DeviceReset
        \/ ApplicationReads

Next == \/ Step
        \/ \E e \in Events : TimerExpires(e)
        \/ ZDO_SyncIndicationCB \/ NetworkStateChanges \/ ZDO_LeaveInd
        \/ Environment \/ PowerLoss

Spec == Init /\ [][Next]_vars

(* The OSAL runs a task that has work, the clock runs, and the network     *)
(* layer answers.                                                          *)
FairSpec == Spec /\ WF_vars(Step) /\ \A e \in Events : WF_vars(TimerExpires(e))

-----------------------------------------------------------------------------
TypeOK ==
  /\ devState \in States /\ devStartMode \in {"JOIN", "REJOIN", "RESUME"}
  /\ nwkStatus \in BOOLEAN
  /\ retryCnt \in 0 .. CounterSize - 1 /\ zdoDiscCounter \in 0 .. CounterSize - 1
  /\ msgs \in Seq({"NWK_DISC_CNF", "NWK_JOIN_IND", "NWK_JOIN_REQ"})
  /\ Len(msgs) <= MaxMsgs
  /\ draining \in BOOLEAN /\ (draining => msgs # <<>>)
  /\ events \in SUBSET Events /\ timers \in SUBSET Events
  /\ told \in {"none", "in", "out"} /\ appState \in {"in", "out"}
  /\ nv \in [net : BOOLEAN, startNew : BOOLEAN, leave : Leave]
  /\ boot \in {"done", "hold", "reset"}
  /\ nwk \in Procedures \cup {"DISC", "idle"}
  /\ attached \in BOOLEAN /\ air \in Airs
  /\ faults \in 0 .. MaxFaults /\ lost \in BOOLEAN
  /\ left \in {"no", "told", "gone", "forgotten"}

(* The application knows whether the device is in the network: what it was *)
(* told last, or the message that waits, says so, or the event that sends  *)
(* one is pending, though messages are merged and the heap may be full     *)
(* ("the Application task may only receive notification of the final,      *)
(* steady-state state", ZDObject.c:445).                                   *)
LastTold == IF told = "none" THEN appState ELSE told

AppInformed ==
  \/ "STATE_CHANGE" \in events
  \/ LastTold = Status

(* A device in the network has a parent or is about to look for one again: *)
(* no order of confirmations and losses of a parent leaves it in the       *)
(* belief that it is connected, unless a message was dropped.              *)
BelievesRightly ==
  devState = "END_DEVICE" /\ ~lost =>
    attached \/ "NETWORK_INIT" \in events \/ \E i \in DOMAIN msgs : msgs[i] = "NWK_JOIN_REQ"

(* A device that was told to leave for good does not come back to that     *)
(* network after its restart, whether the reset was done or the power was  *)
(* lost before, and however often it is lost later: it holds once and then *)
(* makes a new join ("force a new join", ZDApp.c:672).  Only if the power  *)
(* is lost twice is the leave forgotten: before the reset writes the       *)
(* option, and again between the two writes of the next power-up, which    *)
(* clears the leave before it sets the option (ZDApp.c:1714, 673).         *)
LeftStaysOut ==
  left = "gone" => devState \in {"HOLD"} \/ devStartMode = "JOIN"

(* With a network in range that takes the device back it is in the network *)
(* again and again, unless the heap was full at the wrong moment or the    *)
(* device was told to leave.                                               *)
ComesBack ==
  (<>[](air = Procedures) /\ <>[]~lost /\ <>[][~ZDO_LeaveInd]_vars
     /\ <>[][~PowerLoss]_vars /\ <>[](devState # "HOLD"))
    => []<>(devState = "END_DEVICE")

(* "Do a normal join to the network after certain times of rejoin retries" *)
(* (ZDApp.c:1501): a network that does not take the device back but allows *)
(* a new join is joined.                                                   *)
JoinsAfterRetries ==
  (<>[](air = {"JOIN"}) /\ <>[]~lost /\ <>[][~ZDO_LeaveInd]_vars
     /\ <>[][~PowerLoss]_vars /\ <>[](devState # "HOLD"))
    => []<>(devState = "END_DEVICE")
=============================================================================
