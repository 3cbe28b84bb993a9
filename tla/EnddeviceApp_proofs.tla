------------------------ MODULE EnddeviceApp_proofs -------------------------
(***************************************************************************)
(* What the thermostat guarantees for every set of keys, commands, sensor  *)
(* samples and bounds.                                                     *)
(***************************************************************************)
EXTENDS EnddeviceApp, SequenceTheorems, TLAPS

Safe ==
  /\ RelayOffWhenPowerOff
  /\ AutoFaultSafe
  /\ ControlAlive
  /\ CoordinatorInformed
  /\ IdentitySaved

\* the fields of the reports and of the non-volatile memory
Shapes ==
  /\ DOMAIN told = {"power", "mode", "rm", "fl", "id"}
  /\ DOMAIN nv = {"id", "rm", "fl", "pan"}

InboxOK == inbox \in Seq(AppMsg) /\ halKeySavedKeystate \subseteq Keys

IInv == Shapes /\ InboxOK /\ Safe

-----------------------------------------------------------------------------
(* Reports                                                                 *)

\* A report changes the fields it has, when the device is on the network.
LEMMA TellEffect ==
  ASSUME NEW report, Tell(report)
  PROVE  /\ DOMAIN told' = DOMAIN told
         /\ LINKED => \A f \in DOMAIN told :
              told'[f] = IF f \in DOMAIN report THEN report[f] ELSE told[f]
BY DEF Tell

\* The last part of the key handler reports what PWR and AIR changed.
LEMMA ReportsEffect ==
  ASSUME NEW keys, NEW first, DOMAIN first \subseteq {"rm", "fl"}
  PROVE  /\ "power" \in DOMAIN Reports(keys, first) <=> "PWR" \in keys
         /\ "mode" \in DOMAIN Reports(keys, first) <=> "AIR" \in keys /\ POWER'
         /\ "id" \notin DOMAIN Reports(keys, first)
         /\ "PWR" \in keys => Reports(keys, first)["power"] = POWER'
         /\ "AIR" \in keys /\ POWER' => Reports(keys, first)["mode"] = End_Mod'
<1> DEFINE D == DOMAIN first
                \cup (IF "PWR" \in keys THEN {"power"} ELSE {})
                \cup (IF "AIR" \in keys /\ POWER' THEN {"mode"} ELSE {})
                \cup (IF SavesSetTemp(keys)
                      THEN IF Real_Tem_Mod' THEN {"rm"} ELSE {"fl"} ELSE {})
<1>1. DOMAIN Reports(keys, first) = D
  BY DEF Reports
<1>2. \A f \in D : f = "power" => Reports(keys, first)[f] = POWER'
  BY DEF Reports
<1>3. \A f \in D : f = "mode" => Reports(keys, first)[f] = End_Mod'
  BY DEF Reports
<1> QED
  BY <1>1, <1>2, <1>3

\* It saves set temperatures and nothing else.
LEMMA SavedEffect ==
  ASSUME Shapes, NEW keys
  PROVE  /\ DOMAIN Saved(keys) = DOMAIN nv
         /\ Saved(keys).id = nv.id /\ Saved(keys).pan = nv.pan
BY DEF Shapes, Saved

-----------------------------------------------------------------------------
(* The handlers                                                            *)

\* A key message keeps the invariant, whatever the keys.
LEMMA KeysKeepSafe ==
  ASSUME Shapes, Safe, NEW m \in KeyMsg, HandleKeys(m),
         armed \subseteq armed', events' = events
  PROVE  Shapes' /\ Safe'
<1> USE DEF Shapes, Safe, RelayOffWhenPowerOff, AutoFaultSafe, ControlAlive,
            CoordinatorInformed, IdentitySaved
<1>0. UNCHANGED <<TOKEN, sensorVars, tickVars, LINKED>>
  BY DEF HandleKeys
<1>1. CASE m.state = "NORMAL"
  <2>1. NormalKeys(m.keys)
    BY <1>1 DEF HandleKeys
  <2>2. nv' = Saved(m.keys) /\ UNCHANGED <<editVars, panVars>>
    BY <2>1 DEF NormalKeys, AfterKeys
  <2>3. Shapes' /\ IdentitySaved'
    <3>1. DOMAIN told' = DOMAIN told
      BY <2>1, TellEffect DEF NormalKeys, AfterKeys
    <3> QED
      BY <3>1, <2>2, SavedEffect DEF editVars, panVars
  <2>4. CoordinatorInformed'
    <3>1. Tell(Reports(m.keys, NoReport))
      BY <2>1 DEF NormalKeys, AfterKeys
    <3>2. DOMAIN NoReport \subseteq {"rm", "fl"}
      BY DEF NoReport
    <3>3. POWER' = POWER \/ "PWR" \in m.keys
      BY <2>1 DEF NormalKeys
    <3>4. End_Mod' = End_Mod \/ ("AIR" \in m.keys /\ POWER')
      BY <2>1 DEF NormalKeys
    <3>5. MyDeviceId' = MyDeviceId
      BY <2>2 DEF editVars
    <3> QED
      BY <1>0, <3>1, <3>2, <3>3, <3>4, <3>5, TellEffect, ReportsEffect
  <2>5. RelayOffWhenPowerOff' /\ AutoFaultSafe' /\ ControlAlive'
    BY <1>0, <2>1 DEF NormalKeys, RelayAfterKeys, sensorVars
  <2> QED
    BY <2>3, <2>4, <2>5
<1>2. CASE m.state = "SHIFT"
  <2>1. ShiftKeys(m.keys)
    BY <1>2 DEF HandleKeys
  <2>2. /\ UNCHANGED <<heatVars, setVars, panVars, MyDeviceId>>
        /\ nv' = Saved(m.keys) /\ Tell(Reports(m.keys, NoReport))
    BY <2>1 DEF ShiftKeys, AfterKeys
  <2>3. DOMAIN NoReport \subseteq {"rm", "fl"}
    BY DEF NoReport
  <2>4. CoordinatorInformed'
    BY <1>0, <2>2, <2>3, TellEffect, ReportsEffect DEF heatVars
  <2> QED
    BY <1>0, <2>2, <2>4, TellEffect, SavedEffect
       DEF heatVars, panVars, sensorVars
<1>3. CASE m.state = "SHIFTBOUNCE"
  <2>1. ShiftBounce
    BY <1>3 DEF HandleKeys
  <2>2. CASE CommitId
    <3>1. Tell([id |-> debugnum])
      BY <2>2 DEF CommitId
    <3> QED
      BY <1>0, <2>1, <2>2, <3>1, TellEffect
         DEF ShiftBounce, CommitId, heatVars, panVars, sensorVars
  <2>3. CASE CommitPan
    BY <1>0, <2>1, <2>3 DEF ShiftBounce, CommitPan, heatVars, sensorVars
  <2> QED
    BY <2>1, <2>2, <2>3 DEF ShiftBounce
<1>4. CASE m.state = "EXIT_DOUBLE_HIT"
  <2> DEFINE first == [rm |-> SetRM_Temperature, fl |-> SetFL_Temperature]
  <2>1. ExitDoubleHit(m.keys)
    BY <1>4 DEF HandleKeys
  <2>2. /\ UNCHANGED <<heatVars, setVars, editVars, panVars>>
        /\ nv' = [Saved(m.keys) EXCEPT !.rm = SetRM_Temperature,
                                       !.fl = SetFL_Temperature]
        /\ Tell(Reports(m.keys, first))
    BY <2>1 DEF ExitDoubleHit
  <2>3. DOMAIN first \subseteq {"rm", "fl"}
    OBVIOUS
  <2> HIDE DEF first
  <2>4. CoordinatorInformed'
    BY <1>0, <2>2, <2>3, TellEffect, ReportsEffect DEF heatVars, editVars
  <2>5. Shapes' /\ IdentitySaved'
    BY <2>2, TellEffect, SavedEffect DEF editVars, panVars
  <2> QED
    BY <1>0, <2>2, <2>4, <2>5 DEF heatVars, sensorVars
<1> QED
  BY <1>1, <1>2, <1>3, <1>4 DEF KeyMsg, States

\* A command of the coordinator keeps the invariant, whatever its contents.
LEMMA CommandsKeepSafe ==
  ASSUME Shapes, Safe, NEW pkt \in AfPacket, HandleAf(pkt),
         armed \subseteq armed', events' = events
  PROVE  Shapes' /\ Safe'
<1> USE DEF Shapes, Safe, RelayOffWhenPowerOff, AutoFaultSafe, ControlAlive,
            CoordinatorInformed, IdentitySaved
<1>0. UNCHANGED <<sensorVars, tickVars, LINKED, editVars, PANID>>
  BY DEF HandleAf
<1>1. CASE SetPanId(pkt)
  BY <1>0, <1>1 DEF HandleAf, heatVars, sensorVars, editVars
<1>2. CASE Ignore
  BY <1>0, <1>2 DEF Ignore, heatVars, sensorVars, editVars
<1>3. CASE ~SetPanId(pkt) /\ ForMe(pkt) /\ Command(pkt)
  <2>1. CASE SetRoomTemper(pkt)
    <3>1. Tell([rm |-> pkt.par])
      BY <2>1 DEF SetRoomTemper
    <3> QED
      BY <1>0, <2>1, <3>1, TellEffect
         DEF SetRoomTemper, heatVars, sensorVars, editVars
  <2>2. CASE SetFloorTemper(pkt)
    <3>1. Tell([fl |-> pkt.par])
      BY <2>2 DEF SetFloorTemper
    <3> QED
      BY <1>0, <2>2, <3>1, TellEffect
         DEF SetFloorTemper, heatVars, sensorVars, editVars
  <2>3. CASE SetRelayState(pkt)
    BY <1>0, <2>3 DEF SetRelayState, sensorVars, editVars
  <2>4. CASE SetMode(pkt)
    <3>1. Tell([mode |-> pkt.par])
      BY <2>4 DEF SetMode
    <3>2. REL_CTL' = 0 /\ End_Mod' = pkt.par
          /\ UNCHANGED <<POWER, nwkPanId, nv>>
      BY <2>4 DEF SetMode
    <3>3. CoordinatorInformed'
      BY <1>0, <3>1, <3>2, TellEffect DEF editVars
    <3> QED
      BY <1>0, <3>1, <3>2, <3>3, TellEffect DEF sensorVars, editVars
  <2>5. CASE StartOrShutdown(pkt)
    <3>1. Tell([power |-> POWER'])
      BY <2>5 DEF StartOrShutdown
    <3> QED
      BY <1>0, <2>5, <3>1, TellEffect DEF StartOrShutdown, sensorVars, editVars
  <2>6. CASE GiveOrTakeToken(pkt)
    BY <1>0, <2>6 DEF GiveOrTakeToken, heatVars, sensorVars, editVars
  <2> QED
    BY <1>2, <1>3, <2>1, <2>2, <2>3, <2>4, <2>5, <2>6 DEF Command
<1> QED
  BY <1>1, <1>2, <1>3 DEF HandleAf

\* A change of the network state keeps it.
LEMMA NetworkKeepsSafe ==
  ASSUME Shapes, Safe, Joined \/ Left, events' = events
  PROVE  Shapes' /\ Safe'
<1> USE DEF Shapes, Safe, RelayOffWhenPowerOff, AutoFaultSafe, ControlAlive,
            CoordinatorInformed, IdentitySaved
<1>1. CASE Joined
  BY <1>1 DEF Joined, heatVars, sensorVars
<1>2. CASE Left
  BY <1>2 DEF Left, heatVars, sensorVars, editVars, panVars
<1> QED
  BY <1>1, <1>2

-----------------------------------------------------------------------------
(* The actions                                                             *)

LEMMA InitSafe == Init => IInv
<1> SUFFICES ASSUME Init PROVE IInv
  OBVIOUS
<1>1. Shapes
  BY DEF Init, Shapes, NvDefault
<1>2. InboxOK
  BY DEF Init, InboxOK, KeyInit
<1>3. REL_CTL = 0 /\ LINKED = FALSE
  BY DEF Init, RamInit
<1>4. IdentitySaved
  BY DEF Init, RamInit, NvDefault, IdentitySaved
<1> QED
  BY <1>1, <1>2, <1>3, <1>4 DEF IInv, Safe, RelayOffWhenPowerOff,
     AutoFaultSafe, ControlAlive, CoordinatorInformed

\* A poll posts key messages only.
LEMMA PostedType ==
  ASSUME NEW now \in SUBSET Keys, halKeySavedKeystate \subseteq Keys,
         NEW posted \in Posted(now)
  PROVE  posted \in Seq(KeyMsg)
<1> DEFINE bounce == HalKeyBounce(now)
           exit   == [state |-> "EXIT_DOUBLE_HIT", keys |-> bounce]
           release == [state |-> BounceState(now), keys |-> bounce]
<1>1. exit \in KeyMsg /\ release \in KeyMsg
  BY DEF HalKeyBounce, BounceState, KeyMsg, States
<1>2. /\ <<exit>> \in Seq(KeyMsg) /\ <<release>> \in Seq(KeyMsg)
      /\ <<>> \in Seq(KeyMsg)
  BY <1>1
<1>3. Callbacks(now) \in Seq(KeyMsg)
  <2> HIDE DEF exit, release
  <2>1. Callbacks(now) = (IF hal_key_mode = 3 THEN <<exit>> ELSE <<>>)
                         \o (IF bounce # {} THEN <<release>> ELSE <<>>)
    BY DEF Callbacks, exit, release
  <2> HIDE DEF bounce
  <2> QED
    BY <1>2, <2>1
<1> DEFINE all == Callbacks(now)
<1>4. CASE AllocFails
  <2> HIDE DEF all
  <2>0. PICK i \in 1 .. Len(all) + 1 :
          \E j \in i - 1 .. Len(all) : posted = SubSeq(all, i, j)
    BY <1>4 DEF Posted, all
  <2>1. PICK j \in i - 1 .. Len(all) : posted = SubSeq(all, i, j)
    BY <2>0
  <2>2. all \in Seq(KeyMsg)
    BY <1>3 DEF all
  <2> QED
    BY <2>1, <2>2, SubSeqProperties
<1>5. CASE ~AllocFails
  BY <1>3, <1>5 DEF Posted
<1> QED
  BY <1>4, <1>5

\* The inbox holds key messages, commands and network changes only.
LEMMA InboxStep == InboxOK /\ [Next]_vars => InboxOK'
<1> SUFFICES ASSUME InboxOK, [Next]_vars PROVE InboxOK'
  OBVIOUS
<1> USE DEF InboxOK
<1>1. CASE KeyPoll
  <2>0. PICK now \in SUBSET Keys :
          /\ HalKeyPoll(now)
          /\ \E posted \in Posted(now) :
               inbox' = inbox \o [i \in DOMAIN posted |->
                                    [type |-> "KEY", msg |-> posted[i]]]
    BY <1>1 DEF KeyPoll
  <2>1. PICK posted \in Posted(now) :
          inbox' = inbox \o [i \in DOMAIN posted |->
                                 [type |-> "KEY", msg |-> posted[i]]]
    BY <2>0
  <2>2. halKeySavedKeystate' \subseteq Keys
    BY <2>0 DEF HalKeyPoll
  <2> DEFINE posts == [i \in DOMAIN posted |->
                        [type |-> "KEY", msg |-> posted[i]]]
  <2>3. posted \in Seq(KeyMsg)
    BY PostedType
  <2>4. posts \in Seq(AppMsg)
    BY <2>3 DEF AppMsg
  <2> HIDE DEF posts
  <2>5. inbox' \in Seq(AppMsg)
    BY <2>1, <2>4, ConcatProperties DEF posts
  <2> QED
    BY <2>2, <2>5
<1>2. CASE AfArrives
  <2>1. PICK pkt \in AfMsgs :
          inbox' = Append(inbox, [type |-> "AF", msg |-> pkt])
    BY <1>2 DEF AfArrives
  <2>2. pkt \in AfPacket
    BY MsgAssumption
  <2>3. [type |-> "AF", msg |-> pkt] \in AppMsg
    BY <2>2 DEF AppMsg
  <2> QED
    BY <1>2, <2>1, <2>3 DEF AfArrives, keyVars
<1>3. CASE ZdoStateChange
  BY <1>3 DEF ZdoStateChange, AppMsg, keyVars
<1>4. CASE HandleMsg
  BY <1>4 DEF HandleMsg, keyVars
<1>5. CASE \E e \in Timers : TimerExpires(e)
  BY <1>5 DEF TimerExpires, keyVars
<1>6. CASE Periodic \/ ScanLcd
  BY <1>6 DEF Periodic, ScanLcd, keyVars
<1>7. CASE SystemReset \/ PowerLoss
  <2>1. inbox' = <<>> /\ halKeySavedKeystate' = {}
    BY <1>7 DEF SystemReset, PowerLoss, Restart, KeyRestart
  <2> QED
    BY <2>1
<1>8. CASE UNCHANGED vars
  BY <1>8 DEF vars, keyVars, taskVars
<1> QED
  BY <1>1, <1>2, <1>3, <1>4, <1>5, <1>6, <1>7, <1>8 DEF Next, AppStep

\* Every step keeps the invariant.
LEMMA SafeStep == IInv /\ [Next]_vars => Shapes' /\ Safe'
<1> SUFFICES ASSUME IInv, [Next]_vars PROVE Shapes' /\ Safe'
  OBVIOUS
<1>0. Shapes /\ InboxOK /\ Safe
  BY DEF IInv
<1> DEFINE Same == /\ UNCHANGED appVars
                   /\ armed' \cup events' = armed \cup events
<1>1. ASSUME Same PROVE Shapes' /\ Safe'
  BY <1>0, <1>1 DEF Shapes, Safe, RelayOffWhenPowerOff, AutoFaultSafe,
     ControlAlive, CoordinatorInformed, IdentitySaved, appVars, heatVars,
     setVars, sensorVars, tickVars, editVars, panVars
<1>2. CASE HandleMsg
  <2> DEFINE m == Head(inbox)
  <2>1. m \in AppMsg /\ events' = events
    BY <1>0, <1>2 DEF HandleMsg, InboxOK
  <2>2. \/ /\ m.type = "KEY" /\ HandleKeys(m.msg)
           /\ StartResetIf(StartsReset(m.msg))
        \/ /\ m.type = "AF" /\ HandleAf(m.msg)
           /\ StartResetIf(SetPanId(m.msg))
        \/ m.type = "ZDO" /\ (Joined \/ Left)
    BY <1>2, <2>1 DEF HandleMsg, AppMsg, ZdoMsg
  <2>3. \A b : StartResetIf(b) => armed \subseteq armed'
    BY DEF StartResetIf
  <2> HIDE DEF m
  <2>4. CASE m.type = "KEY"
    <3>1. m.msg \in KeyMsg
      BY <2>1, <2>4 DEF AppMsg, ZdoMsg
    <3> QED
      BY <1>0, <2>1, <2>2, <2>3, <2>4, <3>1, KeysKeepSafe
  <2>5. CASE m.type = "AF"
    <3>1. m.msg \in AfPacket
      BY <2>1, <2>5 DEF AppMsg, ZdoMsg
    <3> QED
      BY <1>0, <2>1, <2>2, <2>3, <2>5, <3>1, CommandsKeepSafe
  <2>6. CASE m.type = "ZDO"
    BY <1>0, <2>1, <2>2, <2>6, NetworkKeepsSafe
  <2> QED
    BY <2>2, <2>4, <2>5, <2>6
<1>3. CASE Periodic
  <2>1. /\ UNCHANGED <<POWER, End_Mod, sensorVars, LINKED, editVars, panVars,
                        nv, told>>
        /\ "PERIODIC" \in armed'
    BY <1>3 DEF Periodic
  <2>2. REL_CTL' = REL_CTL \/ REL_CTL' = Demand
    BY <1>3 DEF Periodic
  <2>3. ~POWER \/ Error_Code # 0 => Demand = 0
    BY DEF Demand, ControlTemperature
  <2> QED
    BY <1>0, <2>1, <2>2, <2>3 DEF Shapes, Safe, RelayOffWhenPowerOff,
       AutoFaultSafe, ControlAlive, CoordinatorInformed, IdentitySaved,
       sensorVars, editVars, panVars
<1>4. CASE ScanLcd
  <2>1. /\ UNCHANGED <<POWER, End_Mod, LINKED, editVars, panVars, nv, told>>
        /\ "PERIODIC" \in armed \cup events => "PERIODIC" \in armed' \cup events'
    BY <1>4 DEF ScanLcd
  <2>2. \/ REL_CTL' = REL_CTL /\ Error_Code' = Error_Code
        \/ REL_CTL' = IF Error_Code' # 0 THEN 0 ELSE REL_CTL
    BY <1>4 DEF ScanLcd, Sample, sensorVars
  <2> QED
    BY <1>0, <2>1, <2>2 DEF Shapes, Safe, RelayOffWhenPowerOff, AutoFaultSafe,
       ControlAlive, CoordinatorInformed, IdentitySaved, editVars, panVars
<1>5. CASE SystemReset \/ PowerLoss
  <2>1. Restart
    BY <1>5 DEF SystemReset, PowerLoss
  <2> QED
    BY <1>0, <2>1 DEF Restart, RamRestart, Shapes, Safe, RelayOffWhenPowerOff,
       AutoFaultSafe, ControlAlive, CoordinatorInformed, IdentitySaved
<1>6. CASE \E e \in Timers : TimerExpires(e)
  BY <1>1, <1>6 DEF TimerExpires
<1>7. CASE KeyPoll \/ AfArrives \/ ZdoStateChange
  BY <1>1, <1>7 DEF KeyPoll, AfArrives, ZdoStateChange
<1>8. CASE UNCHANGED vars
  BY <1>1, <1>8 DEF vars, taskVars
<1> QED
  BY <1>2, <1>3, <1>4, <1>5, <1>6, <1>7, <1>8 DEF Next, AppStep

-----------------------------------------------------------------------------

\* The inductive invariant of the thermostat.
THEOREM Invariant == Spec => []IInv
<1>1. IInv /\ [Next]_vars => IInv'
  BY InboxStep, SafeStep DEF IInv
<1> QED
  BY <1>1, InitSafe, PTL DEF Spec

\* A thermostat that is switched off never heats.
THEOREM RelayOffInvariant == Spec => []RelayOffWhenPowerOff
<1>1. IInv => RelayOffWhenPowerOff
  BY DEF IInv, Safe
<1> QED
  BY <1>1, Invariant, PTL

\* In the automatic mode it never heats with a broken sensor.
THEOREM AutoFaultInvariant == Spec => []AutoFaultSafe
<1>1. IInv => AutoFaultSafe
  BY DEF IInv, Safe
<1> QED
  BY <1>1, Invariant, PTL

\* While it heats in the automatic mode the control loop is alive.
THEOREM ControlAliveInvariant == Spec => []ControlAlive
<1>1. IInv => ControlAlive
  BY DEF IInv, Safe
<1> QED
  BY <1>1, Invariant, PTL

\* On the network, what the coordinator was told is what the device does.
THEOREM CoordinatorInvariant == Spec => []CoordinatorInformed
<1>1. IInv => CoordinatorInformed
  BY DEF IInv, Safe
<1> QED
  BY <1>1, Invariant, PTL

\* The device and network ids survive a restart at any moment.
THEOREM IdentityInvariant == Spec => []IdentitySaved
<1>1. IInv => IdentitySaved
  BY DEF IInv, Safe
<1> QED
  BY <1>1, Invariant, PTL

-----------------------------------------------------------------------------
(* The restart that a change of the network id asks for.  No handler stops *)
(* the timer, and what a handler does not take it returns.                 *)
LEMMA ResetStep ==
  ASSUME IInv, [Next]_vars, ResetDue, ~Restart PROVE ResetDue'
<1>1. ASSUME HandleMsg PROVE ResetDue'
  <2> DEFINE m == Head(inbox)
  <2>1. m.type \in {"KEY", "AF", "ZDO"} /\ events' = events
    BY <1>1 DEF HandleMsg, IInv, InboxOK, AppMsg, ZdoMsg
  <2>2. \/ \E b : StartResetIf(b)
        \/ Joined \/ Left
    BY <1>1, <2>1 DEF HandleMsg
  <2>3. armed \subseteq armed'
    BY <2>2 DEF StartResetIf, Joined, Left
  <2> QED
    BY <2>1, <2>3 DEF ResetDue
<1>2. ASSUME Periodic \/ ScanLcd PROVE ResetDue'
  BY <1>2 DEF Periodic, ScanLcd, ResetDue
<1>3. ASSUME \E e \in Timers : TimerExpires(e) PROVE ResetDue'
  BY <1>3 DEF TimerExpires, ResetDue
<1>4. ASSUME KeyPoll \/ AfArrives \/ ZdoStateChange \/ UNCHANGED vars PROVE ResetDue'
  BY <1>4 DEF KeyPoll, AfArrives, ZdoStateChange, vars, taskVars, ResetDue
<1> QED
  BY <1>1, <1>2, <1>3, <1>4 DEF Next, AppStep, SystemReset, PowerLoss

\* A restart that is due stays due until the device restarts: neither a message,
\* nor another timer event handled first, nor a change of the network makes the
\* handler lose it (EnddeviceApp.c:349).
THEOREM ResetAlwaysKept == Spec => ResetKept
<1>1. IInv /\ [Next]_vars => (ResetDue /\ ~ResetDue' => Restart)
  BY ResetStep
<1>2. IInv /\ [Next]_vars => [ResetDue /\ ~ResetDue' => Restart]_vars
  BY <1>1
<1> QED
  BY <1>2, Invariant, PTL DEF Spec, ResetKept

-----------------------------------------------------------------------------
(* The set temperatures.  With one key at a time, and memory for every key *)
(* message, what is in use and not saved is waiting for the end of a       *)
(* double hit, to be noticed by the driver or to be handled.               *)

SavesAll(m) == m.type = "KEY" /\ m.msg.state = "EXIT_DOUBLE_HIT"

EndOfDoubleHitComes ==
  double_hit \/ hal_key_mode = 3 \/ \E i \in 1 .. Len(inbox) : SavesAll(inbox[i])

TempsSaved == nv.rm = SetRM_Temperature /\ nv.fl = SetFL_Temperature

OneKey(m) == m.type = "KEY" => \E k \in AllKeys : m.msg.keys \subseteq {k}

SetOK ==
  /\ TempsSaved \/ EndOfDoubleHitComes
  /\ \A i \in 1 .. Len(inbox) : OneKey(inbox[i])

\* A release of one key saves the temperature it changes, unless a double hit
\* is in progress.
LEMMA KeySaves ==
  ASSUME Shapes, NEW m \in KeyMsg, HandleKeys(m), NEW k, m.keys \subseteq {k}
  PROVE  /\ m.state = "EXIT_DOUBLE_HIT" => TempsSaved'
         /\ TempsSaved /\ ~double_hit => TempsSaved'
<1> USE DEF Shapes, TempsSaved
<1>1. CASE m.state = "NORMAL"
  <2>1. NormalKeys(m.keys) /\ nv' = Saved(m.keys)
    BY <1>1 DEF HandleKeys, NormalKeys, AfterKeys
  <2> SUFFICES ASSUME TempsSaved, ~double_hit PROVE TempsSaved'
    BY <1>1
  <2>2. CASE m.keys \cap {"DEC", "INC"} = {}
    <3>1. Adjusted(SetRM_Temperature, SetRMMax, m.keys) = SetRM_Temperature
          /\ Adjusted(SetFL_Temperature, SetFLMax, m.keys) = SetFL_Temperature
      BY <2>2 DEF Adjusted
    <3>2. ~SavesSetTemp(m.keys)
      BY <2>2 DEF SavesSetTemp
    <3> QED
      BY <2>1, <3>1, <3>2 DEF NormalKeys, Saved
  <2>3. CASE m.keys \cap {"DEC", "INC"} # {}
    <3>1. "PWR" \notin m.keys /\ "AIR" \notin m.keys /\ "FLR" \notin m.keys
      BY <2>3
    <3>2. POWER' = POWER /\ End_Mod' = End_Mod /\ (Real_Tem_Mod' <=> Real_Tem_Mod)
      BY <2>1, <3>1 DEF NormalKeys
    <3>3. SavesSetTemp(m.keys) <=> POWER /\ End_Mod # 0
      BY <2>3, <3>2 DEF SavesSetTemp
    <3>4. CASE ~(POWER /\ End_Mod # 0)
      BY <2>1, <3>3, <3>4 DEF NormalKeys, Saved
    <3>5. CASE POWER /\ End_Mod # 0 /\ Real_Tem_Mod
      BY <2>1, <3>2, <3>3, <3>5 DEF NormalKeys, Saved
    <3>6. CASE POWER /\ End_Mod # 0 /\ ~Real_Tem_Mod
      BY <2>1, <3>2, <3>3, <3>6 DEF NormalKeys, Saved
    <3> QED
      BY <3>4, <3>5, <3>6
  <2> QED
    BY <2>2, <2>3
<1>2. CASE m.state = "SHIFT"
  <2>1. UNCHANGED setVars /\ nv' = Saved(m.keys)
    BY <1>2 DEF HandleKeys, ShiftKeys, AfterKeys
  <2> QED
    BY <1>2, <2>1 DEF setVars, Saved
<1>3. CASE m.state = "SHIFTBOUNCE"
  <2>1. UNCHANGED setVars /\ nv'.rm = nv.rm /\ nv'.fl = nv.fl
    BY <1>3 DEF HandleKeys, ShiftBounce, CommitId, CommitPan
  <2> QED
    BY <1>3, <2>1 DEF setVars
<1>4. CASE m.state = "EXIT_DOUBLE_HIT"
  <2>1. /\ UNCHANGED setVars
        /\ nv' = [Saved(m.keys) EXCEPT !.rm = SetRM_Temperature,
                                       !.fl = SetFL_Temperature]
    BY <1>4 DEF HandleKeys, ExitDoubleHit
  <2> QED
    BY <2>1, SavedEffect DEF setVars
<1> QED
  BY <1>1, <1>2, <1>3, <1>4 DEF KeyMsg, States

\* A command saves the temperature it sets.
LEMMA CommandSaves ==
  ASSUME Shapes, NEW pkt, HandleAf(pkt), TempsSaved PROVE TempsSaved'
<1> USE DEF Shapes, TempsSaved, setVars
<1>1. CASE SetPanId(pkt) \/ Ignore
  BY <1>1 DEF HandleAf, Ignore
<1>2. CASE ~SetPanId(pkt) /\ ForMe(pkt) /\ Command(pkt)
  BY <1>2 DEF Command, SetRoomTemper, SetFloorTemper, SetRelayState, SetMode,
              StartOrShutdown, GiveOrTakeToken, Ignore
<1> QED
  BY <1>1, <1>2 DEF HandleAf

\* A poll reports a key that was released, and a double hit goes on or ends.
LEMMA PollReports ==
  ASSUME ~Chords, ~AllocFails, InboxOK, SetOK, KeyPoll
  PROVE  SetOK'
<1>1. PICK now \in SUBSET Keys :
        /\ Reachable(now) /\ HalKeyPoll(now)
        /\ \E posted \in Posted(now) :
             inbox' = inbox \o [i \in DOMAIN posted |->
                                  [type |-> "KEY", msg |-> posted[i]]]
  BY DEF KeyPoll
<1> DEFINE all   == Callbacks(now)
           posts == [i \in DOMAIN all |-> [type |-> "KEY", msg |-> all[i]]]
<1>2. inbox' = inbox \o posts /\ UNCHANGED <<nv, setVars>>
  BY <1>1 DEF Posted, KeyPoll, appVars
<1>3. all \in Seq(KeyMsg)
  <2>1. all \in Posted(now) /\ halKeySavedKeystate \subseteq Keys
    BY DEF Posted, InboxOK
  <2> HIDE DEF all
  <2> QED
    BY <2>1, PostedType
<1>4. PICK k \in AllKeys : HalKeyBounce(now) \subseteq {k}
  BY <1>1, KeyAssumption DEF Reachable, HalKeyBounce
<1> DEFINE bounce  == HalKeyBounce(now)
           exit    == [state |-> "EXIT_DOUBLE_HIT", keys |-> bounce]
           release == [state |-> BounceState(now), keys |-> bounce]
<1>5. all = (IF hal_key_mode = 3 THEN <<exit>> ELSE <<>>)
            \o (IF bounce # {} THEN <<release>> ELSE <<>>)
  BY DEF Callbacks
<1>6. \A i \in 1 .. Len(all) : all[i].keys = bounce
  <2>1. exit.keys = bounce /\ release.keys = bounce
    OBVIOUS
  <2> HIDE DEF exit, release, bounce, all
  <2> QED
    BY <1>5, <2>1
<1>7. hal_key_mode = 3 => 1 \in 1 .. Len(all) /\ all[1].state = "EXIT_DOUBLE_HIT"
  <2>1. exit.state = "EXIT_DOUBLE_HIT"
    OBVIOUS
  <2> HIDE DEF exit, release, bounce, all
  <2> QED
    BY <1>5, <2>1
<1> HIDE DEF all, bounce
<1>8. /\ posts \in Seq(AppMsg) /\ Len(posts) = Len(all)
      /\ \A i \in 1 .. Len(posts) : posts[i] = [type |-> "KEY", msg |-> all[i]]
  BY <1>3 DEF AppMsg
<1>9. \A i \in 1 .. Len(posts) : OneKey(posts[i])
  BY <1>4, <1>6, <1>8 DEF OneKey, bounce
<1>10. hal_key_mode = 3 => \E i \in 1 .. Len(posts) : SavesAll(posts[i])
  BY <1>7, <1>8 DEF SavesAll
<1> HIDE DEF posts
<1>11. /\ inbox' \in Seq(AppMsg) /\ Len(inbox') = Len(inbox) + Len(posts)
       /\ \A i \in 1 .. Len(inbox') :
            inbox'[i] = IF i <= Len(inbox) THEN inbox[i] ELSE posts[i - Len(inbox)]
       /\ Len(inbox) \in Nat /\ Len(posts) \in Nat
  BY <1>2, <1>8, ConcatProperties, LenProperties DEF InboxOK
<1>12. \A i \in 1 .. Len(inbox') : OneKey(inbox'[i])
  BY <1>9, <1>11 DEF SetOK
<1>13. double_hit => double_hit' \/ hal_key_mode' = 3
  BY <1>1 DEF HalKeyPoll, NextMode
<1>14. ASSUME NEW i \in 1 .. Len(inbox), SavesAll(inbox[i])
       PROVE  \E j \in 1 .. Len(inbox') : SavesAll(inbox'[j])
  BY <1>11, <1>14
<1>15. ASSUME NEW i \in 1 .. Len(posts), SavesAll(posts[i])
       PROVE  \E j \in 1 .. Len(inbox') : SavesAll(inbox'[j])
  <2>1. /\ Len(inbox) + i \in 1 .. Len(inbox')
        /\ inbox'[Len(inbox) + i] = posts[i]
    BY <1>11
  <2> QED
    BY <1>15, <2>1
<1>16. TempsSaved' \/ EndOfDoubleHitComes'
  BY <1>2, <1>10, <1>13, <1>14, <1>15 DEF SetOK, TempsSaved, setVars, EndOfDoubleHitComes
<1> QED
  BY <1>12, <1>16 DEF SetOK

LEMMA HandledSaves ==
  ASSUME Shapes, InboxOK, SetOK, HandleMsg
  PROVE  SetOK'
<1> DEFINE m == Head(inbox)
<1>1. /\ inbox \in Seq(AppMsg) /\ inbox # <<>> /\ inbox' = Tail(inbox)
      /\ UNCHANGED <<double_hit, hal_key_mode>>
  BY DEF HandleMsg, InboxOK, keyVars
<1>2. /\ Len(inbox) \in Nat /\ Len(inbox') = Len(inbox) - 1
      /\ \A i \in 1 .. Len(inbox') : inbox'[i] = inbox[i + 1] /\ i + 1 \in 1 .. Len(inbox)
      /\ m \in AppMsg /\ m = inbox[1] /\ 1 \in 1 .. Len(inbox)
  BY <1>1, HeadTailProperties, LenProperties
<1>3. \A i \in 1 .. Len(inbox') : OneKey(inbox'[i])
  BY <1>2 DEF SetOK
<1>4. \/ m.type = "KEY" /\ HandleKeys(m.msg)
      \/ m.type = "AF" /\ HandleAf(m.msg)
      \/ m.type = "ZDO" /\ (Joined \/ Left)
  BY <1>2 DEF HandleMsg, AppMsg, ZdoMsg
<1> HIDE DEF m
<1>5. /\ SavesAll(m) => TempsSaved'
      /\ TempsSaved /\ ~double_hit => TempsSaved'
  <2>1. CASE m.type = "KEY" /\ HandleKeys(m.msg)
    <3>1. m.msg \in KeyMsg
      BY <1>2, <2>1 DEF AppMsg, ZdoMsg
    <3>2. PICK k \in AllKeys : m.msg.keys \subseteq {k}
      BY <1>2, <2>1 DEF SetOK, OneKey
    <3>3. /\ m.msg.state = "EXIT_DOUBLE_HIT" => TempsSaved'
          /\ TempsSaved /\ ~double_hit => TempsSaved'
      BY <2>1, <3>1, <3>2, KeySaves
    <3> QED
      BY <2>1, <3>3 DEF SavesAll
  <2>2. CASE m.type = "AF" /\ HandleAf(m.msg)
    <3>1. TempsSaved => TempsSaved'
      BY <2>2, CommandSaves
    <3> QED
      BY <2>2, <3>1 DEF SavesAll
  <2>3. CASE m.type = "ZDO" /\ (Joined \/ Left)
    <3>1. TempsSaved => TempsSaved'
      BY <2>3 DEF Joined, Left, TempsSaved, setVars
    <3> QED
      BY <2>3, <3>1 DEF SavesAll
  <2> QED
    BY <1>4, <2>1, <2>2, <2>3
<1>6. ASSUME NEW i \in 1 .. Len(inbox), SavesAll(inbox[i]), ~SavesAll(m)
      PROVE  \E j \in 1 .. Len(inbox') : SavesAll(inbox'[j])
  <2>1. i # 1
    BY <1>2, <1>6
  <2>2. i - 1 \in 1 .. Len(inbox') /\ inbox'[i - 1] = inbox[i]
    BY <1>2, <2>1
  <2> QED
    BY <1>6, <2>2
<1>7. TempsSaved' \/ EndOfDoubleHitComes'
  BY <1>1, <1>5, <1>6 DEF SetOK, EndOfDoubleHitComes
<1> QED
  BY <1>3, <1>7 DEF SetOK

LEMMA SetStep ==
  ASSUME ~Chords, ~AllocFails, IInv, SetOK, [Next]_vars PROVE SetOK'
<1>1. Shapes /\ InboxOK
  BY DEF IInv
<1>2. CASE KeyPoll
  BY <1>1, <1>2, PollReports
<1>3. CASE HandleMsg
  BY <1>1, <1>3, HandledSaves
<1>4. ASSUME UNCHANGED <<nv, setVars, keyVars>>, NEW m \in AfMsgs \cup ZdoMsg,
             \/ inbox' = Append(inbox, [type |-> "AF", msg |-> m])
             \/ inbox' = Append(inbox, m) /\ m.type # "KEY"
      PROVE  SetOK'
  <2>1. PICK x : inbox' = Append(inbox, x) /\ x.type # "KEY"
    BY <1>4
  <2>2. /\ Len(inbox) \in Nat /\ Len(inbox') = Len(inbox) + 1
        /\ \A i \in 1 .. Len(inbox) : inbox'[i] = inbox[i]
        /\ inbox'[Len(inbox) + 1] = x
    BY <1>1, <2>1 DEF InboxOK
  <2>3. \A i \in 1 .. Len(inbox') : i \in 1 .. Len(inbox) \/ i = Len(inbox) + 1
    BY <2>2
  <2>4. \A i \in 1 .. Len(inbox') : OneKey(inbox'[i])
    BY <2>1, <2>2, <2>3 DEF SetOK, OneKey
  <2>5. \A i \in 1 .. Len(inbox) : i \in 1 .. Len(inbox')
    BY <2>2
  <2>6. TempsSaved' \/ EndOfDoubleHitComes'
    BY <1>4, <2>2, <2>5 DEF SetOK, TempsSaved, EndOfDoubleHitComes, setVars, keyVars
  <2> QED
    BY <2>4, <2>6 DEF SetOK
<1>5. CASE AfArrives
  BY <1>4, <1>5 DEF AfArrives, appVars
<1>6. CASE ZdoStateChange
  BY <1>4, <1>6 DEF ZdoStateChange, appVars, ZdoMsg
<1>7. ASSUME UNCHANGED <<nv, setVars, keyVars, inbox>> PROVE SetOK'
  BY <1>7 DEF SetOK, TempsSaved, EndOfDoubleHitComes, setVars, keyVars
<1>8. CASE Periodic \/ ScanLcd \/ UNCHANGED vars \/ \E e \in Timers : TimerExpires(e)
  BY <1>7, <1>8 DEF Periodic, ScanLcd, TimerExpires, vars, appVars, taskVars
<1>9. CASE SystemReset \/ PowerLoss
  BY <1>9 DEF SystemReset, PowerLoss, Restart, RamRestart, SetOK, TempsSaved
<1> QED
  BY <1>2, <1>3, <1>5, <1>6, <1>8, <1>9 DEF Next, AppStep

\* As long as the keys are released one at a time and the heap has room for
\* every key message, a restart in a quiet moment restores the set
\* temperatures that are in use.  Both conditions are needed: App_chord.cfg
\* shows it for the first, a lost message about the end of a double hit for
\* the second.
THEOREM SetTempsInvariant ==
  ASSUME ~Chords, ~AllocFails PROVE Spec => []SetTempsSaved
<1>1. Init => SetOK
  BY DEF Init, RamInit, NvDefault, SetOK, TempsSaved
<1>2. IInv /\ SetOK /\ [Next]_vars => SetOK'
  BY SetStep
<1>3. SetOK => SetTempsSaved
  BY DEF SetOK, TempsSaved, EndOfDoubleHitComes, SetTempsSaved, Quiet
<1> QED
  BY <1>1, <1>2, <1>3, Invariant, PTL DEF Spec
=============================================================================
