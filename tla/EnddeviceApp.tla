---------------------------- MODULE EnddeviceApp ----------------------------
(***************************************************************************)
(* The thermostat: the application task (EnddeviceApp.c) with the key      *)
(* driver that feeds it, the messages that wait for it, its three timers,  *)
(* and the restarts that clear the RAM.                                    *)
(*                                                                         *)
(* The OSAL runs one task at a time.  The application has the lowest       *)
(* priority, so the key driver, the radio and the network layer may post   *)
(* several messages before it runs; once it runs it handles all of them    *)
(* (OSAL.tla models the queue).                                            *)
(***************************************************************************)
EXTENDS Integers, Sequences, Enddevicekey, EnddeviceAF, TemperatureControl

CONSTANTS AfMsgs,        \* the commands that may arrive
          Joins,         \* network changes: TRUE joins, FALSE leaves
          Samples,       \* averaged ADC samples: <<room, floor>>
          LookupTemp,    \* temperature of an ADC value (NtcTable)
          SampleTicks,   \* 10: display periods between two samples
          SendTicks,     \* 4: the second at which the relay is decided
          MaxInbox,      \* bound on the messages that wait
          AllocFails     \* TRUE: the heap may be full when a key is reported

ASSUME MsgAssumption == AfMsgs \subseteq AfPacket

ASSUME AppAssumption ==
  /\ Joins \subseteq BOOLEAN
  /\ Samples \subseteq (0 .. 2047) \X (0 .. 2047)
  /\ LookupTemp \in [0 .. 4095 -> Int]
  /\ AllocFails \in BOOLEAN
  /\ SampleTicks \in Nat \ {0}
  /\ SendTicks \in Nat \ {0}
  /\ MaxInbox \in Nat \ {0}

VARIABLES inbox,      \* messages of the application in the OSAL queue
          draining,   \* the handler is in its receive loop
          armed,      \* timers that run
          events      \* timer events that are pending

taskVars == <<inbox, draining, armed, events>>
vars     == <<keyVars, appVars, taskVars>>

Timers == {"PERIODIC", "SCAN_LCD", "RESET"}
ZdoMsg == [type : {"ZDO"}, joined : Joins]
AppMsg == [type : {"KEY"}, msg : KeyMsg] \cup [type : {"AF"}, msg : AfPacket]
          \cup ZdoMsg

Init ==
  /\ nv = NvDefault
  /\ told = [power |-> FALSE, mode |-> 0, rm |-> SetRMInit, fl |-> SetFLInit,
             id |-> 1]
  /\ RamInit(NvDefault)
  /\ KeyInit
  /\ inbox = <<>> /\ draining = FALSE
  /\ armed = {"SCAN_LCD"} /\ events = {}

-----------------------------------------------------------------------------
(* What posts to the application: keys, radio, network layer, timers       *)

Idle == ~draining

\* what a poll posts: OnBoard_SendKeys drops a message it cannot allocate
Posted(now) ==
  LET all == Callbacks(now)
  IN  IF AllocFails
      THEN UNION {{SubSeq(all, i, j) : j \in i - 1 .. Len(all)}
                    : i \in 1 .. Len(all) + 1}
      ELSE {all}

KeyPoll ==
  /\ Idle
  /\ \E now \in SUBSET Keys :
       /\ Reachable(now) /\ HalKeyPoll(now)
       /\ \E posted \in Posted(now) :
            /\ Len(inbox) + Len(posted) <= MaxInbox
            /\ inbox' = inbox \o [i \in DOMAIN posted |->
                                    [type |-> "KEY", msg |-> posted[i]]]
  /\ UNCHANGED <<appVars, draining, armed, events>>

AfArrives ==
  /\ Idle /\ Len(inbox) < MaxInbox
  /\ \E pkt \in AfMsgs : inbox' = Append(inbox, [type |-> "AF", msg |-> pkt])
  /\ UNCHANGED <<keyVars, appVars, draining, armed, events>>

\* ZDApp reports each change of the device state to the application
ZdoStateChange ==
  /\ Idle /\ Len(inbox) < MaxInbox
  /\ \E m \in ZdoMsg : inbox' = Append(inbox, m)
  /\ UNCHANGED <<keyVars, appVars, draining, armed, events>>

TimerExpires(e) ==
  /\ Idle /\ e \in armed
  /\ armed' = armed \ {e}
  /\ events' = events \cup {e}
  /\ UNCHANGED <<keyVars, appVars, inbox, draining>>

-----------------------------------------------------------------------------
(* EnddeviceApp_ProcessEvent: messages first, then one event per call      *)

\* The device has joined: it registers and reports its whole state.  The pan in
\* use is here the one that keys and commands ask for; that a join brings one,
\* too, which the network layer saves (ZDApp.c:1092), is a matter of ZDApp.tla.
Joined ==
  /\ LINKED' = TRUE
  /\ PANID' = nwkPanId
  /\ debugnum' = MyDeviceId
  /\ told' = [power |-> POWER, mode |-> End_Mod, rm |-> SetRM_Temperature,
              fl |-> SetFL_Temperature, id |-> MyDeviceId]
  /\ armed' = armed \cup {"PERIODIC"}
  /\ UNCHANGED <<heatVars, setVars, TOKEN, sensorVars, tickVars, MyDeviceId,
                 DebugMode, ID_OR_NET, BIT_SEL, nwkPanId, nv>>

Left ==
  /\ LINKED' = FALSE
  /\ UNCHANGED <<heatVars, setVars, TOKEN, sensorVars, tickVars, editVars,
                 panVars, nv, told, armed>>

StartResetIf(b) == armed' = IF b THEN armed \cup {"RESET"} ELSE armed

HandleMsg ==
  /\ inbox # <<>>
  /\ LET m == Head(inbox) IN
       CASE m.type = "KEY" -> HandleKeys(m.msg) /\ StartResetIf(StartsReset(m.msg))
         [] m.type = "AF"  -> HandleAf(m.msg) /\ StartResetIf(SetPanId(m.msg))
         [] m.type = "ZDO" -> IF m.joined THEN Joined ELSE Left
  /\ inbox' = Tail(inbox)
  /\ draining' = (Tail(inbox) # <<>>)
  /\ UNCHANGED <<keyVars, events>>

Demand ==
  ControlTemperature(SetRM_Temperature, SetFL_Temperature, RM_Temperature,
                     FL_Temperature, POWER, Error_Code, TOKEN)

NextSendTick == IF send_tick = SendTicks THEN 1 ELSE send_tick + 1

\* Mutant: the timer is not started again.
Periodic_once ==
  /\ inbox = <<>> /\ "PERIODIC" \in events
  /\ REL_CTL' = IF send_tick = SendTicks /\ End_Mod # 0 THEN Demand ELSE REL_CTL
  /\ send_tick' = NextSendTick
  /\ events' = events \ {"PERIODIC"}
  /\ UNCHANGED <<keyVars, POWER, End_Mod, Real_Tem_Mod, setVars, TOKEN,
                 sensorVars, sample_tick, LINKED, editVars, panVars, nv,
                 told, inbox, draining, armed>>

\* every second; the call at SendTicks decides on the relay
Periodic ==
  /\ inbox = <<>> /\ "PERIODIC" \in events
  /\ REL_CTL' = IF send_tick = SendTicks /\ End_Mod # 0 THEN Demand ELSE REL_CTL
  /\ send_tick' = NextSendTick
  /\ armed' = armed \cup {"PERIODIC"}
  /\ events' = events \ {"PERIODIC"}
  /\ UNCHANGED <<keyVars, POWER, End_Mod, Real_Tem_Mod, setVars, TOKEN,
                 sensorVars, sample_tick, LINKED, editVars, panVars, nv,
                 told, inbox, draining>>

\* Mutant: a fault does not open the relay.
Sample_noAlarm ==
  /\ \E adc \in Samples :
       /\ Error_Code' = NTC_Error_Detect(adc[1], adc[2])
       /\ RM_Temperature' = IF Error_Code' # 0 THEN RM_Temperature
                                               ELSE LookupTemp[2 * adc[1]]
       /\ FL_Temperature' = IF Error_Code' # 0 THEN FL_Temperature
                                               ELSE LookupTemp[2 * adc[2]]
  /\ REL_CTL' = REL_CTL
  /\ sample_tick' = 1

\* the two sensors are read: a fault opens the relay and keeps the last
\* good temperatures
Sample ==
  /\ \E adc \in Samples :
       /\ Error_Code' = NTC_Error_Detect(adc[1], adc[2])
       /\ RM_Temperature' = IF Error_Code' # 0 THEN RM_Temperature
                                               ELSE LookupTemp[2 * adc[1]]
       /\ FL_Temperature' = IF Error_Code' # 0 THEN FL_Temperature
                                               ELSE LookupTemp[2 * adc[2]]
  /\ REL_CTL' = IF Error_Code' # 0 THEN 0 ELSE REL_CTL
  /\ sample_tick' = 1

\* Mutant: the other pending events are not returned to the OSAL.
ScanLcd_dropsEvents ==
  /\ inbox = <<>> /\ "SCAN_LCD" \in events /\ "PERIODIC" \notin events
  /\ IF sample_tick = SampleTicks THEN Sample
     ELSE sample_tick' = sample_tick + 1 /\ UNCHANGED <<sensorVars, REL_CTL>>
  /\ armed' = armed \cup {"SCAN_LCD"}
  /\ events' = {}
  /\ UNCHANGED <<keyVars, POWER, End_Mod, Real_Tem_Mod, setVars, TOKEN,
                 send_tick, LINKED, editVars, panVars, nv, told, inbox,
                 draining>>

\* every 200 ms; every tenth call reads the sensors
ScanLcd ==
  /\ inbox = <<>> /\ "SCAN_LCD" \in events /\ "PERIODIC" \notin events
  /\ IF sample_tick = SampleTicks THEN Sample
     ELSE sample_tick' = sample_tick + 1 /\ UNCHANGED <<sensorVars, REL_CTL>>
  /\ armed' = armed \cup {"SCAN_LCD"}
  /\ events' = events \ {"SCAN_LCD"}
  /\ UNCHANGED <<keyVars, POWER, End_Mod, Real_Tem_Mod, setVars, TOKEN,
                 send_tick, LINKED, editVars, panVars, nv, told, inbox,
                 draining>>

-----------------------------------------------------------------------------
(* Restarts: everything but the non-volatile memory is lost                *)

Restart ==
  /\ RamRestart
  /\ KeyRestart
  /\ inbox' = <<>> /\ draining' = FALSE
  /\ armed' = {"SCAN_LCD"} /\ events' = {}
  /\ UNCHANGED <<nv, told>>

SystemReset ==
  /\ inbox = <<>> /\ events = {"RESET"}
  /\ Restart

PowerLoss == Idle /\ Restart

AppStep == HandleMsg \/ Periodic \/ ScanLcd \/ SystemReset

Next == \/ AppStep
        \/ \E e \in Timers : TimerExpires(e)
        \/ KeyPoll \/ AfArrives \/ ZdoStateChange \/ PowerLoss

Spec == Init /\ [][Next]_vars

\* The OSAL runs the application when it has work, and its timers expire.
\* Messages go first, but they do not arrive so fast that the application
\* never gets to its timer events.
FairSpec == /\ Spec
            /\ WF_vars(HandleMsg)
            /\ SF_vars(Periodic) /\ SF_vars(ScanLcd) /\ SF_vars(SystemReset)
            /\ \A e \in Timers : WF_vars(TimerExpires(e))

-----------------------------------------------------------------------------

Told == [power : BOOLEAN, mode : Byte, rm : Byte, fl : Byte, id : Byte]

TypeOK ==
  /\ KeyTypeOK
  /\ POWER \in BOOLEAN /\ End_Mod \in Byte /\ Real_Tem_Mod \in BOOLEAN
  /\ REL_CTL \in {0, 1}
  /\ SetRM_Temperature \in Byte /\ SetFL_Temperature \in Byte
  /\ TOKEN \in BOOLEAN
  /\ Error_Code \in 0 .. 15
  /\ RM_Temperature \in Int /\ FL_Temperature \in Int
  /\ sample_tick \in 0 .. SampleTicks /\ send_tick \in 0 .. SendTicks
  /\ LINKED \in BOOLEAN
  /\ MyDeviceId \in Byte /\ debugnum \in Byte
  /\ DebugMode \in BOOLEAN /\ ID_OR_NET \in BOOLEAN /\ BIT_SEL \in BOOLEAN
  /\ PANID \in Byte /\ nwkPanId \in Byte
  /\ nv \in [id : Byte, rm : Byte, fl : Byte, pan : Byte]
  /\ told \in Told
  /\ inbox \in Seq(AppMsg) /\ Len(inbox) <= MaxInbox
  /\ draining \in BOOLEAN /\ (draining => inbox # <<>>)
  /\ armed \in SUBSET Timers /\ events \in SUBSET Timers

\* A device that is switched off does not heat, whichever of its keys, the
\* coordinator, the sampling and the control loop acted last.
RelayOffWhenPowerOff == ~POWER => REL_CTL = 0

\* In the automatic mode a sensor fault keeps the relay open: the sampling
\* opens it, and neither the control loop nor a change of mode closes it.
AutoFaultSafe == End_Mod # 0 /\ Error_Code # 0 => REL_CTL = 0

\* While the control loop heats, its timer runs or its event is pending:
\* nothing else would ever open the relay again.
ControlAlive ==
  End_Mod # 0 /\ REL_CTL = 1 => "PERIODIC" \in armed \cup events

\* On the network, the coordinator knows whether the device is on, its mode
\* and its id: every path that changes one of them reports it.
CoordinatorInformed ==
  LINKED => told.power = POWER /\ told.mode = End_Mod /\ told.id = MyDeviceId

\* Once all key messages are handled and no double hit is open, the set
\* temperatures that a restart would restore are the ones in use.
Quiet == inbox = <<>> /\ ~double_hit /\ hal_key_mode # 3

SetTempsSaved ==
  Quiet => nv.rm = SetRM_Temperature /\ nv.fl = SetFL_Temperature

\* The device keeps its id and its network over a restart: what it uses is
\* what is in non-volatile memory, after the edits of its keys and the commands
\* of the coordinator.
IdentitySaved == nv.id = MyDeviceId /\ nv.pan = nwkPanId

\* A sensor fault opens the relay in the end even in the manual mode: the
\* sampling goes on for ever.
FaultEndsHeating ==
  Error_Code # 0 /\ REL_CTL = 1 ~> REL_CTL = 0 \/ Error_Code = 0

\* The control loop ends a heating that is no longer called for.
HeatingEnds ==
  REL_CTL = 1 /\ End_Mod # 0 ~> REL_CTL = 0 \/ End_Mod = 0 \/ Demand = 1

\* A change of the network id takes effect: the timer that it started expires,
\* and its event, which is the last one that the handler looks at and is
\* returned to the OSAL until then (EnddeviceApp.c:349), is taken only by the
\* restart itself.
ResetDue == "RESET" \in armed \cup events

ResetKept == [][ResetDue /\ ~ResetDue' => Restart]_vars

PanChangeRestarts ==
  /\ "RESET" \in armed ~> ~ResetDue
  /\ ResetKept
=============================================================================
