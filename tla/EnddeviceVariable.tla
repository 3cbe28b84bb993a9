-------------------------- MODULE EnddeviceVariable -------------------------
(***************************************************************************)
(* The state of the thermostat application (EnddeviceVariable.c), what it  *)
(* keeps in non-volatile memory, and what the coordinator was last told.   *)
(***************************************************************************)
EXTENDS Naturals, HalKey

CONSTANTS SetMin,        \* 16 in the source: lowest set temperature
          SetRMMax,      \* 30: highest room set temperature
          SetFLMax,      \* 50: highest floor set temperature
          SetRMInit,     \* 22: room set temperature of a new device
          SetFLInit,     \* 30: floor set temperature of a new device
          NibbleBase     \* 16: the device id is edited nibble by nibble

ASSUME VariableAssumption ==
  /\ SetMin \in 1 .. 255
  /\ SetRMMax \in SetMin .. 255
  /\ SetFLMax \in SetMin .. 255
  /\ SetRMInit \in SetMin .. SetRMMax
  /\ SetFLInit \in SetMin .. SetFLMax
  /\ NibbleBase \in 2 .. 16

VARIABLES
  POWER, End_Mod, Real_Tem_Mod, REL_CTL,        \* switch, mode, display, relay
  SetRM_Temperature, SetFL_Temperature,         \* set temperatures
  TOKEN,                                        \* may heat (coordinator)
  Error_Code, RM_Temperature, FL_Temperature,   \* sensors
  sample_tick, send_tick,                       \* phases of the two timers
  LINKED,                                       \* on the network
  MyDeviceId, debugnum, DebugMode, ID_OR_NET, BIT_SEL,   \* id editing
  PANID, nwkPanId,                              \* shown, and _NIB.nwkPanId
  nv,                                           \* non-volatile items
  told                                          \* last reports that were sent

heatVars   == <<POWER, End_Mod, Real_Tem_Mod, REL_CTL>>
setVars    == <<SetRM_Temperature, SetFL_Temperature>>
sensorVars == <<Error_Code, RM_Temperature, FL_Temperature>>
tickVars   == <<sample_tick, send_tick>>
editVars   == <<MyDeviceId, debugnum, DebugMode, ID_OR_NET, BIT_SEL>>
panVars    == <<PANID, nwkPanId>>
appVars    == <<heatVars, setVars, TOKEN, sensorVars, tickVars, LINKED,
                editVars, panVars, nv, told>>

Byte == 0 .. 255

\* values of the variables when the program starts; Enddevice_Init_NV and the
\* network layer then load what is in non-volatile memory
RamInit(stored) ==
  /\ POWER = FALSE /\ End_Mod = 0 /\ Real_Tem_Mod = TRUE /\ REL_CTL = 0
  /\ SetRM_Temperature = stored.rm /\ SetFL_Temperature = stored.fl
  /\ TOKEN = TRUE
  /\ Error_Code = 0 /\ RM_Temperature = 156 /\ FL_Temperature = 405
  /\ sample_tick = 0 /\ send_tick = 0
  /\ LINKED = FALSE
  /\ MyDeviceId = stored.id
  /\ debugnum = 0 /\ DebugMode = FALSE /\ ID_OR_NET = TRUE /\ BIT_SEL = FALSE
  /\ PANID = 0 /\ nwkPanId = stored.pan

\* The pan is loaded: a start in a new network, which makes the network layer
\* reset what it stored of the last one, is left to ZDApp.tla.
RamRestart ==
  /\ POWER' = FALSE /\ End_Mod' = 0 /\ Real_Tem_Mod' = TRUE /\ REL_CTL' = 0
  /\ SetRM_Temperature' = nv.rm /\ SetFL_Temperature' = nv.fl
  /\ TOKEN' = TRUE
  /\ Error_Code' = 0 /\ RM_Temperature' = 156 /\ FL_Temperature' = 405
  /\ sample_tick' = 0 /\ send_tick' = 0
  /\ LINKED' = FALSE
  /\ MyDeviceId' = nv.id
  /\ debugnum' = 0 /\ DebugMode' = FALSE /\ ID_OR_NET' = TRUE
  /\ BIT_SEL' = FALSE
  /\ PANID' = 0 /\ nwkPanId' = nv.pan

\* a new device writes its defaults to the items that do not exist yet
NvDefault == [id |-> 1, rm |-> SetRMInit, fl |-> SetFLInit, pan |-> 0]

\* EnddeviceApp_SendP2PMessage: a report reaches the coordinator only when
\* the device is on the network
Tell(report) ==
  told' = IF LINKED
          THEN [f \in DOMAIN told |->
                  IF f \in DOMAIN report THEN report[f] ELSE told[f]]
          ELSE told

Toggle(bit) == IF bit % 2 = 0 THEN bit + 1 ELSE bit - 1
=============================================================================
