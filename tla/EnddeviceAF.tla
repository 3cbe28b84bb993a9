---------------------------- MODULE EnddeviceAF -----------------------------
(***************************************************************************)
(* EnddeviceApp_HandleAfIncomingMessage (EnddeviceAF.c): the commands that *)
(* arrive over the air.  A command is a record of its cluster, the device  *)
(* it is for, its code, the length of its data and the first data byte.    *)
(***************************************************************************)
EXTENDS EnddeviceVariable

Cmds == {"SET_PANID", "SET_ROOM_TEMPER", "SET_FLOOR_TEMPER",
         "SET_RELAY_STATE", "SET_MODE", "SEND_TOKEN", "TAKEN_TOKEN",
         "START_OR_SHUTDOWN", "OTHER"}
Clusters == {"COORDINATOR_COMMAND", "OTHER"}

AfPacket == [cluster : Clusters, id : Byte, cmd : Cmds, len : {0, 1},
             par : Byte]

\* obeyed for every id and cluster; the caller starts the reset timer
SetPanId(pkt) == pkt.cmd = "SET_PANID" /\ pkt.len = 1

ForMe(pkt) ==
  pkt.id = MyDeviceId /\ pkt.cluster = "COORDINATOR_COMMAND" /\ pkt.len = 1

SetRoomTemper(pkt) ==
  /\ SetRM_Temperature' = pkt.par
  /\ nv' = [nv EXCEPT !.rm = pkt.par]
  /\ Tell([rm |-> pkt.par])
  /\ UNCHANGED <<heatVars, SetFL_Temperature, TOKEN, nwkPanId>>

SetFloorTemper(pkt) ==
  /\ SetFL_Temperature' = pkt.par
  /\ nv' = [nv EXCEPT !.fl = pkt.par]
  /\ Tell([fl |-> pkt.par])
  /\ UNCHANGED <<heatVars, SetRM_Temperature, TOKEN, nwkPanId>>

SetRelayState(pkt) ==
  /\ REL_CTL' = IF POWER /\ End_Mod = 0 THEN pkt.par % 2 ELSE REL_CTL
  /\ UNCHANGED <<POWER, End_Mod, Real_Tem_Mod, setVars, TOKEN, nwkPanId, nv,
                 told>>

\* Mutant: the relay keeps its state over a change of mode.
SetMode_keepsRelay(pkt) ==
  /\ POWER
  /\ End_Mod' = pkt.par
  /\ Tell([mode |-> pkt.par])
  /\ UNCHANGED <<POWER, Real_Tem_Mod, REL_CTL, setVars, TOKEN, nwkPanId, nv>>

\* Mutant: the new mode is not confirmed.
SetMode_silent(pkt) ==
  /\ POWER
  /\ End_Mod' = pkt.par
  /\ REL_CTL' = 0
  /\ UNCHANGED <<POWER, Real_Tem_Mod, setVars, TOKEN, nwkPanId, nv, told>>

SetMode(pkt) ==
  /\ POWER
  /\ End_Mod' = pkt.par
  /\ REL_CTL' = 0
  /\ Tell([mode |-> pkt.par])
  /\ UNCHANGED <<POWER, Real_Tem_Mod, setVars, TOKEN, nwkPanId, nv>>

\* Mutant: a shutdown leaves the relay as it is.
StartOrShutdown_keepsRelay(pkt) ==
  /\ POWER' = (pkt.par % 2 = 1)
  /\ Real_Tem_Mod' = TRUE
  /\ Tell([power |-> POWER'])
  /\ UNCHANGED <<End_Mod, REL_CTL, setVars, TOKEN, nwkPanId, nv>>

StartOrShutdown(pkt) ==
  /\ POWER' = (pkt.par % 2 = 1)
  /\ REL_CTL' = 0
  /\ Real_Tem_Mod' = TRUE
  /\ Tell([power |-> POWER'])
  /\ UNCHANGED <<End_Mod, setVars, TOKEN, nwkPanId, nv>>

GiveOrTakeToken(pkt) ==
  /\ TOKEN' = (pkt.cmd = "SEND_TOKEN")
  /\ UNCHANGED <<heatVars, setVars, nwkPanId, nv, told>>

Ignore == UNCHANGED <<heatVars, setVars, TOKEN, nwkPanId, nv, told>>

Command(pkt) ==
  CASE pkt.cmd = "SET_ROOM_TEMPER"   -> SetRoomTemper(pkt)
    [] pkt.cmd = "SET_FLOOR_TEMPER"  -> SetFloorTemper(pkt)
    [] pkt.cmd = "SET_RELAY_STATE"   -> SetRelayState(pkt)
    [] pkt.cmd = "SET_MODE" /\ POWER -> SetMode(pkt)
    [] pkt.cmd = "START_OR_SHUTDOWN" -> StartOrShutdown(pkt)
    [] pkt.cmd \in {"SEND_TOKEN", "TAKEN_TOKEN"} -> GiveOrTakeToken(pkt)
    [] OTHER -> Ignore

HandleAf(pkt) ==
  /\ IF SetPanId(pkt)
     THEN /\ nwkPanId' = pkt.par
          /\ nv' = [nv EXCEPT !.pan = pkt.par]
          /\ UNCHANGED <<heatVars, setVars, TOKEN, told>>
     ELSE IF ForMe(pkt) THEN Command(pkt) ELSE Ignore
  /\ UNCHANGED <<sensorVars, tickVars, LINKED, editVars, PANID>>
=============================================================================
