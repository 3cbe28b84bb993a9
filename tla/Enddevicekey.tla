---------------------------- MODULE Enddevicekey ----------------------------
(***************************************************************************)
(* EnddeviceApp_HandleKeys (Enddevicekey.c): what a key message does.      *)
(* The first part depends on the state the key driver reports; the last    *)
(* part, common to all of them, reports and saves what a released key      *)
(* changed.  The last part runs after the first, on its results: it reads  *)
(* primed variables.                                                       *)
(***************************************************************************)
EXTENDS EnddeviceVariable

Clamp(v, max) == IF v <= SetMin THEN SetMin ELSE IF v >= max THEN max ELSE v

\* a set temperature after a press of DEC, of INC, or of both in this order
Adjusted(v, max, keys) ==
  LET lower  == IF "DEC" \in keys THEN Clamp((v + 255) % 256, max) ELSE v
  IN  IF "INC" \in keys THEN Clamp((lower + 1) % 256, max) ELSE lower

-----------------------------------------------------------------------------
(* The last part: reports, and saves unless a double hit is in progress    *)

SavesSetTemp(keys) ==
  keys \cap {"DEC", "INC"} # {} /\ POWER' /\ End_Mod' # 0 /\ ~double_hit

\* the reports, with the ones the first part of the handler made
Reports(keys, first) ==
  [f \in DOMAIN first
         \cup (IF "PWR" \in keys THEN {"power"} ELSE {})
         \cup (IF "AIR" \in keys /\ POWER' THEN {"mode"} ELSE {})
         \cup (IF SavesSetTemp(keys)
               THEN IF Real_Tem_Mod' THEN {"rm"} ELSE {"fl"} ELSE {})
     |-> CASE f = "power" -> POWER'
           [] f = "mode"  -> End_Mod'
           [] f = "rm"    -> SetRM_Temperature'
           [] f = "fl"    -> SetFL_Temperature'
           [] OTHER       -> first[f]]

Saved(keys) ==
  IF ~SavesSetTemp(keys) THEN nv
  ELSE IF Real_Tem_Mod' THEN [nv EXCEPT !.rm = SetRM_Temperature']
                        ELSE [nv EXCEPT !.fl = SetFL_Temperature']

NoReport == [f \in {} |-> 0]

AfterKeys(keys) == nv' = Saved(keys) /\ Tell(Reports(keys, NoReport))

-----------------------------------------------------------------------------

\* a change of power or mode opens the relay; in the manual mode INC closes
\* it and DEC opens it
RelayAfterKeys(keys) ==
  IF "PWR" \in keys \/ ("AIR" \in keys /\ POWER') THEN 0
  ELSE IF POWER /\ End_Mod = 0 /\ "INC" \in keys THEN 1
  ELSE IF POWER /\ End_Mod = 0 /\ "DEC" \in keys THEN 0
  ELSE REL_CTL

\* the power key is not held: DEC, INC, PWR, FLR and AIR take effect in turn
NormalKeys(keys) ==
  /\ SetRM_Temperature' =
       IF POWER /\ End_Mod # 0 /\ Real_Tem_Mod
       THEN Adjusted(SetRM_Temperature, SetRMMax, keys) ELSE SetRM_Temperature
  /\ SetFL_Temperature' =
       IF POWER /\ End_Mod # 0 /\ ~Real_Tem_Mod
       THEN Adjusted(SetFL_Temperature, SetFLMax, keys) ELSE SetFL_Temperature
  /\ POWER' = IF "PWR" \in keys THEN ~POWER ELSE POWER
  /\ Real_Tem_Mod' = LET room == Real_Tem_Mod \/ "PWR" \in keys
                     IN  IF "FLR" \in keys /\ POWER' THEN ~room ELSE room
  /\ End_Mod' = IF "AIR" \in keys /\ POWER' THEN Toggle(End_Mod) ELSE End_Mod
  /\ REL_CTL' = RelayAfterKeys(keys)
  /\ AfterKeys(keys)
  /\ UNCHANGED <<editVars, panVars>>

-----------------------------------------------------------------------------
(* The power key is held: edit debugnum, nibble by nibble                  *)

Lowered(nibble) == IF nibble = 0 THEN 0 ELSE nibble - 1
Raised(nibble)  == IF nibble = NibbleBase - 1 THEN 0 ELSE nibble + 1

\* DEC enters the debug mode, and once there lowers the selected nibble
EditNibble(keys, nibble) ==
  LET lower == IF "DEC" \in keys /\ DebugMode THEN Lowered(nibble) ELSE nibble
  IN  IF "INC" \in keys /\ DebugMode' THEN Raised(lower) ELSE lower

ShiftKeys(keys) ==
  /\ IF POWER THEN UNCHANGED <<ID_OR_NET, BIT_SEL, DebugMode, debugnum>>
     ELSE LET select == "AIR" \in keys /\ DebugMode
              high   == debugnum \div NibbleBase
              low    == debugnum % NibbleBase
          IN  /\ ID_OR_NET' = IF select THEN ~ID_OR_NET ELSE ID_OR_NET
              /\ BIT_SEL' = LET bit == BIT_SEL /\ ~select
                            IN  IF "FLR" \in keys /\ DebugMode THEN ~bit ELSE bit
              /\ DebugMode' = (DebugMode \/ "DEC" \in keys)
              /\ debugnum' = IF BIT_SEL'
                             THEN EditNibble(keys, high) * NibbleBase + low
                             ELSE high * NibbleBase + EditNibble(keys, low)
  /\ UNCHANGED <<heatVars, setVars, panVars, MyDeviceId>>
  /\ AfterKeys(keys)

-----------------------------------------------------------------------------
(* The power key is released after a shift: what was edited takes effect   *)

\* Mutant: the new id is not written to the non-volatile memory.
CommitId_notSaved ==
  /\ ID_OR_NET
  /\ MyDeviceId' = debugnum
  /\ Tell([id |-> debugnum])
  /\ UNCHANGED <<nv, panVars>>

CommitId ==
  /\ ID_OR_NET
  /\ MyDeviceId' = debugnum
  /\ nv' = [nv EXCEPT !.id = debugnum]
  /\ Tell([id |-> debugnum])
  /\ UNCHANGED panVars

\* the new network id is stored and the device restarts two seconds later
CommitPan ==
  /\ ~ID_OR_NET
  /\ PANID' = debugnum /\ nwkPanId' = debugnum
  /\ nv' = [nv EXCEPT !.pan = debugnum]
  /\ UNCHANGED <<MyDeviceId, told>>

ShiftBounce ==
  /\ DebugMode' = FALSE
  /\ CommitId \/ CommitPan
  /\ UNCHANGED <<heatVars, setVars, debugnum, ID_OR_NET, BIT_SEL>>

-----------------------------------------------------------------------------

\* Mutant: only the temperature that is displayed is saved.
ExitDoubleHit_displayed(keys) ==
  /\ UNCHANGED <<heatVars, setVars, editVars, panVars>>
  /\ nv' = IF Real_Tem_Mod THEN [nv EXCEPT !.rm = SetRM_Temperature]
                           ELSE [nv EXCEPT !.fl = SetFL_Temperature]
  /\ Tell(Reports(keys, [rm |-> SetRM_Temperature, fl |-> SetFL_Temperature]))

\* the double hit is over: save and report both set temperatures
ExitDoubleHit(keys) ==
  /\ UNCHANGED <<heatVars, setVars, editVars, panVars>>
  /\ nv' = [Saved(keys) EXCEPT !.rm = SetRM_Temperature,
                               !.fl = SetFL_Temperature]
  /\ Tell(Reports(keys, [rm |-> SetRM_Temperature, fl |-> SetFL_Temperature]))

\* TRUE when the handler starts the timer that resets the device
StartsReset(m) == m.state = "SHIFTBOUNCE" /\ ~ID_OR_NET

HandleKeys(m) ==
  /\ CASE m.state = "NORMAL"          -> NormalKeys(m.keys)
       [] m.state = "SHIFT"           -> ShiftKeys(m.keys)
       [] m.state = "SHIFTBOUNCE"     -> ShiftBounce
       [] m.state = "EXIT_DOUBLE_HIT" -> ExitDoubleHit(m.keys)
  /\ UNCHANGED <<TOKEN, sensorVars, tickVars, LINKED>>
=============================================================================
