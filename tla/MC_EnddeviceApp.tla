-------------------------- MODULE MC_EnddeviceApp ---------------------------
(* Instances of the thermostat.  Each run takes the keys, commands and     *)
(* samples that its question is about.                                     *)
EXTENDS EnddeviceApp, NtcValues

\* the ADC values of the samples are entries of the table
MCLookupTemp ==
  [adc \in 0 .. 4095 |->
     IF \E i \in 0 .. 85 : ntcTableAdcDat[i] = adc
     THEN ntcTableTemp[CHOOSE i \in 0 .. 85 : ntcTableAdcDat[i] = adc]
     ELSE 0]

Pkt(cmd, par) ==
  [cluster |-> "COORDINATOR_COMMAND", id |-> 1, cmd |-> cmd, len |-> 1,
   par |-> par]

Cold == ntcTableAdcDat[16] \div 2    \* 6 degrees
Hot  == ntcTableAdcDat[59] \div 2    \* 49 degrees
NoSensor == 1700                     \* open circuit

\* a cold room, a cold room on a hot floor, a floor sensor that is broken
HeatSamples == {<<Cold, Cold>>, <<Cold, Hot>>, <<Cold, NoSensor>>}
OneSample   == {<<Cold, Cold>>}

\* heating, with the commands of the coordinator (any mode but 0 is automatic),
HeatMsgs == {Pkt("SET_RELAY_STATE", 1), Pkt("SET_MODE", 2),
             Pkt("SET_MODE", 0), Pkt("START_OR_SHUTDOWN", 1),
             Pkt("START_OR_SHUTDOWN", 0), Pkt("TAKEN_TOKEN", 0),
             Pkt("SEND_TOKEN", 0)}

\* and with the keys that switch the device and the relay
HeatKeys == {"PWR", "INC"}

\* set temperatures: they are changed by keys and by the coordinator
SetKeys == {"INC", "DEC", "FLR"}
SetMsgs == {Pkt("START_OR_SHUTDOWN", 1), Pkt("SET_MODE", 1),
            Pkt("SET_ROOM_TEMPER", 22)}

\* liveness: a fault in the manual mode, and a change of the network id
LiveMsgs == {Pkt("START_OR_SHUTDOWN", 1), Pkt("SET_RELAY_STATE", 1),
             Pkt("SET_MODE", 1), Pkt("SET_PANID", 7)}
LiveSamples == {<<Cold, Cold>>, <<Cold, Hot>>, <<Cold, NoSensor>>}

\* the device id is edited with the power key held
EditKeys == {"DEC", "AIR", "PWR"}
EditMsgs == {Pkt("SET_PANID", 1)}
=============================================================================
