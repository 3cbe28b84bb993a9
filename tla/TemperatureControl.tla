------------------------- MODULE TemperatureControl -------------------------
(***************************************************************************)
(* The decisions of the heating control: when the relay is closed          *)
(* (TemperatureControl.c) and when a temperature sensor is considered      *)
(* broken (EnddeviceError.c).  Temperatures are in tenths of a degree, set *)
(* temperatures in degrees.                                                *)
(***************************************************************************)
EXTENDS Integers

SATURATION == 30

\* 16-bit values of the source: an unsigned and a signed reading of n
Unsigned16(n) == n % 65536
Signed16(n) ==
  IF Unsigned16(n) >= 32768 THEN Unsigned16(n) - 65536 ELSE Unsigned16(n)

\* how far the sample is below the set temperature
Deviation(set, sample) == Signed16(set * 10 - sample)

OverHeat(floorSet, floorSample) ==
  Deviation(floorSet, floorSample) < -SATURATION

\* Mutant: a broken sensor does not matter.
ControlTemperature_anyError(roomSet, floorSet, roomSample, floorSample, power, errorCode, token) ==
  IF /\ power
     /\ ~OverHeat(floorSet, floorSample)
     /\ token
     /\ Deviation(roomSet, roomSample) > SATURATION
  THEN 1 ELSE 0

\* The relay is closed only when the device is on, the floor is not too hot,
\* no sensor is broken, the coordinator has given the token, and the room is
\* too cold.
ControlTemperature(roomSet, floorSet, roomSample, floorSample, power, errorCode, token) ==
  IF /\ power
     /\ ~OverHeat(floorSet, floorSample)
     /\ errorCode = 0
     /\ token
     /\ Deviation(roomSet, roomSample) > SATURATION
  THEN 1 ELSE 0

-----------------------------------------------------------------------------

\* the error bits of one sensor: 2 open circuit, 3 short circuit
SensorError(adc) == IF adc >= 1700 THEN 2 ELSE IF adc <= 150 THEN 3 ELSE 0

NTC_Error_Detect(roomAdc, floorAdc) ==
  SensorError(roomAdc) + 4 * SensorError(floorAdc)
=============================================================================
