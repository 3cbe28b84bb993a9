SPECIFICATION Spec
CONSTANTS
  Keys <- HeatKeys
  MAX_DOUBLE_HIT_GAP = 1
  Chords = FALSE
  SetMin = 22
  SetRMMax = 22
  SetFLMax = 30
  SetRMInit = 22
  SetFLInit = 30
  NibbleBase = 16
  AfMsgs <- HeatMsgs
  Joins = {TRUE, FALSE}
  Samples <- HeatSamples
  LookupTemp <- MCLookupTemp
  SampleTicks = 1
  SendTicks = 2
  MaxInbox = 1
  AllocFails = TRUE
INVARIANTS RelayOffWhenPowerOff AutoFaultSafe ControlAlive CoordinatorInformed
