SPECIFICATION Spec
CONSTANTS
  Keys <- SetKeys
  MAX_DOUBLE_HIT_GAP = 3
  Chords = TRUE
  SetMin = 22
  SetRMMax = 24
  SetFLMax = 23
  SetRMInit = 22
  SetFLInit = 22
  NibbleBase = 16
  AfMsgs <- SetMsgs
  Joins = {}
  Samples <- OneSample
  LookupTemp <- MCLookupTemp
  SampleTicks = 1
  SendTicks = 1
  MaxInbox = 2
  AllocFails = FALSE
INVARIANTS SetTempsSaved
