SPECIFICATION Spec
CONSTANTS
  Keys <- EditKeys
  MAX_DOUBLE_HIT_GAP = 1
  Chords = FALSE
  SetMin = 22
  SetRMMax = 22
  SetFLMax = 30
  SetRMInit = 22
  SetFLInit = 30
  NibbleBase = 2
  AfMsgs <- EditMsgs
  Joins = {TRUE}
  Samples <- OneSample
  LookupTemp <- MCLookupTemp
  SampleTicks = 1
  SendTicks = 1
  MaxInbox = 1
  AllocFails = FALSE
INVARIANTS IdentitySaved
