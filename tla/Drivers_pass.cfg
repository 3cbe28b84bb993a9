SPECIFICATION MCSpec
CONSTANTS
  Keys <- MCKeys
  MAX_DOUBLE_HIT_GAP = 8
  Chords = TRUE
  NTC_TABLE_SIZE = 86
  AdcDat <- ntcTableAdcDat
  Temp <- ntcTableTemp
  Beyond = 20798
  Adcs <- MCAdcs
  HdrSz = 2
  MinBlk = 4
  SmallBlk = 6
  Bucket = 12
  BigSz = 13
  Sizes = {1, 4, 7}
  MaxCsmaBackoffs = 1
  FifoSize = 3
  Prompt = {TRUE, FALSE}
INVARIANTS Accurate BlocksKept FailsOnlyWithoutRoom
INVARIANTS ConfirmedOnce SuccessIsTrue ReceiverFollows AssertsHold
PROPERTIES DoubleHitEnds ShiftLastsUnlessDoubleHit Confirmed
CHECK_DEADLOCK FALSE
