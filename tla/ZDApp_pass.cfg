SPECIFICATION FairSpec
CONSTANTS
  Airs <- MCAirs
  MAX_RESUME_RETRY = 2
  NUM_DISC_ATTEMPTS = 1
  CounterSize = 4
  MaxFaults = 1
  MaxMsgs = 2
INVARIANTS AppInformed BelievesRightly LeftStaysOut
PROPERTIES ComesBack
