SPECIFICATION FairSpec
CONSTANTS
  A = A
  B = B
  r1 = r1
  r2 = r2
  TimerIds = {A, B}
  Recs = {r1, r2}
  Timeouts = {2}
  MaxLag = 2
  NULL = NULL
INVARIANTS ListIntact NeverLate
PROPERTIES StopPrevents Expires
