SPECIFICATION FairSpec
CONSTANTS
  tasksCnt = 3
  m1 = m1
  m2 = m2
  m3 = m3
  Buffers = {m1, m2, m3}
  Evts <- MCEvts
  DrainTasks <- MCDrain
  MaxPosts = 5
  NULL = NULL
INVARIANTS OneOwner NoLostWakeup
PROPERTIES EventsConserved ImplementsMailbox
