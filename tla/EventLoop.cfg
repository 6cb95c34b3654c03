SPECIFICATION FairSpec
CONSTANTS
  p1 = p1
  p2 = p2
  t1 = t1
  t2 = t2
  t3 = t3
  None = None
  Poster <- MCPoster
  Task <- MCTask
  MaxWake = 3
INVARIANTS TypeOK NoLostWakeup WakeupReadSucceeds
PROPERTIES ImplementsTaskQueue IoNotStarved
