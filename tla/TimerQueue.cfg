SPECIFICATION FairSpec
CONSTANTS
  Timer = {t1, t2, t3}
  MaxDelay = 2
  None = None
INVARIANTS TypeOK NoDanglingEntry ArmedInTime
PROPERTIES EveryTimerRuns HandleReadReturns
