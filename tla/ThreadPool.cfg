SPECIFICATION FairSpec
CONSTANTS
  MaxThreads = 4
  MaxGiven = 3
INVARIANTS TypeOK LoopsAreBuilt BalancedLoops
PROPERTY PoolStarts
CHECK_DEADLOCK FALSE
