SPECIFICATION FairSpec
CONSTANTS
  c1 = c1
  c2 = c2
  f1 = f1
  f2 = f2
  m = m
  s1 = s1
  None = None
  Main = m
  Conn <- MCConn
  Fd <- MCFd
  Loop <- MCLoop
  Pools <- MCPools
INVARIANTS TypeOK NoDanglingChannel CloseFindsItsConnection MapIsExact
PROPERTIES ImplementsConnectionLife
  PeerCloseReleases CloseReleases
CHECK_DEADLOCK FALSE
