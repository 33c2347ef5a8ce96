\* Viewers of two runs and a submission on a client with one connection.  A read of the
\* history may wait for ever, so that deadlock is not an error here.
CONSTANTS
  v1 = v1
  v2 = v2
  r1 = r1
  r2 = r2
  p1 = p1
  Viewers = {v1, v2}
  Pushes = {p1}
  PoolSize = 1
  Runs = {r1, r2}
  Watches <- MCWatches
  Count = 2
  MaxLog <- MCMaxLog
  BadRun = 0
  MaxFaults = 1
SPECIFICATION SharedFairSpec
CHECK_DEADLOCK FALSE
INVARIANTS
  SharedTypeOK
PROPERTIES
  StreamsEndUnlessRefused
  PushSettles
  StoppingFreesConnections
