\* A history read that finds nothing waits for the runner.
CONSTANTS
  v1 = v1
  v2 = v2
  r1 = r1
  Viewers = {v1}
  Runs = {r1}
  Watches <- MCWatches
  Count = 2
  MaxLog <- Two
  BadRun = 1
  MaxFaults = 0
SPECIFICATION FairSpec
CHECK_DEADLOCK FALSE
PROPERTIES
  HistoryReadReturns
