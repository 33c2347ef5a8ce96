\* Count malformed entries in a row keep the EOF marker out of reach.
CONSTANTS
  v1 = v1
  v2 = v2
  r1 = r1
  Viewers = {v1}
  Runs = {r1}
  Watches <- MCWatches
  Count = 2
  MaxLog <- Four
  BadRun = 2
  MaxFaults = 0
SPECIFICATION FairSpec
CHECK_DEADLOCK FALSE
PROPERTIES
  EndedLogEndsStream
