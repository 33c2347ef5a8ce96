\* Two viewers of one log.  XREAD without Block is sent as BLOCK 0: a handler may
\* wait in the history loop for ever, so that deadlock is not an error here.
CONSTANTS
  v1 = v1
  v2 = v2
  r1 = r1
  Viewers = {v1, v2}
  Runs = {r1}
  Watches <- MCWatches
  Count = 2
  MaxLog <- Three
  BadRun = 1
  MaxFaults = 1
SPECIFICATION FairSpec
CHECK_DEADLOCK FALSE
INVARIANTS
  TypeOK
  DeliveredInOrder
PROPERTIES
  ImplementsDelivery
  EndedLogEndsStream
  CancelledLiveHandlerReturns
