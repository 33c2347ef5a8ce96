\* Three connections, every environment, pings that fail at any point.
CONSTANTS
  h1 = h1
  h2 = h2
  h3 = h3
  Conns = {h1, h2, h3}
SPECIFICATION FairSpec
INVARIANTS
  TypeOK
  HandlersHaveRedis
  HandlersAreAwaited
  ClientsAreClosed
PROPERTY
  StoppedProcessEnds
