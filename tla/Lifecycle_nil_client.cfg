\* Redis does not answer the first ping, and answers the second.
CONSTANTS
  h1 = h1
  h2 = h2
  h3 = h3
  Conns = {h1}
SPECIFICATION FairSpec
INVARIANT AnnouncedClientsClose
