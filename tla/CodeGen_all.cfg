\* Requests of all kinds, good and bad ones.
CONSTANTS
  EARequests <- MCEARequests
  GPRequests <- MCGPRequests
  MLRequests <- MCMLRequests
  PSORequests <- MCPSORequests
SPECIFICATION Spec
INVARIANTS
  TypeOK
  WorkingRequests
  TreesStayLimited
