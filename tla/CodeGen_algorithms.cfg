\* A request that is good in everything but the choice of its algorithm.
CONSTANTS
  EARequests <- MCNamedAlgorithms
  GPRequests <- NoRequests
  MLRequests <- NoRequests
  PSORequests <- NoRequests
SPECIFICATION Spec
INVARIANT AcceptedProgramsEnd
