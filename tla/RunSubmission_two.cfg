\* Two submissions by two users side by side, of all kinds, with a body that
\* compiles and one that does not.
CONSTANTS
  r1 = r1
  r2 = r2
  u1 = u1
  u2 = u2
  id1 = id1
  id2 = id2
  good = good
  bad = bad
  None = None
  Torn = Torn
  Requests = {r1, r2}
  Users = {u1, u2}
  RunIds = {id1, id2}
  Payloads = {good, bad}
  Kinds = {"ea", "gp", "ml", "pso"}
  Compiles <- MCCompiles
  PushAttempts = 2
SPECIFICATION FairSpec
CONSTRAINT Arrivals
INVARIANTS
  TypeOK
  IInv
  QueuedRunIsComplete
  ObjectsBelongToRun
  AcceptedRunIsDispatched
  CopiesBounded
  AccessNamesCreator
PROPERTIES
  QueuedRunIsFrozen
  ImplementsPublication
  EveryRequestSettles
  AcceptedRunIsTaken
