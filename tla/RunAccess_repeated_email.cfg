\* A list with an address twice, and a database that never fails.
CONSTANTS
  r1 = r1
  r2 = r2
  r3 = r3
  u1 = u1
  u2 = u2
  id1 = id1
  id2 = id2
  e1 = e1
  e2 = e2
  e3 = e3
  None = None
  NoRun = NoRun
  Requests = {r1, r2}
  Users = {u1, u2}
  RunIds = {id1}
  Emails = {e1, e2, e3}
  UserOf <- MCUserOf
  Lists <- Twice
  DbFails = FALSE
SPECIFICATION Spec
INVARIANT UnknownAddressWasListed
