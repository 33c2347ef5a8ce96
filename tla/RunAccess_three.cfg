\* Three requests of any kind on one or two runs, with failing statements.
CONSTANTS
  r1 = r1
  r2 = r2
  r3 = r3
  u1 = u1
  u2 = u2
  id1 = id1
  id2 = id2
  e1 = e1
  e2 = e2
  e3 = e3
  None = None
  NoRun = NoRun
  Requests = {r1, r2, r3}
  Users = {u1, u2}
  RunIds = {id1, id2}
  Emails = {e1, e2, e3}
  UserOf <- MCUserOf
  Lists <- MCLists
  DbFails = TRUE
SPECIFICATION Spec
SYMMETRY Symmetry
CONSTRAINT FewCancelled
INVARIANTS
  TypeOK
  CreatorIsWriter
  GrantsAreWarranted
  SharedWithAll
  RefusedSharesNothing
  AnswersOnlyAccessible
  ListIsComplete
